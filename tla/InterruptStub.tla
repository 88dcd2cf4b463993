--------------------------- MODULE InterruptStub ----------------------------
(***************************************************************************)
(* Interrupt stubs: the table of a program is read (frontend.c,            *)
(* parse_interrupt_stub_entry), each entry builds its instructions         *)
(* (build_resume_interrupt_stub), the generator lets only the known        *)
(* sequence through (codegen.c, emit_raw_interrupt_stub).  Then a program  *)
(* of two byte instructions faults, again and again, while other           *)
(* interrupts strike whenever they like.  The processor is outside the     *)
(* repository; memory is counted in words of eight bytes.                  *)
(***************************************************************************)
EXTENDS Integers, Sequences, FiniteSets

CONSTANTS
    Tables,        \* the tables read: sequences of entries
    TOP,           \* words of stack
    MAX_FAULTS     \* faults of the program

(* The stack holds what the program uses of it, a frame and the saved rax. *)
StubAssumption ==
    /\ {TOP, MAX_FAULTS} \subseteq Nat /\ TOP > 10
    /\ \A t \in Tables : Len(t) \in Nat

VARIABLES
    table, read,       \* the table and how many of its entries have been read
    stubs,             \* by vector, the stubs built so far
    regs, mem,         \* rax, rsp, rip, flags; the stack
    vector, at,        \* the running stub, 0 in the program, and its next instruction
    before,            \* the processor and the stack at the last fault
    faults, status     \* "read", "rejected", "run"

vars == <<table, read, stubs, regs, mem, vector, at, before, faults, status>>

Memory == [a \in 0 .. TOP - 1 |-> a]

Init ==
    /\ table \in Tables /\ read = 0
    /\ stubs = <<>>
    /\ \E sp \in {TOP - 2, TOP - 3} : regs = [rax |-> 41, rsp |-> sp, rip |-> 0, flags |-> 42]
    /\ mem = Memory
    /\ vector = 0 /\ at = 1 /\ before = <<>> /\ faults = 0
    /\ status = "read"

-----------------------------------------------------------------------------
(* Reading the table.                                                      *)

(* What an entry must say; anything but "true" denies the error code.      *)
Required(v) ==
    [handler |-> "advance_saved_rip_2",
     entry_abi |-> IF v = 13 THEN "nx64-interrupt-same-cpl-error-v0" ELSE "nx64-interrupt-same-cpl-v0",
     exit_abi |-> IF v = 13 THEN "nx64-iretq-same-cpl-error-v0" ELSE "nx64-iretq-same-cpl-v0",
     exit |-> "iretq",
     frame |-> IF v = 13 THEN "x86_64.frame.error.same_cpl" ELSE "x86_64.frame.no_error.same_cpl",
     bindings |-> {}, save |-> {"rax"}, clobbers |-> {}, stack_align |-> 0,
     swapgs |-> "never", interrupts |-> "preserve", section |-> ".text"]

HardwareError(e) == e.hardware_error_code = "true"

Accepted(e) ==
    /\ e.vector \in {6, 13} /\ e.vector \notin DOMAIN stubs
    /\ \A f \in DOMAIN Required(e.vector) : e[f] = Required(e.vector)[f]
    /\ HardwareError(e) = (e.vector = 13)
    /\ e.visibility \in {"local", "export"}
    /\ \A v \in DOMAIN stubs : stubs[v].symbol # e.symbol

Ins(op, a, b) == [op |-> op, a |-> a, b |-> b]
Rax == [k |-> "reg", v |-> "rax"]
Rsp == [k |-> "reg", v |-> "rsp"]
Saved(words) == [k |-> "mem", v |-> words]
(* Past the saved rax and, if there is one, the error code.                *)
SavedRip_NoRax(error) == Saved(IF error THEN 1 ELSE 0)
SavedRip(error) == Saved(IF error THEN 2 ELSE 1)
Literal(n) == [k |-> "imm", v |-> n]

(* Literals count bytes, the stack words.                                  *)
Build(error) ==
    <<Ins("push", Rax, Rax), Ins("load", Rax, SavedRip(error)), Ins("add", Rax, Literal(2)),
      Ins("store", SavedRip(error), Rax), Ins("pop", Rax, Rax)>>
    \o (IF error THEN <<Ins("add", Rsp, Literal(8))>> ELSE <<>>)
    \o <<Ins("iretq", Rax, Rax)>>
Built(e) == [symbol |-> e.symbol, error |-> HardwareError(e), body |-> Build(HardwareError(e))]

ReadEntry ==
    /\ status = "read" /\ read < Len(table)
    /\ LET e == table[read + 1]
       IN  IF Accepted(e)
           THEN /\ stubs' = [v \in DOMAIN stubs \cup {e.vector} |-> IF v = e.vector THEN Built(e) ELSE stubs[v]]
                /\ read' = read + 1 /\ UNCHANGED status
           ELSE status' = "rejected" /\ UNCHANGED <<read, stubs>>
    /\ UNCHANGED <<table, regs, mem, vector, at, before, faults>>

-----------------------------------------------------------------------------
(* Generating the code.                                                    *)

Profile(n, error) ==
    LET s == n.op IN
    CASE s \in {"push", "pop"} -> n.a = Rax
      [] s = "load" -> n.a = Rax /\ n.b = SavedRip(error)
      [] s = "store" -> n.b = Rax /\ n.a = SavedRip(error)
      [] s = "add" -> n \in {Ins("add", Rax, Literal(2)), Ins("add", Rsp, Literal(8))}
      [] s = "iretq" -> TRUE

(* The frame profile goes with the vector.                                 *)
Emittable(v, stub) ==
    /\ stub.error = (v = 13)
    /\ [i \in DOMAIN stub.body |-> stub.body[i].op] =
          <<"push", "load", "add", "store", "pop">> \o (IF stub.error THEN <<"add", "iretq">> ELSE <<"iretq">>)
    /\ \A i \in DOMAIN stub.body : Profile(stub.body[i], stub.error)
    /\ stub.error => stub.body[6] = Ins("add", Rsp, Literal(8))
    /\ stub.body[3] = Ins("add", Rax, Literal(2))

Generate ==
    /\ status = "read" /\ read = Len(table)
    /\ status' = IF read > 0 /\ \A v \in DOMAIN stubs : Emittable(v, stubs[v]) THEN "run" ELSE "rejected"
    /\ UNCHANGED <<table, read, stubs, regs, mem, vector, at, before, faults>>

-----------------------------------------------------------------------------
(* The processor.                                                          *)

(* It aligns the stack to 16 bytes and pushes ss, rsp, flags, cs, rip and, *)
(* for vector 13, an error code.                                           *)
Frame(v) ==
    LET base == regs.rsp - (regs.rsp % 2)
        frame == [i \in 1 .. 5 |-> CASE i = 1 -> "ss" [] i = 2 -> regs.rsp [] i = 3 -> regs.flags
                                     [] i = 4 -> "cs" [] i = 5 -> regs.rip]
        words == IF v = 13 THEN Append(frame, 77) ELSE frame
    IN  [rsp |-> base - Len(words),
         mem |-> [a \in DOMAIN mem |-> IF a \in base - Len(words) .. base - 1 THEN words[base - a] ELSE mem[a]]]

Program == status = "run" /\ vector = 0

Fault(v) ==
    /\ Program /\ faults < MAX_FAULTS /\ v \in DOMAIN stubs
    /\ faults' = faults + 1
    /\ before' = [regs |-> regs, mem |-> mem]
    /\ mem' = Frame(v).mem /\ regs' = [regs EXCEPT !.rsp = Frame(v).rsp]
    /\ vector' = v /\ at' = 1
    /\ UNCHANGED <<table, read, stubs, status>>

(* Between two faults the program computes.                                *)
Compute ==
    /\ Program /\ faults < MAX_FAULTS /\ faults > 0
    /\ \E sp \in {TOP - 2, TOP - 3} : regs' = [regs EXCEPT !.rsp = sp, !.rax = faults, !.flags = 43]
    /\ before' = <<>>
    /\ UNCHANGED <<table, read, stubs, mem, vector, at, faults, status>>

(* Any other interrupt comes back and has only used what lies below rsp.   *)
Strike ==
    /\ status = "run"
    /\ mem' = [a \in DOMAIN mem |-> IF a < regs.rsp THEN 99 ELSE mem[a]]
    /\ UNCHANGED <<table, read, stubs, regs, vector, at, before, faults, status>>

Here == stubs[vector].body[at]
Stub(ops) == status = "run" /\ vector # 0 /\ Here.op \in ops
Advance == at' = at + 1 /\ UNCHANGED <<table, read, stubs, vector, before, faults, status>>

Push ==
    /\ Stub({"push"}) /\ Advance
    /\ mem' = [mem EXCEPT ![regs.rsp - 1] = regs[Here.a.v]] /\ regs' = [regs EXCEPT !.rsp = @ - 1]

Pop ==
    /\ Stub({"pop"}) /\ Advance
    /\ regs' = [regs EXCEPT ![Here.a.v] = mem[regs.rsp], !.rsp = @ + 1] /\ UNCHANGED mem

Move ==
    /\ Stub({"load", "store"}) /\ Advance
    /\ IF Here.op = "load" THEN regs' = [regs EXCEPT !.rax = mem[regs.rsp + Here.b.v]] /\ UNCHANGED mem
                           ELSE mem' = [mem EXCEPT ![regs.rsp + Here.a.v] = regs.rax] /\ UNCHANGED regs

Add ==
    /\ Stub({"add"}) /\ Advance /\ UNCHANGED mem
    /\ LET r == Here.a.v IN regs' = [regs EXCEPT ![r] = @ + (IF r = "rsp" THEN Here.b.v \div 8 ELSE Here.b.v), !.flags = 0]

Iretq ==
    /\ Stub({"iretq"})
    /\ LET m(i) == mem[regs.rsp + i]
       IN  regs' = [regs EXCEPT !.rip = m(0), !.flags = m(2), !.rsp = m(3)]
    /\ vector' = 0 /\ at' = 1
    /\ UNCHANGED <<table, read, stubs, mem, before, faults, status>>

Next ==
    \/ ReadEntry \/ Generate
    \/ \E v \in {6, 13} : Fault(v)
    \/ Compute \/ Strike
    \/ Push \/ Pop \/ Move \/ Add \/ Iretq
    \/ status = "rejected" /\ UNCHANGED vars

Spec == Init /\ [][Next]_vars

-----------------------------------------------------------------------------

(* A table that was read is generated, and a program that faults goes on   *)
(* two bytes further with its registers, flags and stack, whatever         *)
(* interrupts the stub: the saved rip is all that has changed.             *)
Resumes ==
    /\ read = Len(table) /\ read > 0 => status # "rejected"
    /\ Program /\ before # <<>> =>
          /\ regs = [before.regs EXCEPT !.rip = @ + 2]
          /\ \A a \in regs.rsp .. TOP - 1 : mem[a] = before.mem[a]
=============================================================================
