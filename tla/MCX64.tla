------------------------------- MODULE MCX64 -------------------------------
(***************************************************************************)
(* Instructions of every mnemonic with operands right and wrong, encoded   *)
(* and read back by the processor; shifts by every count and the rest, for *)
(* their footprints.                                                       *)
(***************************************************************************)
EXTENDS X64Decode

Manual == INSTANCE X64Effects WITH BYTE <- 128

VARIABLES instruction, encoded

x64Vars == <<instruction, encoded>>

All == [features |-> {"lm", "msr", "syscall", "sse2", "tsc"}, cpl |-> 0]
I(op, cc, o) == [op |-> op, cc |-> cc, ctx |-> All, o |-> o]

Edges == {0, 1, Half(8) - 1, Half(8), Whole(8) - 1, Whole(8), Half(16), Whole(16) - 1, Whole(16),
          Half(32) - 1, Half(32), Whole(32) - 1, Whole(64) - Half(32) - 1, Whole(64) - Half(32),
          Whole(64) - Half(16), Whole(64) - Half(8) - 1, Whole(64) - Half(8), Whole(64) - 1}
Imms == {Imm(v, s) : v \in Edges, s \in BOOLEAN}
Rels == {Rel(v) : v \in {0, Half(32) - 1, Half(32), Whole(64) - Half(32), Whole(64) - 1}}

ShiftCounts == {Imm(v, FALSE) : v \in 0..70}

Regs(rs) == {Reg(r, w, FALSE) : r \in rs, w \in Scalar} \cup {Reg(r, 8, TRUE) : r \in rs \cap 0..3}
Some == Regs({0, 1, 2, 6, 9})
            \cup {Mem(b, NONE, 1, d, "none", w) : b \in {RIP, 12}, d \in {0, 1}, w \in Scalar \cup {0, 80}}
Everywhere ==
    {Mem(b, n, s, d, g, 64) : b \in {RIP, NONE, 0, 4, 5, 8, 12, 13}, n \in {NONE, 0, 4, 5, 12}, s \in {1, 4},
        d \in {-Half(32), -Half(8) - 1, -Half(8), 0, 1, Half(8) - 1, Half(8)}, g \in {"none", "gs"}}
Crs == {Cr(0), Cr(1), Cr(8)}

TwoOps == {"mov", "load", "store", "lea", "test", "movzx", "movsx", "movsxd", "bsf", "bsr", "xchg", "in", "out", "imul",
           "read_cr", "write_cr"} \cup DOMAIN Group \cup DOMAIN Shifts \cup DOMAIN BitOps
OneOps == {"push", "pop", "call", "jmp", "bswap", "ltr", "invlpg"} \cup DOMAIN Unary \cup DOMAIN Tables
Ccs == {Conditions[k] : k \in 1..16}

(* The first operand of an instruction, then the rest.                     *)
Starts ==
    {I(op, "", <<>>) : op \in DOMAIN Fixed \cup TwoOps \cup OneOps}
    \cup {I(op, cc, <<>>) : op \in {"j", "set", "cmov"}, cc \in Ccs}

Firsts(op) == Some \cup (IF op \in {"mov", "write_cr", "out", "push", "jmp", "call", "j"} THEN Rels \cup Crs \cup Imms ELSE {})

More(i) ==
    CASE i.o = <<>> /\ i.op \in TwoOps \cup OneOps \cup {"j", "set", "cmov"} ->
            {Append(i.o, o) : o \in Firsts(i.op) \cup (IF i.op \in {"store", "inc"} THEN Everywhere ELSE {})}
      [] Len(i.o) = 1 /\ i.op \in TwoOps \cup {"cmov"} ->
            {Append(i.o, o) : o \in Some \cup Imms
                \cup (IF i.op \in {"load", "add"} /\ i.o[1] \in Regs({0, 1, 9}) THEN Everywhere ELSE {})
                \cup (IF i.op = "read_cr" THEN Crs ELSE {})
                \cup (IF i.op \in DOMAIN Shifts THEN ShiftCounts ELSE {})}
      [] Len(i.o) = 2 /\ i.op = "imul" -> {Append(i.o, o) : o \in Imms}
      [] OTHER -> {}

X64Init == instruction \in Starts /\ encoded = Encode(instruction)
Choose ==
    \E o \in More(instruction) :
        /\ instruction' = [instruction EXCEPT !.o = o]
        /\ encoded' = Encode(instruction')
X64Done == More(instruction) = {} /\ UNCHANGED x64Vars
X64Next == Choose \/ X64Done
X64Spec == X64Init /\ [][X64Next]_x64Vars

(* Widths that are not in the instruction or that the encoder overrules.   *)
Chosen(i) ==
    \/ \E n \in DOMAIN i.o : IsMem(i.o[n]) /\ i.o[n].width \in {0, 80} /\ i.op \notin {"lea", "invlpg"} \cup DOMAIN Tables
    \/ i.op = "imul" /\ Len(i.o) = 3 /\ i.o[1].width = 16
    \/ i.op \in {"read_cr", "write_cr"} /\ \E n \in DOMAIN i.o : IsReg(i.o[n]) /\ i.o[n].width # 64

(* The bytes of every instruction accepted are that instruction to the     *)
(* processor, to the last byte, and the displacement a relocation will be  *)
(* put into is where the encoder says.                                     *)
DecodesBack == encoded # Refused /\ ~Chosen(instruction) => Means(encoded, instruction)

(* Values are words of a wider BYTE here; signed edges are not.            *)
Comparable(i) == \A n \in DOMAIN i.o : IsImm(i.o[n]) => ~i.o[n].signed
Accepted(i) == Comparable(i) /\ ~Chosen(i) /\ Manual!Encode(i) # Manual!Refused

(* Where the code is wrong of flags (runs x64_rotates and x64_flags):      *)
(* those a rotation by a multiple of the width changes and the footprint   *)
(* does not know of; those it takes for written that have no value, after  *)
(* a rotation by a multiple of the width and one, or a shift by the width. *)
ByNumber(i, ops) == i.op \in ops /\ ~Manual!ByCl(i)
Overlooked(i) ==
    IF ByNumber(i, {"rol", "ror"}) /\ Manual!Count(i) > 0 /\ Manual!Count(i) % i.o[1].width = 0 THEN {"cf", "of"} ELSE {}
Unfounded(i) ==
    IF ByNumber(i, {"rol", "ror"}) /\ Manual!Count(i) > 1 /\ Manual!Count(i) % i.o[1].width = 1 THEN {"of"}
    ELSE IF ByNumber(i, {"shl", "shr"}) /\ Manual!Count(i) = i.o[1].width THEN {"cf"}
    ELSE {}

(* The footprint of every instruction accepted is true: what it changes is *)
(* declared, no flag it leaves undefined is said to be written, privileged *)
(* instructions are known; except for the flags above, of which each is    *)
(* wrong as it says there and in no other way.                             *)
FootprintTrue ==
    LET i == instruction
        f == Manual!Footprint(i)
    IN  Accepted(i) =>
            /\ Manual!Sound([f EXCEPT !.flags_written = @ \ Unfounded(i),
                                      !.flags_undefined = @ \cup Unfounded(i) \cup Overlooked(i)], i)
            /\ Unfounded(i) \subseteq f.flags_written
            /\ Overlooked(i) \cap (f.flags_written \cup f.flags_undefined) = {}

(* What the encoder's header promises of every footprint, with no          *)
(* exception: an undefined flag never passes for a defined one.            *)
UndefinedNeverProved ==
    Accepted(instruction) =>
        Manual!Footprint(instruction).flags_written \subseteq Manual!Defines(instruction)

(* What the language asks of every instruction that changes a flag, with   *)
(* no exception: it has the effect and writes the flags register.          *)
FlagChangesDeclared ==
    LET f == Manual!Footprint(instruction) IN
    Accepted(instruction) /\ Manual!Changes(instruction) # {} =>
        "changes_flags" \in f.effects /\ Manual!RFLAGS \in f.registers_written
=============================================================================
