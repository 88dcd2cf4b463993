------------------------------ MODULE CodeRun -------------------------------
(***************************************************************************)
(* Runs of generated functions on the processor: one instruction a step,   *)
(* words in a memory that holds the stack, a callee that keeps to its      *)
(* contract and no further (what lies below the stack pointer is gone      *)
(* after a call, a UEFI callee also takes the space of its parameters).    *)
(* At the end the machine is compared with the meaning of the function.    *)
(* The processor and the callees are outside the repository.               *)
(***************************************************************************)
EXTENDS Codegen, FiniteSetsExt

CONSTANTS
    Functions,    \* the functions compiled, a sequence
    Seeds,        \* each gives other words to registers and stack
    ENTRY,        \* rsp at the entry, odd: calls are made at even slots
    TOP           \* the last slot of the stack

ASSUME RunAssumption ==
    /\ {ENTRY, TOP, PAGE} \subseteq Nat /\ ENTRY % 2 = 1 /\ ENTRY + 12 < TOP
    /\ Seeds \subseteq Nat
    /\ \A n \in DOMAIN Functions : ~ Functions[n].high => \A x \in TopExpressions(Functions[n].body) : Accepted(x, TRUE)

VARIABLES
    function, seed,   \* what runs
    code,             \* its code
    pc, regs, flags,  \* the processor
    mem, low,         \* the stack and the lowest slot touched
    status            \* "running", "returned", "trapped"

vars == <<function, seed, code, pc, regs, flags, mem, low, status>>

EntryRegs(s) == [r \in Registers |-> IF r = 4 THEN ENTRY ELSE Word(s * (7 * r + 3) + r)]
EntryFlags == 2 * W + 1
EntryMem(s) == [a \in 0 .. TOP |-> IF a < ENTRY THEN 9 ELSE Word(s * (a - ENTRY) + 5)]

Init ==
    /\ function \in DOMAIN Functions /\ seed \in Seeds /\ code = EmitFunction(Functions[function])
    /\ pc = 1 /\ regs = EntryRegs(seed) /\ flags = EntryFlags /\ mem = EntryMem(seed) /\ low = ENTRY
    /\ status = "running"

-----------------------------------------------------------------------------

Op == code[pc].op
Dest == code[pc].d
Source == code[pc].s
Running(ops) == status = "running" /\ Op \in ops

Address(o) == regs[o.base] + o.disp

Value(o) ==
    CASE o.k = "imm" -> o.v
      [] o.k = "reg" -> IF o.bits = 64 THEN regs[o.r] ELSE regs[o.r] % Span(o.bits)
      [] o.k = "mem" -> IF o.bits = 64 THEN mem[Address(o)] ELSE mem[Address(o)] % Span(o.bits)

Write(o, v) ==
    IF o.k = "reg"
    THEN regs' = [regs EXCEPT ![o.r] = IF o.bits = 64 THEN v ELSE IntoRegister(@, v, o.bits)] /\ UNCHANGED mem
    ELSE mem' = [mem EXCEPT ![Address(o)] = IntoMemory(@, v, o.bits)] /\ UNCHANGED regs

Advance(n) == pc' = pc + 1 + n
Rest == UNCHANGED <<function, seed, code, status>>

Move ==
    /\ Running({"mov", "load", "store", "movzx", "lea"})
    /\ Write(Dest, IF Op = "lea" THEN Address(Source) ELSE Value(Source))
    /\ Advance(0) /\ Rest /\ UNCHANGED flags

SignExtend ==
    /\ Running({"movsx"})
    /\ Write(Dest, Word(Signed(Value(Source), Source.bits)))
    /\ Advance(0) /\ Rest /\ UNCHANGED flags

Push ==
    /\ Running({"push", "pushfq"})
    /\ mem' = [mem EXCEPT ![regs[4] - 1] = IF Op = "push" THEN Value(Dest) ELSE flags]
    /\ regs' = [regs EXCEPT ![4] = @ - 1]
    /\ Advance(0) /\ Rest /\ UNCHANGED flags

Pop ==
    /\ Running({"pop", "popfq"})
    /\ LET top == mem[regs[4]]
           popped == [regs EXCEPT ![4] = @ + 1]
       IN  /\ flags' = IF Op = "popfq" THEN top ELSE flags
           /\ IF Op = "pop" /\ Dest.k = "reg"
              THEN regs' = [popped EXCEPT ![Dest.r] = top] /\ UNCHANGED mem
              ELSE /\ regs' = popped
                   /\ mem' = IF Op = "pop" THEN [mem EXCEPT ![regs[Dest.base] + Dest.disp] = top] ELSE mem
    /\ Advance(0) /\ Rest

(* The flags are those of the result but for cmp and sub.                  *)
Alu ==
    /\ Running({"add", "sub", "imul", "and", "or", "xor", "shl", "shr", "cmp", "test", "neg", "not"})
    /\ LET a == Value(Dest)
           b == IF Op \in {"neg", "not"} THEN 0 ELSE Value(Source)
           count == regs[1] % WORD_BITS
           result == CASE Op = "imul" -> Word(a * b) [] Op \in {"and", "test"} -> a & b
                       [] Op = "or" -> a | b [] Op = "xor" -> a ^^ b
                       [] Op = "shl" -> Word(a * 2 ^ count) [] Op = "shr" -> a \div 2 ^ count
                       [] Op = "neg" -> Word(-a) [] Op = "not" -> W - 1 - a
                       [] Op = "sub" /\ Dest = R64(4) -> a - b
                       [] OTHER -> Result(Op, a, b)
       IN  /\ IF Op \in {"cmp", "test"} THEN UNCHANGED <<regs, mem>> ELSE Write(Dest, result)
           /\ flags' = IF Op \in {"cmp", "sub"} THEN a * W + b ELSE IF Op = "not" THEN flags ELSE result * W
    /\ Advance(0) /\ Rest

Cqo ==
    /\ Running({"cqo"})
    /\ regs' = [regs EXCEPT ![2] = IF Signed(regs[0], 64) < 0 THEN W - 1 ELSE 0]
    /\ Advance(0) /\ Rest /\ UNCHANGED <<flags, mem>>

(* Of the double word in rdx and rax; a quotient beyond a word traps.      *)
Divide ==
    /\ Running({"div", "idiv"})
    /\ LET wide == regs[2] * W + regs[0]
           a == IF Op = "div" \/ wide < (W * W) \div 2 THEN wide ELSE wide - W * W
           b == IF Op = "div" THEN Value(Dest) ELSE Signed(Value(Dest), 64)
           range == IF Op = "div" THEN 0 .. W - 1 ELSE -(W \div 2) .. (W \div 2) - 1
       IN  IF b = 0 \/ Quotient(a, b) \notin range
           THEN status' = "trapped" /\ UNCHANGED <<pc, regs, flags>>
           ELSE /\ regs' = [regs EXCEPT ![0] = Word(Quotient(a, b)), ![2] = Word(a - b * Quotient(a, b))]
                /\ flags' = 0
                /\ Advance(0) /\ UNCHANGED status
    /\ UNCHANGED <<function, seed, code, mem>>

Branch ==
    /\ Running({"jmp", "je", "jne", "jb", "jbe", "ja", "jae", "jl", "jle", "jg", "jge"})
    /\ Advance(IF Holds(Op, flags) THEN code[pc].skip ELSE 0)
    /\ Rest /\ UNCHANGED <<regs, flags, mem>>

Label ==
    /\ Running({"label"})
    /\ Advance(0) /\ Rest /\ UNCHANGED <<regs, flags, mem>>

(* The arguments as the callee finds them.                                 *)
Received(c) ==
    [n \in DOMAIN Inputs(c) |->
        LET i == Inputs(c)[n] IN
        Norm(c.params[i].type,
             IF c.efi /\ i > 4 THEN mem[regs[4] + i - 1] ELSE regs[ParamReg(c.params[i], i)])]

CallStep ==
    /\ Running({"call"})
    /\ LET c == Callees[code[pc].fn]
           args == Received(c)
           taken == IF c.efi THEN 4 + StackArgs(c) ELSE 0
       IN  /\ regs' = AfterCall(c, args, regs)
           /\ flags' = FlagsAfter(c, args, flags)
           /\ mem' = [a \in DOMAIN mem |-> IF a < regs[4] + taken THEN 6 ELSE mem[a]]
    /\ Advance(0) /\ Rest

Ret ==
    /\ Running({"ret"})
    /\ regs' = [regs EXCEPT ![4] = @ + 1]
    /\ status' = "returned"
    /\ UNCHANGED <<function, seed, code, pc, flags, mem>>

Done == status # "running" /\ UNCHANGED vars

(* The slots an instruction reads or writes.                               *)
Touched ==
    CASE Op \in {"push", "pushfq", "call"} -> {regs[4] - 1}
      [] Op \in {"pop", "popfq", "ret"} -> {regs[4]}
      [] Op \in {"load", "mov", "movzx"} /\ Source.k = "mem" -> {Address(Source)}
      [] Op = "store" -> {Address(Dest)}
      [] OTHER -> {}

Instruction ==
    \/ Move \/ SignExtend \/ Push \/ Pop \/ Alu \/ Cqo \/ Divide
    \/ Branch \/ Label \/ CallStep \/ Ret

Next ==
    \/ Instruction /\ low' = Min({low} \cup Touched)
    \/ Done

Spec == Init /\ [][Next]_vars

-----------------------------------------------------------------------------

Unknown == -1

(* The meaning of the function for its entry state; one that may change    *)
(* the flags does not find them as they were.                              *)
Meaning(f, s) ==
    LET at == EntryRegs(s)
        given(i) == IF f.efi /\ i > 4 THEN EntryMem(s)[ENTRY + i] ELSE at[ParamReg(f.params[i], i)]
    IN  Perform(Callees, f.body, f.body, 1,
            [regs |-> at, flags |-> IF RFLAGS \in f.clobbers THEN Unknown ELSE EntryFlags, trap |-> FALSE, returned |-> FALSE, result |-> 0,
             vars |-> [k \in 1 .. Len(f.params) + f.lets |->
                          IF k <= Len(f.params) /\ f.params[k].dir = "in"
                          THEN Norm(f.params[k].type, given(k)) ELSE 0],
             bound |-> [k \in 1 .. Len(f.params) + f.lets |->
                          IF k <= Len(f.params) /\ f.params[k].dir # "in" THEN f.params[k].reg ELSE -1]])

(* A function traps exactly when its meaning does, or returns the value of *)
(* its expression, leaves in clobbers and outputs what its statements and  *)
(* the callees put there, in the narrow outputs the rest of what the       *)
(* caller had, and gives back every other register and, unless it says     *)
(* otherwise, the flags.                                                   *)
MeansWhatItSays ==
    [][status = "running" /\ status' # "running" =>
        LET f == Functions[function]
            m == Meaning(f, seed)
            at == EntryRegs(seed)
            free(r) == r \in f.clobbers \cup Outputs(f)
        IN  /\ m.trap = (status' = "trapped")
            /\ status' = "returned" =>
                   /\ regs'[0] = m.result
                   /\ regs'[4] = ENTRY + 1
                   /\ \A r \in Registers \ {0, 4} :
                          IF r \in Outputs(f) THEN regs'[r] = IntoRegister(at[r], m.regs[r], OutputBits(f, r))
                          ELSE IF free(r) THEN f.high \/ regs'[r] = m.regs[r]
                          ELSE regs'[r] = at[r]
                   /\ IF RFLAGS \in f.clobbers THEN f.high \/ m.flags \in {flags', Unknown} ELSE flags' = EntryFlags]_vars

(* Calls are made with an aligned stack, nothing above the entry's is      *)
(* written, and no instruction reaches more than a page below what was     *)
(* touched before: the system gives the stack a page at a time.            *)
StackKept ==
    /\ status = "running" /\ Op = "call" => regs[4] % 2 = 0
    /\ status = "running" => \A a \in Touched : a >= low - PAGE
    /\ \A a \in ENTRY .. TOP : mem[a] = EntryMem(seed)[a]
=============================================================================
