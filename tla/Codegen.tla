------------------------------ MODULE Codegen -------------------------------
(***************************************************************************)
(* The code generator (codegen.c): from a function's tree to instructions, *)
(* with its frame.  Two copies of all registers are kept while an          *)
(* expression is evaluated: one to read from, one to restore from, which   *)
(* only what callees write may change.  Below them lie a slot for each     *)
(* level of operands that wait and one for each argument of each level of  *)
(* calls.  Displacements count slots of 8 bytes; a jump counts             *)
(* instructions.                                                           *)
(***************************************************************************)
EXTENDS NtasmTree

CONSTANTS
    Callees,      \* name -> contract of a function that is called
    PAGE          \* slots in a page: 512

SAVED == <<1, 2, 3, 6, 7, 8, 9, 10, 11, 12, 13, 14, 15>>
DEFAULTS == <<1, 2, 8, 9>>
EXPRESSION_STATE == 35

R(r, bits) == [k |-> "reg", r |-> r, bits |-> bits]
R64(r) == R(r, 64)
Imm(v) == [k |-> "imm", v |-> v]
Mem(base, disp, bits) == [k |-> "mem", base |-> base, disp |-> disp, bits |-> bits]
I0(op) == <<[op |-> op]>>
I1(op, d) == <<[op |-> op, d |-> d]>>
I2(op, d, s) == <<[op |-> op, d |-> d, s |-> s]>>
Jump(op, n) == <<[op |-> op, skip |-> n]>>

Concat(pieces) == FlattenSeq(pieces)
Width(bits) == IF bits = 1 THEN 8 ELSE bits
ParamReg(p, i) == IF p.reg >= 0 THEN p.reg ELSE DEFAULTS[i]

-----------------------------------------------------------------------------
(* What an expression needs: expression_depth, call_depth,                 *)
(* argument_requirements.                                                  *)

Biggest(S) == IF S = {} THEN 0 ELSE CHOOSE n \in S : \A m \in S : m <= n

Parts(x) ==
    CASE x.kind = "binary" -> {x.left, x.right}
      [] x.kind = "unary" -> {x.left}
      [] x.kind = "call" -> Range(x.args)
      [] OTHER -> {}

RECURSIVE Depth(_), CallDepth(_), CallsIn(_)
Depth(x) == 1 + Biggest({Depth(y) : y \in Parts(x)})
CallDepth(x) == Truth(x.kind = "call") + Biggest({CallDepth(y) : y \in Parts(x)})
CallsIn(x) == (IF x.kind = "call" THEN {x.fn} ELSE {}) \cup UNION {CallsIn(y) : y \in Parts(x)}

(* The expressions of statements, those of branches too.                   *)
RECURSIVE TopExpressions(_)
TopExpressions(block) ==
    UNION {CASE s.kind \in {"let", "return", "call"} -> {s.x}
             [] s.kind = "if" -> {s.x} \cup TopExpressions(s.then) \cup TopExpressions(s.else)
             [] s.kind \in {"ins", "movname"} -> {Reg(s.reg, 64)}
             [] OTHER -> {} : s \in Range(block)}

StackArgs(c) == IF c.efi /\ Len(c.params) > 4 THEN Len(c.params) - 4 ELSE 0

(* emit_function: the frame.  Its size keeps calls aligned whether or not  *)
(* the flags are pushed.                                                   *)
Frame(f) ==
    LET top == TopExpressions(f.body)
        called == UNION {CallsIn(x) : x \in top}
        locals == Len(f.params) + f.lets
        depth == Biggest({Depth(x) : x \in top})
        levels == Biggest({CallDepth(x) : x \in top})
        argslots == Biggest({1} \cup {Len(Callees[fn].params) : fn \in called})
        needed == 4 + locals + depth + levels * argslots + EXPRESSION_STATE
                  + Biggest({StackArgs(Callees[fn]) : fn \in called})
        preserve == RFLAGS \notin f.clobbers
    IN  [f |-> f, preserve |-> preserve, argslots |-> argslots,
         snapshot |-> locals + 1,
         spills |-> locals + 1 + EXPRESSION_STATE,
         calls |-> locals + 1 + EXPRESSION_STATE + depth,
         size |-> IF preserve THEN 2 * ((needed + 1) \div 2) ELSE 2 * (needed \div 2) + 1]

-----------------------------------------------------------------------------
(* Expressions.                                                            *)

Local(d) == Mem(5, d, 64)
Snapshot(g, r) == Local(-(g.snapshot + r))
Restore(g, r) == Local(-(g.snapshot + r + 16))
FlagsSlot(g, restore) == Local(-(g.snapshot + 32 + Truth(restore)))
Spill(g, level) == Local(-(g.spills + level))
Argument(g, level, i) == Local(-(g.calls + level * g.argslots + i))

CaptureFlags(g, restore) ==
    IF g.f.high THEN <<>> ELSE I0("pushfq") \o I1("pop", FlagsSlot(g, restore))
RestoreFlags(g) == IF g.f.high THEN <<>> ELSE I1("push", FlagsSlot(g, TRUE)) \o I0("popfq")
RestoreRax(g) == IF g.f.high THEN <<>> ELSE I2("load", R64(0), Restore(g, 0))

Normalize(t) ==
    CASE t.kind = "bool" -> I2("and", R64(0), Imm(1))
      [] t.kind = "u" /\ t.bits = 32 -> I2("mov", R(0, 32), R(0, 32))
      [] t.kind = "u" /\ t.bits = 8 -> I2("movzx", R(0, 32), R(0, t.bits))
      [] t.kind = "i" /\ t.bits < 64 -> I2("movsx", R64(0), R(0, t.bits))
      [] OTHER -> <<>>

ReadRegister(g, r, bits, t) ==
    LET source == IF g.f.high THEN R(r, bits) ELSE [Snapshot(g, r) EXCEPT !.bits = bits]
    IN  (IF bits < 32 THEN I2("movzx", R(0, 32), source) ELSE I2("mov", R(0, bits), source))
        \o Normalize(t)

(* x->constant is set for literals and for what infer could fold.          *)
ConstantBits(x) == {Word(IF c.negative THEN -c.value ELSE c.value) : c \in Constant(x)}

Mnemonic(op) ==
    CASE op = "+" -> "add" [] op = "-" -> "sub" [] op = "*" -> "imul" [] op = "&" -> "and"
      [] op = "|" -> "or" [] op = "^" -> "xor" [] op = "<<" -> "shl" [] op = ">>" -> "shr"

Condition(op, signed) ==
    CASE op = "==" -> "je" [] op = "!=" -> "jne"
      [] op = "<" -> IF signed THEN "jl" ELSE "jb"
      [] op = "<=" -> IF signed THEN "jle" ELSE "jbe"
      [] op = ">" -> IF signed THEN "jg" ELSE "ja"
      [] op = ">=" -> IF signed THEN "jge" ELSE "jae"

Comparison(x) ==
    I2("cmp", R64(10), R64(0))
    \o Jump(Condition(x.op, x.left.type.kind = "i"), 2)
    \o I2("mov", R64(0), Imm(0)) \o Jump("jmp", 1) \o I2("mov", R64(0), Imm(1))

Operation(x) ==
    CASE x.op \in Comparisons -> Comparison(x)
      [] x.op \in {"/", "%"} ->
           I2("mov", R64(11), R64(0)) \o I2("mov", R64(0), R64(10))
           \o (IF x.type.kind = "i" THEN I0("cqo") \o I1("idiv", R64(11))
               ELSE I2("xor", R64(2), R64(2)) \o I1("div", R64(11)))
           \o (IF x.op = "%" THEN I2("mov", R64(0), R64(2)) ELSE <<>>)
           \o Normalize(x.type)
      [] OTHER ->
           (IF x.op \in {"<<", ">>"}
            THEN I2("mov", R64(1), R64(0)) \o I2(Mnemonic(x.op), R64(10), R(1, 8))
            ELSE I2(Mnemonic(x.op), R64(10), R64(0)))
           \o I2("mov", R64(0), R64(10)) \o Normalize(x.type)

(* Only what callees write changes the registers to restore; rax is the    *)
(* result even when it is no clobber.                                      *)
Written(c) == Changed(c) \ {4, 5}

(* emit_call: the arguments, then those above the fourth of a UEFI         *)
(* function to the bottom of the frame, the others to their registers.     *)
EmitCall(g, x, c, Inner(_, _, _, _), spill) ==
    LET callee == Callees[x.fn]
        inputs == Inputs(callee)
        inRegisters == SelectSeq(inputs, LAMBDA i : ~ (callee.efi /\ i > 4))
        onStack == SelectSeq(inputs, LAMBDA i : callee.efi /\ i > 4)
        bits(i) == Width(callee.params[i].bits)
        written == SelectSeq([r \in 1 .. 16 |-> r - 1], LAMBDA r : r \in Written(callee))
    IN  Concat([n \in DOMAIN inputs |->
               Inner(g, x.args[n], spill, c + 1) \o I2("store", Argument(g, c, inputs[n] - 1), R64(0))])
        \o Concat([n \in DOMAIN onStack |->
               I2("load", R64(0), Argument(g, c, onStack[n] - 1))
               \o I2("store", Mem(4, 4 + onStack[n] - 5, 64), R64(0))])
        \o Concat([n \in DOMAIN inRegisters |->
               LET i == inRegisters[n] IN
               I2("load", R(ParamReg(callee.params[i], i), bits(i)),
                  [Argument(g, c, i - 1) EXCEPT !.bits = bits(i)])])
        \o <<[op |-> "call", fn |-> x.fn]>>
        \o (IF g.f.high THEN <<>>
            ELSE Concat([n \in DOMAIN written |-> I2("store", Restore(g, written[n]), R64(written[n]))])
                 \o (IF RFLAGS \in callee.clobbers THEN CaptureFlags(g, TRUE) ELSE <<>>))
        \o Normalize(x.type)

(* Mutant: the right operand may use the slot of the left one.             *)
SpillLevel_Same(s) == s
SpillLevel(s) == s + 1

RECURSIVE EmitInner(_, _, _, _)
EmitInner(g, x, s, c) ==
    IF Constant(x) # {} THEN I2("mov", R64(0), Imm(CHOOSE v \in ConstantBits(x) : TRUE))
    ELSE CASE x.kind = "name" /\ x.var <= Len(g.f.params) /\ g.f.params[x.var].dir # "in" ->
                LET p == g.f.params[x.var] IN ReadRegister(g, p.reg, p.bits, x.type)
           [] x.kind = "name" /\ ~ (x.var <= Len(g.f.params) /\ g.f.params[x.var].dir # "in") ->
                I2("load", R(0, Width(x.type.bits)), Mem(5, -x.var, Width(x.type.bits)))
                \o Normalize(x.type)
           [] x.kind = "reg" -> ReadRegister(g, x.reg, x.type.bits, x.type)
           [] x.kind = "call" -> EmitCall(g, x, c, EmitInner, s)
           [] x.kind = "unary" ->
                EmitInner(g, x.left, s, c)
                \o I1(IF x.op = "-" THEN "neg" ELSE "not", R64(0)) \o Normalize(x.type)
           [] x.kind = "binary" ->
                EmitInner(g, x.left, SpillLevel(s), c)
                \o I2("store", Spill(g, s), R64(0))
                \o EmitInner(g, x.right, SpillLevel(s), c)
                \o I2("load", R64(10), Spill(g, s))
                \o Operation(x)

(* emit_expression at the outermost level.                                 *)
EmitExpression(g, x) ==
    IF g.f.high THEN EmitInner(g, x, 0, 0)
    ELSE Concat([n \in 1 .. 16 |->
                    I2("store", Snapshot(g, n - 1), R64(n - 1)) \o I2("store", Restore(g, n - 1), R64(n - 1))])
         \o CaptureFlags(g, FALSE) \o CaptureFlags(g, TRUE)
         \o EmitInner(g, x, 0, 0)
         \o Concat([n \in DOMAIN SAVED |-> I2("load", R64(SAVED[n]), Restore(g, SAVED[n]))])
         \o RestoreFlags(g)

-----------------------------------------------------------------------------
(* Statements.                                                             *)

(* One saved register: an output narrower than half a register goes over   *)
(* its part of what the caller had, others and clobbers stay as they are.  *)
PopSaved(g, r) ==
    LET bits == IF r \in Outputs(g.f) THEN OutputBits(g.f, r) ELSE 64 IN
    IF bits < 32 THEN I2("store", Mem(4, 0, bits), R(r, bits)) \o I1("pop", R64(r))
    ELSE (IF bits = 32 THEN I2("mov", R(r, 32), R(r, 32)) ELSE <<>>)
         \o (IF r \in g.f.clobbers \cup Outputs(g.f)
             THEN I2("lea", R64(4), Mem(4, 1, 64)) ELSE I1("pop", R64(r)))

Epilogue(g) ==
    I2("mov", R64(4), R64(5)) \o I1("pop", R64(5))
    \o Concat([n \in DOMAIN SAVED |-> PopSaved(g, Reverse(SAVED)[n])])
    \o (IF g.preserve THEN I0("popfq") ELSE <<>>)
    \o I0("ret")

EmitIf(g, condition, then, else) ==
    LET back == RestoreRax(g) \o RestoreFlags(g)
        yes == back \o then
        no == back \o else
    IN  condition \o I2("test", R64(0), R64(0)) \o Jump("je", Len(yes) + 1)
        \o yes \o Jump("jmp", Len(no)) \o no

(* machine_operand, emit_machine_instruction: a register and a register or *)
(* a number; a mov of a name goes through a slot, as its evaluation takes  *)
(* registers.                                                              *)
RECURSIVE EmitBlock(_, _)
EmitBlock(g, block) ==
    Concat([n \in DOMAIN block |->
        LET s == block[n] IN
        CASE s.kind = "let" ->
               EmitExpression(g, s.x) \o I2("store", Local(-s.var), R64(0)) \o RestoreRax(g)
          [] s.kind = "return" -> EmitExpression(g, s.x) \o Epilogue(g)
          [] s.kind = "call" -> EmitExpression(g, s.x)
          [] s.kind = "if" ->
               EmitIf(g, EmitExpression(g, s.x), EmitBlock(g, s.then), EmitBlock(g, s.else))
          [] s.kind = "label" -> <<[op |-> "label", name |-> s.name]>>
          [] s.kind = "branch" -> <<[op |-> s.op, label |-> s.label]>>
          [] s.kind = "ins" ->
               I2(s.op, R64(s.reg), IF s.source >= 0 THEN R64(s.source) ELSE Imm(s.value))
          [] s.kind = "movname" ->
               LET slot == Local(-(g.snapshot + 34)) IN
               EmitExpression(g, s.x) \o I2("store", slot, R64(0)) \o RestoreRax(g)
               \o I2("load", R(s.reg, s.bits), [slot EXCEPT !.bits = s.bits])])

-----------------------------------------------------------------------------
(* Functions.                                                              *)

(* Mutant: the whole frame is taken at once.                               *)
Probes_None(slots) == I2("sub", R64(4), Imm(slots))

(* A frame is taken a page at a time, each touched before the next.        *)
RECURSIVE Probes(_)
Probes(slots) ==
    IF slots > PAGE
    THEN I2("sub", R64(4), Imm(PAGE)) \o I2("store", Mem(4, 0, 64), Imm(0)) \o Probes(slots - PAGE)
    ELSE I2("sub", R64(4), Imm(slots))

(* The slots above rbp: itself, the saved registers, the flags if pushed,  *)
(* the return address, four of shadow.                                     *)
Incoming(g, i) == Local(Len(SAVED) + 1 + Truth(g.preserve) + 5 + (i - 5))

TakeParameters(g) ==
    LET f == g.f
        inputs == Inputs(f)
        many == f.efi /\ Len(f.params) > 4
    IN  (IF many THEN I2("store", Restore(g, 0), R64(0)) ELSE <<>>)
        \o Concat([n \in DOMAIN inputs |->
               LET i == inputs[n]
                   bits == Width(f.params[i].bits)
               IN  IF f.efi /\ i > 4
                   THEN I2("load", R64(0), Incoming(g, i)) \o I2("store", Local(-i), R64(0))
                   ELSE I2("store", Mem(5, -i, bits), R(ParamReg(f.params[i], i), bits))])
        \o (IF many THEN RestoreRax(g) ELSE <<>>)

Prologue(g) ==
    (IF g.preserve THEN I0("pushfq") ELSE <<>>)
    \o Concat([n \in DOMAIN SAVED |-> I1("push", R64(SAVED[n]))])
    \o I1("push", R64(5)) \o I2("mov", R64(5), R64(4)) \o Probes(g.size)

(* Labels are found when all the code is there.                            *)
ResolveLabels(code) ==
    [n \in DOMAIN code |->
        IF "label" \in DOMAIN code[n]
        THEN [op |-> code[n].op,
              skip |-> (CHOOSE m \in DOMAIN code : code[m].op = "label" /\ code[m].name = code[n].label) - n]
        ELSE code[n]]

EmitFunction(f) ==
    LET g == Frame(f)
        only == f.body[1]
    IN  IF f.params = <<>> /\ Len(f.body) = 1 /\ only.kind = "return" /\ Constant(only.x) # {}
        THEN I2("mov", R64(0), Imm(CHOOSE v \in ConstantBits(only.x) : TRUE)) \o I0("ret")
        ELSE ResolveLabels(Prologue(g) \o TakeParameters(g) \o EmitBlock(g, f.body))
=============================================================================
