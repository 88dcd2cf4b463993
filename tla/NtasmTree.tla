----------------------------- MODULE NtasmTree ------------------------------
(***************************************************************************)
(* Typed expressions and statements of an NTASM function and what they     *)
(* mean (frontend.c: constant_value, literal_fits, infer): the reference   *)
(* the code generator is compared with.  Words are narrow, so that all     *)
(* their limits are met; a register holds a word, half a word stands for   *)
(* 32 bits, a byte for 8.                                                  *)
(***************************************************************************)
EXTENDS Integers, Sequences, FiniteSets, SequencesExt, Bitwise

WORD_BITS == 8          \* 64
W == 2 ^ WORD_BITS

(* What `bits' bits hold.                                                  *)
Span(bits) == CASE bits = 64 -> W [] bits = 32 -> 16 [] bits = 8 -> 4 [] bits = 1 -> 2

(* Registers: rax 0, rcx 1, rdx 2, rbx 3, rsp 4, rbp 5, ..., r15 15.       *)
Registers == 0 .. 15
RFLAGS == 17

T(kind, bits) == [kind |-> kind, bits |-> bits]
U64 == T("u", 64)
I64 == T("i", 64)
U32 == T("u", 32)
I32 == T("i", 32)
U8  == T("u", 8)
I8  == T("i", 8)
BOOL == T("bool", 1)

Word(n) == n % W
Signed(v, bits) == IF v >= Span(bits) \div 2 THEN v - Span(bits) ELSE v

(* The word that stands for a value of a type: narrow ones are extended.   *)
Norm(t, v) ==
    LET low == v % Span(t.bits) IN
    IF t.kind = "i" THEN Word(Signed(low, t.bits)) ELSE low

(* The number a word of a type stands for.                                 *)
Number(t, v) == IF t.kind = "i" THEN Signed(v, 64) ELSE v

(* A write of `bits' bits over old: of a register (half a word clears the  *)
(* rest of it) and of memory.                                              *)
IntoRegister(old, v, bits) == IF bits >= 32 THEN v % Span(bits) ELSE (old - (old % Span(bits))) + (v % Span(bits))
IntoMemory(old, v, bits) == IF bits = 64 THEN v ELSE (old - (old % Span(bits))) + (v % Span(bits))

-----------------------------------------------------------------------------
(* Trees.  Lit has a magnitude and a sign, as in the source.  Of other     *)
(* expressions only Nova's have unary ones: infer refuses them.            *)

Lit(t, v) == [kind |-> "lit", type |-> t, value |-> v, negative |-> FALSE]
Minus(t, v) == [kind |-> "lit", type |-> t, value |-> v, negative |-> v # 0]
Var(t, k) == [kind |-> "name", type |-> t, var |-> k]
Reg(r, bits) == [kind |-> "reg", type |-> T("u", bits), reg |-> r]
Call(fn, t, args) == [kind |-> "call", type |-> t, fn |-> fn, args |-> args]
Unary(op, x) == [kind |-> "unary", type |-> x.type, op |-> op, left |-> x]
Comparisons == {"==", "!=", "<", "<=", ">", ">="}
Bin(op, l, r) == [kind |-> "binary", op |-> op, left |-> l, right |-> r,
                  type |-> IF op \in Comparisons THEN BOOL ELSE l.type]

Truth(p) == IF p THEN 1 ELSE 0

Magnitudes(op, l, r) ==
    CASE op = "+" -> l + r
      [] op = "-" -> l - r
      [] op = "*" -> l * r
      [] op = "/" -> l \div r
      [] op = "%" -> l % r
      [] op = "&" -> l & r
      [] op = "|" -> l | r
      [] op = "^" -> l ^^ r
      [] op = "<<" -> Word(l * 2 ^ r)
      [] op = ">>" -> l \div 2 ^ r
      [] op = "==" -> Truth(l = r)
      [] op = "!=" -> Truth(l # r)
      [] op = "<" -> Truth(l < r)
      [] op = "<=" -> Truth(l <= r)
      [] op = ">" -> Truth(l > r)
      [] op = ">=" -> Truth(l >= r)

(* What the compiler may compute itself: no division by zero, no shift by  *)
(* a word or more, no sum or product beyond a word.                        *)
Foldable(op, l, r) ==
    /\ op \in {"/", "%"} => r # 0
    /\ op \in {"<<", ">>"} => r < WORD_BITS
    /\ op \in {"+", "*"} => Magnitudes(op, l, r) < W

(* constant_value: the set of the constant an expression is, or empty.     *)
(* Operands with a minus sign are left to run time.                        *)
RECURSIVE Constant(_)
Constant(x) ==
    CASE x.kind = "lit" -> {[value |-> x.value, negative |-> x.negative]}
      [] x.kind = "binary" ->
           {LET n == Magnitudes(x.op, c[1].value, c[2].value)
            IN  [value |-> IF n < 0 THEN -n ELSE n, negative |-> n < 0] :
               c \in {d \in Constant(x.left) \X Constant(x.right) :
                         /\ ~ d[1].negative /\ ~ d[2].negative
                         /\ Foldable(x.op, d[1].value, d[2].value)}}
      [] OTHER -> {}

LiteralFits(t, c) ==
    LET n == IF c.negative THEN -c.value ELSE c.value IN
    IF t.kind = "i" THEN -(Span(t.bits) \div 2) <= n /\ n < Span(t.bits) \div 2
                    ELSE 0 <= n /\ n < Span(t.bits)

(* infer: an expression whose constants fit.  The left operand of a        *)
(* comparison has no expected type.                                        *)
RECURSIVE Accepted(_, _)
Accepted(x, expected) ==
    CASE x.kind = "lit" -> LiteralFits(x.type, x)
      [] x.kind = "call" -> \A i \in DOMAIN x.args : Accepted(x.args[i], TRUE)
      [] x.kind = "unary" -> FALSE
      [] x.kind = "binary" ->
           /\ Accepted(x.left, expected /\ x.op \notin Comparisons)
           /\ Accepted(x.right, TRUE)
           /\ expected => \A c \in Constant(x) : LiteralFits(x.type, c)
           /\ x.op \in {"/", "%"} => \A c \in Constant(x.right) : c.value # 0
      [] OTHER -> TRUE

-----------------------------------------------------------------------------
(* Meaning.  A state of the source program: registers, flags, variables,   *)
(* whether it has trapped or returned.                                     *)

Quotient(a, b) ==
    LET q == (IF a < 0 THEN -a ELSE a) \div (IF b < 0 THEN -b ELSE b)
    IN  IF (a < 0) = (b < 0) THEN q ELSE -q

Traps(op, t, a, b) ==
    op \in {"/", "%"} /\ (b = 0 \/ (t.kind = "i" /\ Quotient(a, b) >= W \div 2))

Operate(op, t, l, r) ==
    LET a == Number(t, l)
        b == Number(t, r)
    IN  CASE op = "/" -> Norm(t, Word(Quotient(a, b)))
          [] op = "%" -> Norm(t, Word(a - b * Quotient(a, b)))
          [] op = "<<" -> Norm(t, Word(l * 2 ^ (r % WORD_BITS)))
          [] op = ">>" -> Norm(t, l \div 2 ^ (r % WORD_BITS))
          [] op \in {"&", "|", "^"} -> Norm(t, Magnitudes(op, l, r))
          [] op \in Comparisons -> Magnitudes(op, a, b)
          [] OTHER -> Norm(t, Word(Magnitudes(op, a, b)))

(* A callee is known by its contract.  What it computes is a fixed mix of  *)
(* its arguments, different in every register it may change.               *)
Inputs(c) == SelectSeq([i \in DOMAIN c.params |-> i], LAMBDA i : c.params[i].dir # "out")
Outputs(c) == {c.params[i].reg : i \in {j \in DOMAIN c.params : c.params[j].dir # "in"}}
Changed(c) == {0} \cup Outputs(c) \cup (c.clobbers \cap Registers)

RECURSIVE Mix(_, _)
Mix(args, i) == IF i > Len(args) THEN 1 ELSE Word(i * args[i] + 3 * Mix(args, i + 1))

OutputBits(c, r) == (CHOOSE p \in Range(c.params) : p.dir # "in" /\ p.reg = r).bits

AfterCall(c, args, regs) ==
    [r \in Registers |->
        CASE r = 0 -> Mix(args, 1)
          [] r \in Outputs(c) -> IntoRegister(regs[r], Mix(args, 1) + r, OutputBits(c, r))
          [] r \in c.clobbers -> Word(2 * Mix(args, 1) + r)
          [] OTHER -> regs[r]]

FlagsAfter(c, args, flags) == IF RFLAGS \in c.clobbers THEN Mix(args, 1) * W + 1 ELSE flags

(* Registers and register parameters are those at the start of the whole   *)
(* expression (at); calls change those of the state.                       *)
RECURSIVE Eval(_, _, _, _), EvalAll(_, _, _, _, _)
Eval(callees, x, at, st) ==
    IF st.trap THEN [v |-> 0, st |-> st]
    ELSE CASE x.kind = "lit" ->
                [v |-> Norm(x.type, Word(IF x.negative THEN -x.value ELSE x.value)), st |-> st]
           [] x.kind = "name" ->
                [v |-> IF st.bound[x.var] >= 0 THEN Norm(x.type, at[st.bound[x.var]])
                       ELSE Norm(x.type, st.vars[x.var]),
                 st |-> st]
           [] x.kind = "reg" -> [v |-> Norm(x.type, at[x.reg]), st |-> st]
           [] x.kind = "unary" ->
                LET l == Eval(callees, x.left, at, st)
                IN  [v |-> Norm(x.type, Word(IF x.op = "-" THEN -l.v ELSE -1 - l.v)), st |-> l.st]
           [] x.kind = "binary" ->
                LET l == Eval(callees, x.left, at, st)
                    r == Eval(callees, x.right, at, l.st)
                    t == x.left.type
                IN  IF r.st.trap \/ Traps(x.op, t, Number(t, l.v), Number(t, r.v))
                    THEN [v |-> 0, st |-> [r.st EXCEPT !.trap = TRUE]]
                    ELSE [v |-> Operate(x.op, t, l.v, r.v), st |-> r.st]
           [] x.kind = "call" ->
                LET c == callees[x.fn]
                    a == EvalAll(callees, x.args, 1, at, st)
                IN  IF a.st.trap THEN [v |-> 0, st |-> a.st]
                    ELSE [v |-> Norm(x.type, Mix(a.v, 1)),
                          st |-> [a.st EXCEPT !.regs = AfterCall(c, a.v, @),
                                              !.flags = FlagsAfter(c, a.v, @)]]

EvalAll(callees, xs, i, at, st) ==
    IF i > Len(xs) THEN [v |-> <<>>, st |-> st]
    ELSE LET first == Eval(callees, xs[i], at, st)
             rest == EvalAll(callees, xs, i + 1, at, first.st)
         IN  [v |-> <<first.v>> \o rest.v, st |-> rest.st]

(* A statement of a machine instruction on registers, and its flags.       *)
Result(op, a, b) ==
    CASE op = "mov" -> b [] op = "add" -> Word(a + b) [] op \in {"sub", "cmp"} -> Word(a - b)

Holds(cond, flags) ==
    LET a == flags \div W
        b == flags % W
    IN  CASE cond \in {"je"} -> a = b [] cond = "jne" -> a # b
          [] cond = "jb" -> a < b [] cond = "jbe" -> a <= b
          [] cond = "ja" -> a > b [] cond = "jae" -> a >= b
          [] cond = "jl" -> Signed(a, 64) < Signed(b, 64) [] cond = "jle" -> Signed(a, 64) <= Signed(b, 64)
          [] cond = "jg" -> Signed(a, 64) > Signed(b, 64) [] cond = "jge" -> Signed(a, 64) >= Signed(b, 64)
          [] cond = "jmp" -> TRUE

(* Flags are known by two words whose comparison they are.                 *)
FlagsOf(op, a, b) == IF op \in {"cmp", "sub"} THEN a * W + b ELSE Result(op, a, b) * W

RECURSIVE Perform(_, _, _, _, _)
Perform(callees, body, block, i, st) ==
    IF i > Len(block) \/ st.trap \/ st.returned THEN st
    ELSE LET s == block[i]
             e == Eval(callees, s.x, st.regs, st)
             go(n, next) == Perform(callees, body, block, n, next)
         IN  CASE s.kind \in {"let", "return", "call", "movname", "if"} /\ e.st.trap -> e.st
               [] s.kind = "let" -> go(i + 1, [e.st EXCEPT !.vars[s.var] = e.v])
               [] s.kind = "return" -> [e.st EXCEPT !.returned = TRUE, !.result = e.v]
               [] s.kind = "call" -> go(i + 1, [e.st EXCEPT !.regs[0] = e.v])
               [] s.kind = "if" ->
                    go(i + 1, Perform(callees, body, IF e.v # 0 THEN s.then ELSE s.else, 1, e.st))
               [] s.kind = "movname" ->
                    go(i + 1, [e.st EXCEPT !.regs[s.reg] = IntoRegister(@, e.v, s.bits)])
               [] s.kind = "ins" ->
                    LET a == st.regs[s.reg]
                        b == IF s.source >= 0 THEN st.regs[s.source] ELSE s.value
                    IN  go(i + 1, [st EXCEPT
                            !.regs[s.reg] = IF s.op = "cmp" THEN a ELSE Result(s.op, a, b),
                            !.flags = IF s.op = "mov" THEN @ ELSE FlagsOf(s.op, a, b)])
               [] s.kind = "label" -> go(i + 1, st)
               [] s.kind = "branch" ->
                    go(IF Holds(s.op, st.flags)
                       THEN CHOOSE n \in DOMAIN block : block[n].kind = "label" /\ block[n].name = s.label
                       ELSE i + 1, st)
=============================================================================
