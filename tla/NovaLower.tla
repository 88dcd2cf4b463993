----------------------------- MODULE NovaLower ------------------------------
(***************************************************************************)
(* The lowering of checked functions for the second ABI (nova.c,           *)
(* lower_expr, lower_block, call_v2 and what they use): straight code in   *)
(* hidden locals.  A hidden local is named by the node it belongs to, the  *)
(* visit of the node and its role.  The length of a field given as a       *)
(* buffer shares the field's node, so that this node is lowered twice, and *)
(* a binary or call node refers to the locals of its last visit: v is the  *)
(* present visit, z the last one.                                          *)
(***************************************************************************)
EXTENDS NovaTree

Hidden(p, v, role) == [k |-> "name", x |-> <<p, v, role>>]

Set(p, v, role, x) == <<[op |-> "set", t |-> <<p, v, role>>, x |-> x]>>
SetVariable(x, e) == <<[op |-> "set", t |-> x, x |-> e]>>
Guard(c, code, at) == <<[op |-> "guard", c |-> c, code |-> code, at |-> at]>>
PropagateError(at) == <<[op |-> "propagate", at |-> at]>>
Label(n) == <<[op |-> "label", n |-> n]>>
Jump(n) == <<[op |-> "jump", n |-> n]>>
Unless(c, n) == <<[op |-> "unless", c |-> c, n |-> n]>>

(* The table is checked before each call, the error after it.              *)
CallV2(fn, args, p, v, role, at) ==
    <<[op |-> "table", at |-> at],
      [op |-> "runtime", fn |-> fn, args |-> args, t |-> <<p, v, role>>]>> \o PropagateError(at)

Greater(x, y) == Bin(">", "u", x, y)
Times(x, w) == IF w = 1 THEN x ELSE Bin("*", "u", x, Num(w))
Over(x, w) == IF w = 1 THEN x ELSE Bin("/", "u", x, Num(w))
Uneven(x, w, at) ==
    IF w = 1 THEN <<>> ELSE Guard(Bin("!=", "u", Bin("%", "u", x, Num(w)), Num(0)), ARGUMENT, at)

Width(e) == IF e.k = "field" THEN 8 ELSE e.w

(* One part after the other; made a sequence first, each part computed     *)
(* once.                                                                   *)
InTurn(parts) == FlattenSeq(<<>> \o parts)

RECURSIVE Lower(_, _, _, _)

(* The checked pointer is in the hidden local "pointer".                   *)
SafeAddress(e, p, v, z, write) ==
    LET handle == Lower(e.e, Append(p, 1), v, z)
        index == Lower(e.i, Append(p, 2), v, z)
        i == Hidden(p, v, "index")
    IN  handle.code \o Set(p, v, "handle", handle.x)
        \o (IF e.k = "field" THEN Set(p, v, "offset", Num(e.off))
            ELSE index.code \o Set(p, v, "index", index.x)
                 \o Guard(Greater(i, Num(MAX_WORD \div e.w)), BOUNDS, p)
                 \o Set(p, v, "offset", Times(i, e.w)))
        \o CallV2("resolve", <<Hidden(p, v, "handle"), Hidden(p, v, "offset"), Num(Width(e)), Num(write)>>,
                  p, v, "pointer", p)

Load(p, v) == <<[op |-> "load", pointer |-> Hidden(p, v, "pointer"), t |-> <<p, v, "loaded">>]>>
Store(p, v, x) == <<[op |-> "store", pointer |-> Hidden(p, v, "pointer"), x |-> x]>>

LowerRecord(e, p, v, z) ==
    LET field(i) ==
            LET q == Append(p, i)
                value == Lower(e.fields[i], q, v, z)
            IN  value.code \o Set(q, v, "value", value.x)
                \o CallV2("resolve", <<Hidden(p, v, "record"), Num(8 * (i - 1)), Num(8), Num(TRUE)>>, q, v, "pointer", q)
                \o Store(q, v, Hidden(q, v, "value"))
    IN  CallV2("alloc", <<Num(8 * Len(e.fields))>>, p, v, "record", p)
        \o InTurn([i \in DOMAIN e.fields |-> field(i)])

(* The right operand is reached only if the left one leaves it open.       *)
LowerLogical(e, p, v, z) ==
    LET left == Lower(e.l, Append(p, 1), v, z)
        right == Lower(e.r, Append(p, 2), v, z)
        l == Hidden(p, v, "left")
    IN  left.code \o Set(p, v, "left", left.x) \o Set(p, v, "logical", l)
        \o Unless(IF e.k = "and" THEN l ELSE Bin("==", "u", l, Num(0)), <<p, v, "end">>)
        \o right.code \o Set(p, v, "logical", right.x) \o Label(<<p, v, "end">>)

OperandGuards(e, l, r, p) ==
    CASE e.op \in {"/", "%"} ->
            Guard(Bin("==", "u", r, Num(0)), DIVZERO, p)
            \o (IF e.t # "i" THEN <<>>
                ELSE Guard(Bin("*", "u", Bin("==", "u", l, Num(W \div 2)), Bin("==", "u", r, Num(W - 1))), OVERFLOW, p))
      [] e.op \in {"<<", ">>"} -> Guard(Bin(">=", "u", r, Num(BITS)), SHIFT, p)
      [] OTHER -> <<>>

(* On the second visit the operands are the locals of the first.           *)
LowerBinary(e, p, v, z) ==
    LET left == Lower(e.l, Append(p, 1), 1, 1)
        right == Lower(e.r, Append(p, 2), 1, 1)
        operands == IF v = 1 THEN left.code \o Set(p, 1, "left", left.x) \o right.code \o Set(p, 1, "right", right.x)
                    ELSE Set(p, 2, "left", Hidden(p, 1, "left")) \o Set(p, 2, "right", Hidden(p, 1, "right"))
        sar == e.op = ">>" /\ e.t = "i"
        l == Hidden(p, v, "left")
        r == Hidden(p, v, "right")
    IN  [code |-> operands \o OperandGuards(e, l, r, p)
                  \o (IF sar THEN Set(p, v, "shifted", Bin("sar", "i", l, r)) ELSE <<>>),
         x |-> IF sar THEN Hidden(p, v, "shifted") ELSE Bin(e.op, e.t, Hidden(p, z, "left"), Hidden(p, z, "right"))]

LowerArgument(a, q) ==
    LET value == Lower(a.e, q, 1, IF a.buffer /\ a.e.k = "field" THEN 2 ELSE 1)
        again == Lower(a.e, q, 2, 2)
    IN  value.code \o Set(q, 1, "argument", value.x)
        \o CASE ~ a.buffer -> <<>>
             [] a.buffer /\ a.e.k = "name" -> Set(q, 1, "length", [k |-> "name", x |-> a.e.n])
             [] a.buffer /\ a.e.k = "field" ->
                    again.code \o CallV2("length", <<again.x>>, q, 2, "asked", q) \o Set(q, 1, "length", Hidden(q, 2, "asked"))

Roles(a) == IF a.buffer THEN <<"argument", "length">> ELSE <<"argument">>

LowerCall_NoCheck(e, p, v, z) ==
    InTurn([i \in DOMAIN e.args |-> LowerArgument(e.args[i], Append(p, i))])
    \o <<[op |-> "call", fn |-> e.fn, t |-> <<p, v, "result">>,
          args |-> FlattenSeq([i \in DOMAIN e.args |->
              [r \in DOMAIN Roles(e.args[i]) |-> Hidden(Append(p, i), 1, Roles(e.args[i])[r])]])]>>

LowerCall(e, p, v, z) ==
    LET arguments(n, f(_, _)) ==
            FlattenSeq([i \in DOMAIN e.args |->
                FlattenSeq([r \in DOMAIN Roles(e.args[i]) |-> f(Append(p, i), Roles(e.args[i])[r])])])
    IN  (IF v = 1 THEN InTurn([i \in DOMAIN e.args |-> LowerArgument(e.args[i], Append(p, i))])
         ELSE arguments(2, LAMBDA q, role : Set(q, 2, role, Hidden(q, 1, role))))
        \o <<[op |-> "call", fn |-> e.fn, args |-> arguments(z, LAMBDA q, role : <<Hidden(q, z, role)>>),
              t |-> <<p, v, "result">>]>>
        \o PropagateError(p)

Lower(e, p, v, z) ==
    CASE e.k \in {"num", "name"} -> [code |-> <<>>, x |-> e]
      [] e.k = "bin" -> LowerBinary(e, p, v, z)
      [] e.k \in {"and", "or"} -> [code |-> LowerLogical(e, p, v, z), x |-> Hidden(p, v, "logical")]
      [] e.k \in {"field", "index"} ->
            [code |-> SafeAddress(e, p, v, z, FALSE) \o Load(p, v), x |-> Hidden(p, v, "loaded")]
      [] e.k = "len" ->
            LET handle == Lower(e.e, Append(p, 1), v, z)
            IN  [code |-> handle.code \o CallV2("length", <<handle.x>>, p, v, "asked", p),
                 x |-> Over(Hidden(p, v, "asked"), e.w)]
      [] e.k = "record" -> [code |-> LowerRecord(e, p, v, z), x |-> Hidden(p, v, "record")]
      [] e.k = "bytes" -> [code |-> CallV2("literal", <<Num(e.n)>>, p, v, "bytes", p), x |-> Hidden(p, v, "bytes")]
      [] e.k = "free" -> [code |-> CallV2("free", <<[k |-> "name", x |-> e.x]>>, p, v, "freed", p), x |-> Hidden(p, v, "freed")]
      [] e.k = "call" -> [code |-> LowerCall(e, p, v, z), x |-> Hidden(p, v, "result")]

-----------------------------------------------------------------------------

(* The source of a slice is the last thing evaluated.                      *)
LowerBufferLocal(s, p) ==
    LET h(role) == Hidden(p, 1, role)
        e == s.e
        path(i) == Append(p, i)
        both(pointer, length) == SetVariable(s.x, pointer) \o SetVariable(s.n, length)
    IN  CASE e.k = "name" -> both(e, [k |-> "name", x |-> e.n])
          [] e.k = "alloc" ->
                LET n == Lower(e.n, path(1), 1, 1)
                IN  n.code \o Set(p, 1, "length", n.x)
                    \o Guard(Greater(h("length"), Num(MAX_WORD \div s.w)), BOUNDS, p)
                    \o CallV2("alloc", <<Times(h("length"), s.w)>>, p, 1, "pointer", p)
                    \o Guard(Bin("==", "u", h("pointer"), Num(0)), RUNTIME, p)
                    \o both(h("pointer"), h("length"))
          [] e.k = "slice" ->
                LET start == Lower(e.start, path(2), 1, 1)
                    n == Lower(e.n, path(3), 1, 1)
                    base == Lower(e.e, path(1), 1, 1)
                IN  start.code \o Set(p, 1, "start", start.x) \o n.code \o Set(p, 1, "length", n.x)
                    \o base.code \o Set(p, 1, "base", base.x)
                    \o CallV2("length", <<h("base")>>, p, 1, "parent", p)
                    \o Uneven(h("parent"), s.w, p)
                    \o Set(p, 1, "whole", Over(h("parent"), s.w))
                    \o Guard(Greater(h("start"), h("whole")), BOUNDS, p)
                    \o Guard(Greater(h("length"), Bin("-", "u", h("whole"), h("start"))), BOUNDS, p)
                    \o CallV2("slice", <<h("base"), Times(h("start"), s.w), Times(h("length"), s.w)>>, p, 1, "pointer", p)
                    \o both(h("pointer"), h("length"))
          [] OTHER ->
                LET value == Lower(e, path(1), 1, 1)
                IN  value.code \o CallV2("length", <<value.x>>, p, 1, "length", p)
                    \o Uneven(h("length"), s.w, p) \o both(value.x, Over(h("length"), s.w))

(* The pointer checked before the value is used for the write.             *)
LowerAssign_Once(s, p) ==
    LET t == Append(p, 1)
        value == Lower(s.e, Append(p, 2), 1, 1)
    IN  SafeAddress(s.target, t, 1, 1, TRUE) \o value.code \o Store(t, 1, value.x)

(* The target is resolved again after the value, which may have freed it.  *)
LowerAssign(s, p) ==
    LET t == Append(p, 1)
        value == Lower(s.e, Append(p, 2), 1, 1)
    IN  SafeAddress(s.target, t, 1, 1, TRUE) \o value.code \o Set(p, 1, "value", value.x)
        \o CallV2("resolve", <<Hidden(t, 1, "handle"), Hidden(t, 1, "offset"), Num(Width(s.target)), Num(TRUE)>>,
                  p, 1, "pointer", p)
        \o Store(p, 1, Hidden(p, 1, "value"))

(* loop is the path of the enclosing while statement.                      *)
RECURSIVE LowerBlock(_, _, _)
LowerBlock(block, p, loop) ==
    LET statement(i) ==
            LET s == block[i]
                q == Append(p, i)
                body(b, n) == LowerBlock(b, Append(q, n), loop)
                value == Lower(IF s.k \in {"if", "while"} THEN s.c ELSE s.e, Append(q, 1), 1, 1)
            IN  CASE s.k = "let" -> value.code \o SetVariable(s.x, value.x)
                  [] s.k = "letbuf" -> LowerBufferLocal(s, q)
                  [] s.k = "assign" -> LowerAssign(s, q)
                  [] s.k = "do" -> value.code
                  [] s.k = "return" -> value.code \o <<[op |-> "return", x |-> value.x]>>
                  [] s.k = "if" ->
                        value.code \o Unless(value.x, <<q, 1, "else">>) \o body(s.then, 2) \o Jump(<<q, 1, "end">>)
                        \o Label(<<q, 1, "else">>) \o body(s.else, 3) \o Label(<<q, 1, "end">>)
                  [] s.k = "while" ->
                        Label(<<q, 1, "start">>) \o value.code \o Unless(value.x, <<q, 1, "end">>)
                        \o LowerBlock(s.body, Append(q, 2), q) \o Jump(<<q, 1, "start">>) \o Label(<<q, 1, "end">>)
                  [] s.k = "break" -> Jump(<<loop, 1, "end">>)
                  [] s.k = "continue" -> Jump(<<loop, 1, "start">>)
    IN  InTurn([i \in DOMAIN block |-> statement(i)])

(* What the host calls: main behind checks of its context and arguments.   *)
Entry == <<"entry">>
Parameter(i) == [k |-> "name", x |-> <<Entry, i, "argument">>]
PublicEntryV2(main) ==
    LET given(i) ==
            LET a == main.types[i] IN
            CASE a.k = "buffer" ->
                    CallV2("length", <<Parameter(i)>>, Entry, i, "asked", Entry)
                    \o Uneven(Hidden(Entry, i, "asked"), a.w, Entry)
                    \o Guard(Bin("!=", "u", Over(Hidden(Entry, i, "asked"), a.w), Parameter(i + 1)), ARGUMENT, Entry)
              [] a.k = "narrow" -> Guard(Greater(Parameter(i), Num(a.max)), ARGUMENT, Entry)
              [] OTHER -> <<>>
    IN  <<[op |-> "context"], [op |-> "version", at |-> Entry]>> \o PropagateError(Entry)
        \o <<[op |-> "count", n |-> Len(main.types), at |-> Entry]>>
        \o InTurn([i \in DOMAIN main.types |-> given(i)])
        \o <<[op |-> "call", fn |-> "main", args |-> [i \in DOMAIN main.types |-> Parameter(i)], t |-> <<Entry, 0, "result">>]>>
        \o PropagateError(Entry)
        \o <<[op |-> "return", x |-> Hidden(Entry, 0, "result")]>>
=============================================================================
