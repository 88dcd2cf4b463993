------------------------------ MODULE NovaTree ------------------------------
(***************************************************************************)
(* Checked Nova programs (nova.c: atom, primary, parse_statement) and what *)
(* they mean: operands from left to right, no further than the first       *)
(* error, which is kept with its place; the target of an assignment is     *)
(* checked before the value and again before it is written.  A place in    *)
(* the program is the path to its node.  Buffers are handles of the        *)
(* runtime, which may refuse any one of its calls.                         *)
(***************************************************************************)
EXTENDS Integers, Sequences, FiniteSets, SequencesExt, TLC

CONSTANT MAX_WORD        \* the largest word, UINT64_MAX

W == MAX_WORD + 1
Word(n) == n % W
Signed(v) == IF v >= W \div 2 THEN v - W ELSE v
BITS == CHOOSE n \in 1 .. W : 2 ^ n = W

BOUNDS == 4
DIVZERO == 5
RUNTIME == 6
LIFETIME == 7
READONLY == 9
ARGUMENT == 10
OVERFLOW == 11
SHIFT == 12

-----------------------------------------------------------------------------
(* Expressions.  Types are "u" and "i" (64 bits); w is the width of an     *)
(* element in bytes.  A buffer that is an argument brings its length: a    *)
(* variable has one, a field is read again to ask for it.                  *)

Var(x) == <<<<x>>, 0, "value">>
LengthOf(x) == <<<<x>>, 0, "length">>

Num(v) == [k |-> "num", v |-> v]
Name(x) == [k |-> "name", x |-> Var(x), n |-> LengthOf(x)]
Bin(op, t, l, r) == [k |-> "bin", op |-> op, t |-> t, l |-> l, r |-> r]
And(l, r) == [k |-> "and", l |-> l, r |-> r]
Or(l, r) == [k |-> "or", l |-> l, r |-> r]
Field(e, off) == [k |-> "field", e |-> e, off |-> off]
Index(e, i, w) == [k |-> "index", e |-> e, i |-> i, w |-> w]
Len_(e, w) == [k |-> "len", e |-> e, w |-> w]
Record(fields) == [k |-> "record", fields |-> fields]
Bytes(n) == [k |-> "bytes", n |-> n]
Free(x) == [k |-> "free", x |-> Var(x)]
Call(fn, args) == [k |-> "call", fn |-> fn, args |-> args]
Plain(e) == [e |-> e, buffer |-> FALSE]
Buffer(e) == [e |-> e, buffer |-> TRUE]

(* Initializers of buffers, and statements.                                *)
Alloc(n) == [k |-> "alloc", n |-> n]
Slice(e, start, n) == [k |-> "slice", e |-> e, start |-> start, n |-> n]

Let(x, e) == [k |-> "let", x |-> Var(x), e |-> e]
LetBuffer(x, e, w) == [k |-> "letbuf", x |-> Var(x), n |-> LengthOf(x), e |-> e, w |-> w]
Assign(target, e) == [k |-> "assign", target |-> target, e |-> e]
If(c, then, else) == [k |-> "if", c |-> c, then |-> then, else |-> else]
While(c, body) == [k |-> "while", c |-> c, body |-> body]
Break == [k |-> "break"]
Continue == [k |-> "continue"]
Return(e) == [k |-> "return", e |-> e]
Do(e) == [k |-> "do", e |-> e]

Truth(p) == IF p THEN 1 ELSE 0

Quotient(a, b) ==
    LET q == (IF a < 0 THEN -a ELSE a) \div (IF b < 0 THEN -b ELSE b)
    IN  IF (a < 0) = (b < 0) THEN q ELSE -q

Shifted(t, l, r) == IF t = "i" THEN Signed(l) \div 2 ^ r ELSE l \div 2 ^ r

Operate(op, t, l, r) ==
    LET a == IF t = "i" THEN Signed(l) ELSE l
        b == IF t = "i" THEN Signed(r) ELSE r
    IN  CASE op = "+" -> Word(l + r)
          [] op = "-" -> Word(l - r)
          [] op = "*" -> Word(l * r)
          [] op = "/" -> Word(Quotient(a, b))
          [] op = "%" -> Word(a - b * Quotient(a, b))
          [] op = "<<" -> Word(l * 2 ^ r)
          [] op = ">>" -> Word(l \div 2 ^ r)
          [] op = "sar" -> Word(Shifted(t, l, r))
          [] op = "==" -> Truth(l = r)
          [] op = "!=" -> Truth(l # r)
          [] op = "<" -> Truth(a < b)
          [] op = "<=" -> Truth(a <= b)
          [] op = ">" -> Truth(a > b)
          [] op = ">=" -> Truth(a >= b)

-----------------------------------------------------------------------------
(* The runtime, and the world: buffers, the calls made of it so far, the   *)
(* error with its place, the values stored.  Call number `fails' is        *)
(* refused, every one when the table of functions is not whole.  A slice   *)
(* is alive as long as its parent.                                         *)

Place(at) == [known |-> TRUE, at |-> at]
Nowhere == [known |-> FALSE, at |-> <<>>]

World(bufs, table, fails) ==
    [bufs |-> bufs, calls |-> <<>>, table |-> table, fails |-> fails, error |-> 0, place |-> Nowhere, stored |-> <<>>]

RECURSIVE Alive(_, _), Root(_, _)
Alive(w, h) ==
    /\ h \in DOMAIN w.bufs /\ w.bufs[h].live
    /\ w.bufs[h].parent # 0 => Alive(w, w.bufs[h].parent)
Root(w, h) == IF w.bufs[h].parent = 0 THEN h ELSE Root(w, w.bufs[h].parent)

Fresh(parent, base, n, readonly) ==
    [live |-> TRUE, parent |-> parent, base |-> base, size |-> n, readonly |-> readonly, data |-> <<>>]

Refuse(w, code) == [v |-> 0, w |-> [w EXCEPT !.error = IF @ = 0 THEN code ELSE @]]

(* A pointer into the memory of a buffer is a number beyond the words.     *)
Pointer(buffer, offset, write) == (2 * buffer + Truth(write)) * W + offset
BufferAt(pointer) == pointer \div (2 * W)
OffsetAt(pointer) == pointer % W
ForWriting(pointer) == (pointer \div W) % 2 = 1

(* resolve is asked for a width, and for writing or not.                   *)
RuntimeCall(world, fn, args) ==
    LET w == [world EXCEPT !.calls = Append(@, <<fn, args>>)]
        h == args[1]
        add(b) == [v |-> Len(w.bufs) + 1, w |-> [w EXCEPT !.bufs = Append(@, b)]]
    IN  IF w.error # 0 THEN [v |-> 0, w |-> w]
        ELSE IF Len(w.calls) = w.fails THEN Refuse(w, RUNTIME)
        ELSE CASE fn = "alloc" -> add(Fresh(0, 0, args[1], FALSE))
               [] fn = "literal" -> add(Fresh(0, 0, args[1], TRUE))
               [] fn # "alloc" /\ fn # "literal" /\ ~ Alive(w, h) -> Refuse(w, LIFETIME)
               [] fn = "free" /\ Alive(w, h) -> [v |-> 0, w |-> [w EXCEPT !.bufs[h].live = FALSE]]
               [] fn = "length" /\ Alive(w, h) -> [v |-> w.bufs[h].size, w |-> w]
               [] fn = "slice" /\ Alive(w, h) ->
                    IF args[2] + args[3] > w.bufs[h].size THEN Refuse(w, BOUNDS)
                    ELSE add(Fresh(h, w.bufs[h].base + args[2], args[3], w.bufs[h].readonly))
               [] fn = "resolve" /\ Alive(w, h) ->
                    IF args[2] + args[3] > w.bufs[h].size THEN Refuse(w, BOUNDS)
                    ELSE IF args[4] /\ w.bufs[h].readonly THEN Refuse(w, READONLY)
                    ELSE [v |-> Pointer(Root(w, h), w.bufs[h].base + args[2], args[4]), w |-> w]

(* Memory not written yet is zero.                                         *)
Loaded(w, pointer) ==
    LET data == w.bufs[BufferAt(pointer)].data
    IN  IF OffsetAt(pointer) \in DOMAIN data THEN data[OffsetAt(pointer)] ELSE 0
Stored(w, pointer, v) ==
    [w EXCEPT !.bufs[BufferAt(pointer)].data = (OffsetAt(pointer) :> v) @@ @,
              !.stored = Append(@, <<BufferAt(pointer), OffsetAt(pointer), v>>)]

-----------------------------------------------------------------------------
(* Meaning.                                                                *)

Stop(w, code, at) == [w EXCEPT !.error = code, !.place = Place(at)]
(* An error the runtime reports has no place; it is that of the call.      *)
Placed(w, at) == IF w.error # 0 /\ ~ w.place.known THEN [w EXCEPT !.place = Place(at)] ELSE w
Ask(w, fn, args, at) ==
    LET a == RuntimeCall(w, fn, args)
    IN  IF w.table THEN [v |-> a.v, w |-> Placed(a.w, at)] ELSE [v |-> 0, w |-> Stop(w, RUNTIME, at)]

Wrong(op, t, l, r) ==
    CASE op \in {"/", "%"} /\ r = 0 -> DIVZERO
      [] op \in {"/", "%"} /\ r # 0 /\ t = "i" /\ l = W \div 2 /\ r = W - 1 -> OVERFLOW
      [] op \in {"<<", ">>"} /\ r >= BITS -> SHIFT
      [] OTHER -> 0

(* A load, or the check of a target: the handle, the index, the bounds.    *)
RECURSIVE Eval(_, _, _, _, _), EvalArgs(_, _, _, _, _, _), EvalFields(_, _, _, _, _, _, _), Run(_, _, _, _, _, _)
Target(program, e, p, env, w, write) ==
    LET h == Eval(program, e.e, Append(p, 1), env, w)
        i == IF e.k = "field" THEN [v |-> 0, w |-> h.w]
             ELSE IF h.w.error # 0 THEN h ELSE Eval(program, e.i, Append(p, 2), env, h.w)
        width == IF e.k = "field" THEN 8 ELSE e.w
        bad == IF e.k = "index" /\ i.w.error = 0 /\ i.v > MAX_WORD \div width THEN Stop(i.w, BOUNDS, p) ELSE i.w
        args == <<h.v, IF e.k = "field" THEN e.off ELSE i.v * width, width, write>>
        a == IF bad.error # 0 THEN [v |-> 0, w |-> bad] ELSE Ask(bad, "resolve", args, p)
    IN  [v |-> a.v, w |-> a.w, args |-> args]

Eval(program, e, p, env, w) ==
    IF w.error # 0 THEN [v |-> 0, w |-> w]
    ELSE CASE e.k = "num" -> [v |-> e.v, w |-> w]
           [] e.k = "name" -> [v |-> env[e.x], w |-> w]
           [] e.k = "bin" ->
                LET l == Eval(program, e.l, Append(p, 1), env, w)
                    r == Eval(program, e.r, Append(p, 2), env, l.w)
                    wrong == IF r.w.error # 0 THEN 0 ELSE Wrong(e.op, e.t, l.v, r.v)
                IN  IF r.w.error # 0 THEN [v |-> 0, w |-> r.w]
                    ELSE IF wrong # 0 THEN [v |-> 0, w |-> Stop(r.w, wrong, p)]
                    ELSE [v |-> IF e.op = ">>" THEN Operate("sar", e.t, l.v, r.v) ELSE Operate(e.op, e.t, l.v, r.v), w |-> r.w]
           [] e.k \in {"and", "or"} ->
                LET l == Eval(program, e.l, Append(p, 1), env, w) IN
                IF l.w.error # 0 \/ l.v = Truth(e.k = "or") THEN l ELSE Eval(program, e.r, Append(p, 2), env, l.w)
           [] e.k \in {"field", "index"} ->
                LET a == Target(program, e, p, env, w, FALSE)
                IN  [v |-> IF a.w.error # 0 THEN 0 ELSE Loaded(a.w, a.v), w |-> a.w]
           [] e.k = "len" ->
                LET h == Eval(program, e.e, Append(p, 1), env, w)
                    n == IF h.w.error # 0 THEN h ELSE Ask(h.w, "length", <<h.v>>, p)
                IN  [v |-> n.v \div e.w, w |-> n.w]
           [] e.k = "record" ->
                LET h == Ask(w, "alloc", <<8 * Len(e.fields)>>, p)
                IN  EvalFields(program, e.fields, 1, p, env, h.w, h.v)
           [] e.k = "bytes" -> Ask(w, "literal", <<e.n>>, p)
           [] e.k = "free" -> Ask(w, "free", <<env[e.x]>>, p)
           [] e.k = "call" ->
                LET a == EvalArgs(program, e.args, 1, p, env, w)
                    f == program[e.fn]
                    params == [x \in Range(f.params) |-> a.v[CHOOSE i \in DOMAIN f.params : f.params[i] = x]]
                    b == Run(program, f.body, 1, <<e.fn>>, params, a.w)
                IN  IF a.w.error # 0 THEN [v |-> 0, w |-> a.w]
                    ELSE [v |-> IF b.w.error # 0 THEN 0 ELSE b.v, w |-> Placed(b.w, p)]

EvalArgs(program, args, i, p, env, w) ==
    IF i > Len(args) \/ w.error # 0 THEN [v |-> <<>>, w |-> w]
    ELSE LET a == Eval(program, args[i].e, Append(p, i), env, w)
             again == IF args[i].buffer THEN Eval(program, args[i].e, Append(p, i), env, a.w) ELSE a
             n == IF ~ args[i].buffer THEN <<>>
                  ELSE IF args[i].e.k = "name" THEN <<[v |-> env[args[i].e.n], w |-> a.w]>>
                  ELSE <<IF again.w.error # 0 THEN again ELSE Ask(again.w, "length", <<again.v>>, Append(p, i))>>
             after == IF n = <<>> THEN a.w ELSE n[1].w
             rest == EvalArgs(program, args, i + 1, p, env, after)
         IN  [v |-> <<a.v>> \o (IF n = <<>> THEN <<>> ELSE <<n[1].v>>) \o rest.v, w |-> rest.w]

EvalFields(program, fields, i, p, env, w, h) ==
    IF i > Len(fields) \/ w.error # 0 THEN [v |-> h, w |-> w]
    ELSE LET a == Eval(program, fields[i], Append(p, i), env, w)
             q == IF a.w.error # 0 THEN a ELSE Ask(a.w, "resolve", <<h, 8 * (i - 1), 8, TRUE>>, Append(p, i))
         IN  EvalFields(program, fields, i + 1, p, env, IF q.w.error # 0 THEN q.w ELSE Stored(q.w, q.v, a.v), h)

(* A buffer's initializer gives its handle and its length.                 *)
Initial(program, s, p, env, w) ==
    LET e == s.e IN
    CASE e.k = "name" -> [v |-> env[e.x], n |-> env[e.n], w |-> w]
      [] e.k = "alloc" ->
           LET n == Eval(program, e.n, Append(p, 1), env, w)
               bad == IF n.w.error = 0 /\ n.v > MAX_WORD \div s.w THEN Stop(n.w, BOUNDS, p) ELSE n.w
               a == IF bad.error # 0 THEN [v |-> 0, w |-> bad] ELSE Ask(bad, "alloc", <<n.v * s.w>>, p)
           IN  [v |-> a.v, n |-> n.v, w |-> a.w]
      [] e.k = "slice" ->
           LET b == Eval(program, e.e, Append(p, 1), env, w)
               start == Eval(program, e.start, Append(p, 2), env, b.w)
               n == Eval(program, e.n, Append(p, 3), env, start.w)
               whole == IF n.w.error # 0 THEN n ELSE Ask(n.w, "length", <<b.v>>, p)
               wrong == IF whole.v % s.w # 0 THEN ARGUMENT
                        ELSE IF start.v > whole.v \div s.w \/ n.v > (whole.v \div s.w) - start.v THEN BOUNDS ELSE 0
               a == IF whole.w.error # 0 THEN whole
                    ELSE IF wrong # 0 THEN [v |-> 0, w |-> Stop(whole.w, wrong, p)]
                    ELSE Ask(whole.w, "slice", <<b.v, start.v * s.w, n.v * s.w>>, p)
           IN  [v |-> a.v, n |-> n.v, w |-> a.w]
      [] OTHER ->
           LET b == Eval(program, e, Append(p, 1), env, w)
               n == IF b.w.error # 0 THEN b ELSE Ask(b.w, "length", <<b.v>>, p)
           IN  [v |-> b.v, n |-> n.v \div s.w,
                w |-> IF n.w.error = 0 /\ n.v % s.w # 0 THEN Stop(n.w, ARGUMENT, p) ELSE n.w]

(* A block ends with "end", "return", "break" or "continue".               *)
Run(program, block, i, p, env, w) ==
    IF w.error # 0 \/ i > Len(block) THEN [how |-> "end", v |-> 0, env |-> env, w |-> w]
    ELSE LET s == block[i]
             q == Append(p, i)
             on(e2, w2) == Run(program, block, i + 1, p, e2, w2)
         IN  CASE s.k = "let" ->
                    LET a == Eval(program, s.e, Append(q, 1), env, w) IN on((s.x :> a.v) @@ env, a.w)
               [] s.k = "letbuf" ->
                    LET a == Initial(program, s, q, env, w)
                    IN  on((s.x :> a.v) @@ (s.n :> a.n) @@ env, a.w)
               [] s.k = "assign" ->
                    LET t == Target(program, s.target, Append(q, 1), env, w, TRUE)
                        a == Eval(program, s.e, Append(q, 2), env, t.w)
                        again == IF a.w.error # 0 THEN a ELSE Ask(a.w, "resolve", t.args, q)
                    IN  on(env, IF again.w.error # 0 THEN again.w ELSE Stored(again.w, again.v, a.v))
               [] s.k = "do" -> on(env, Eval(program, s.e, Append(q, 1), env, w).w)
               [] s.k = "return" ->
                    LET a == Eval(program, s.e, Append(q, 1), env, w)
                    IN  [how |-> "return", v |-> a.v, env |-> env, w |-> a.w]
               [] s.k = "if" ->
                    LET c == Eval(program, s.c, Append(q, 1), env, w)
                        b == IF c.v # 0 THEN Run(program, s.then, 1, Append(q, 2), env, c.w)
                                        ELSE Run(program, s.else, 1, Append(q, 3), env, c.w)
                    IN  IF b.how = "end" THEN on(b.env, b.w) ELSE b
               [] s.k = "while" ->
                    LET c == Eval(program, s.c, Append(q, 1), env, w)
                        b == Run(program, s.body, 1, Append(q, 2), env, c.w)
                    IN  IF c.w.error # 0 \/ c.v = 0 THEN on(env, c.w)
                        ELSE CASE b.how = "return" -> b
                               [] b.how = "break" -> on(b.env, b.w)
                               [] OTHER -> Run(program, block, i, p, b.env, b.w)
               [] s.k \in {"break", "continue"} -> [how |-> s.k, v |-> 0, env |-> env, w |-> w]
=============================================================================
