---------------------------- MODULE MacroSource -----------------------------
(***************************************************************************)
(* NTASM modules with macros, as they are written, and what they mean when *)
(* every name is the one its surroundings declare (spec/ntasm.md, section  *)
(* 13): what the expander of Macros is compared with.  Expressions are     *)
(* pure, so an argument can stand for its value: sums of literals, each    *)
(* with a weight of its own.  A meaning is a set: empty where some name    *)
(* has no declaration or an expansion never ends.                          *)
(***************************************************************************)
EXTENDS Integers, Sequences, FiniteSets, SequencesExt, FiniteSetsExt

(* Expressions and types.  A parsed one says where a name comes from.      *)
Node(kind, name, value, kids) ==
    [kind |-> kind, name |-> name, value |-> value, kids |-> kids, from |-> "", index |-> 0]
Lit(n) == Node("lit", "", n, <<>>)
Name(s) == Node("name", s, 0, <<>>)
Splice(s) == Node("splice", s, 0, <<>>)
Add(l, r) == Node("binary", "+", 0, <<l, r>>)
Expand(m, args) == Node("expand", m, 0, args)
Base(s) == Node("base", s, 0, <<>>)
Ptr(t) == Node("ptr", "", 0, <<t>>)
U64 == Base("u64")
U8 == Base("u8")

(* Statements and declarations of one form, in functions and in quotes.    *)
Item(kind, name, type, args, exported) ==
    [kind |-> kind, name |-> name, type |-> type, args |-> args, exported |-> exported]
Let(s, x) == Item("let", s, U64, <<x>>, FALSE)
Return(x) == Item("return", "", U64, <<x>>, FALSE)
Use(xs) == Item("ins", "use", U64, xs, FALSE)
Call(m, args) == Item("expand", m, U64, args, FALSE)
Const(s, x) == Item("const", s, U64, <<x>>, FALSE)
Data(s, t, x, exported) == Item("data", s, t, <<x>>, exported)

Parameter(s, kind, type) == [name |-> s, kind |-> kind, type |-> type]
Bound(s, x) == [name |-> s, x |-> x]

(* A macro and a function, as items of a module.                           *)
Macro(s, params, lets, result, templates) ==
    [kind |-> "macro", name |-> s, params |-> params, lets |-> lets, result |-> result,
     templates |-> templates, list |-> FALSE, cond |-> <<>>, else |-> 0, loop |-> "", count |-> <<>>,
     fnparams |-> <<>>, type |-> U64, exported |-> FALSE, function |-> ""]
Fn(s, params, body) == [kind |-> "fn", name |-> s, params |-> params, type |-> U64, body |-> body]
Comptime(fuel, calls, expansions, x) ==
    [kind |-> "comptime", name |-> "", fuel |-> fuel, calls |-> calls, expansions |-> expansions, x |-> x]

ExprParameter(s) == Parameter(s, "expr", U64)
TypeParameter(s) == Parameter(s, "type", U64)
ValueParameter(s, t) == Parameter(s, "value", t)

-----------------------------------------------------------------------------
(* Meaning.  An environment gives names and splices their values, types    *)
(* theirs, and macros with the names known where they are defined.         *)

Nothing == [s \in {} |-> 0]
With(f, s, v) == [t \in DOMAIN f \cup {s} |-> IF t = s THEN v ELSE f[t]]
Lookup(f, s) == IF s \in DOMAIN f THEN {f[s]} ELSE {}

(* Sequences with one element of each of the sets, and all that a step of  *)
(* several outcomes makes of a sequence.                                   *)
Each(sets) == FoldLeft(LAMBDA done, one : {Append(d, v) : d \in done, v \in one}, {<<>>}, sets)
Through(Step(_, _), first, xs) == FoldLeft(LAMBDA ss, x : UNION {Step(s, x) : s \in ss}, {first}, xs)

RECURSIVE Value(_, _, _), TypeOf(_, _, _)

(* Inside the quote of a macro: what its parameters and its lets stand for.*)
Inside(env, known, args, d) ==
    LET m == known.macro
        Of(type) == {i \in DOMAIN m.params : (m.params[i].kind = "type") = type}
        Named(s) == CHOOSE i \in DOMAIN m.params : m.params[i].name = s
        start(a) == [env EXCEPT
            !.names = known.names,
            !.splices = [s \in {m.params[i].name : i \in Of(FALSE)} |-> a[Named(s)]],
            !.types = [s \in {m.params[i].name : i \in Of(TRUE)} |-> a[Named(s)]]]
        Bind(e, b) == {[e EXCEPT !.splices = With(@, b.name, v)] : v \in Value(e, b.x, d)}
    IN  IF Len(args) # Len(m.params) THEN {}
        ELSE UNION {Through(Bind, start(a), m.lets) :
                       a \in Each([i \in DOMAIN args |-> IF i \in Of(TRUE) THEN TypeOf(env, args[i], d)
                                                         ELSE Value(env, args[i], d)])}

Expanded(env, s, args, results, d) ==
    IF d > 0 /\ s \in DOMAIN env.macros /\ env.macros[s].macro.result \in results
    THEN Inside(env, env.macros[s], args, d - 1) ELSE {}

Value(env, x, d) ==
    CASE x.kind = "lit" -> {x.value}
      [] x.kind = "name" -> Lookup(env.names, x.name)
      [] x.kind = "splice" -> Lookup(env.splices, x.name)
      [] x.kind = "binary" -> {v[1] + v[2] : v \in Each([i \in 1 .. 2 |-> Value(env, x.kids[i], d)])}
      [] x.kind = "expand" ->
           UNION {Value(e, env.macros[x.name].macro.templates[1].args[1], d - 1) :
                     e \in Expanded(env, x.name, x.kids, {"expr"}, d)}
      [] OTHER -> {}

TypeOf(env, t, d) ==
    CASE t.kind = "base" -> {<<t.name>>}
      [] t.kind = "ptr" -> {<<"ptr">> \o e : e \in TypeOf(env, t.kids[1], d)}
      [] t.kind = "splice" -> Lookup(env.types, t.name)
      [] t.kind = "expand" ->
           UNION {TypeOf(e, env.macros[t.name].macro.type, d - 1) :
                     e \in Expanded(env, t.name, t.kids, {"type"}, d)}
      [] OTHER -> {}

(* The environments and the items of each turn of a list: the branch its   *)
(* condition takes, as often as its loop says.                             *)
Turns(e, m, d) ==
    LET taken(c) == IF m.cond = <<>> THEN m.templates
                    ELSE IF c # 0 THEN SubSeq(m.templates, 1, m.else) ELSE SubSeq(m.templates, m.else + 1, Len(m.templates))
        turn(n) == IF m.loop = "" THEN <<e>>
                   ELSE [i \in 1 .. n |-> [e EXCEPT !.splices = With(@, m.loop, i - 1)]]
    IN  {[items |-> taken(c), turns |-> turn(n)] :
            c \in IF m.cond = <<>> THEN {0} ELSE Value(e, m.cond[1], d),
            n \in IF m.loop = "" THEN {0} ELSE Value(e, m.count[1], d)}

(* What statements do: their uses and returns, with the values used.  A    *)
(* block declares a name once.                                             *)
RECURSIVE Events(_, _, _)
OfMacro(env, item, d) ==
    LET AllTurns(ts) == UNION {{FoldLeft(LAMBDA a, b : a \o b, <<>>, es)} :
                                  es \in Each([i \in DOMAIN ts.turns |-> Events(ts.turns[i], ts.items, d - 1)])}
    IN  UNION {UNION {AllTurns(ts) : ts \in Turns(e, env.macros[item.name].macro, d - 1)} :
                  e \in Expanded(env, item.name, item.args, {"stmt", "block"}, d)}

Events(env, items, d) ==
    LET Perform(s, item) ==
            LET e == [env EXCEPT !.names = s.names] IN
            CASE item.kind = "let" ->
                   {[s EXCEPT !.names = With(@, item.name, v), !.own = @ \cup {item.name}] :
                       v \in IF item.name \in s.own \/ TypeOf(e, item.type, d) = {} THEN {} ELSE Value(e, item.args[1], d)}
              [] item.kind = "expand" -> {[s EXCEPT !.events = @ \o es] : es \in OfMacro(e, item, d)}
              [] OTHER -> {[s EXCEPT !.events = Append(@, [what |-> item.kind, values |-> v])] :
                              v \in Each([i \in DOMAIN item.args |-> Value(e, item.args[i], d)])}
    IN  {s.events : s \in Through(Perform, [names |-> env.names, own |-> {}, events |-> <<>>], items)}

(* Nothing happens after a return.                                         *)
UpToReturn(es) ==
    LET returns == {i \in DOMAIN es : es[i].what = "return"}
    IN  IF returns = {} THEN es ELSE SubSeq(es, 1, Min(returns))

(* What a function is told by its k-th argument.                           *)
Actual(k) == 2 ^ (20 + k)

(* A function: its public name, its types and what it does.                *)
FunctionMeanings(e, s, f, params, body, d) ==
    LET names == FoldLeft(LAMBDA ns, k : With(ns, params[k].name, Actual(k)), e.names, [k \in DOMAIN params |-> k])
    IN  {[name |-> s, types |-> t, events |-> UpToReturn(es)] :
            t \in Each([k \in 1 .. Len(params) + 1 |->
                           TypeOf(e, IF k > Len(params) THEN f.type ELSE params[k].type, d)]),
            es \in Events([e EXCEPT !.names = names], body, d)}

(* A module, item by item: the environment, its data and its functions.    *)
Declared(s, name, public, type, v) ==
    IF public /\ name \in DOMAIN s.env.names THEN {}
    ELSE {[s EXCEPT !.env.names = IF public THEN With(@, name, v) ELSE @,
                    !.data = Append(@, [name |-> IF public THEN name ELSE "", type |-> type, value |-> v])]}
Defined(s, f) ==
    IF f.name # "" /\ \E i \in DOMAIN s.functions : s.functions[i].name = f.name THEN {}
    ELSE {[s EXCEPT !.functions = Append(@, f)]}

(* Declarations of one turn see each other, others only what is exported.  *)
Emitted(s, e, items, d) ==
    LET Emit(t, item) ==
            {[s |-> r, names |-> With(t.names, item.name, Last(r.data).value)] :
                r \in UNION {Declared(t.s, item.name, item.exported, ty, v) :
                                ty \in TypeOf(e, item.type, d),
                                v \in Value([e EXCEPT !.names = t.names], item.args[1], d)}}
    IN  {t.s : t \in Through(Emit, [s |-> s, names |-> e.names], items)}

OfDeclaration(s, item, d) ==
    LET m == s.env.macros[item.name].macro
        Of(e) == IF m.function = "" THEN
                     UNION {Through(LAMBDA r, turn : Emitted(r, turn, ts.items, d - 1), s, ts.turns) :
                               ts \in Turns(e, m, d - 1)}
                 ELSE UNION {Defined(s, f) :
                               f \in FunctionMeanings(e, IF m.exported THEN m.function ELSE "", m, m.fnparams, m.templates, d - 1)}
    IN  UNION {Of(e) : e \in Expanded(s.env, item.name, item.args, {"decl"}, d)}

Declare(s, item, d) ==
    CASE item.kind \in {"const", "data"} ->
           UNION {Declared(s, item.name, TRUE, t, v) : t \in TypeOf(s.env, item.type, d), v \in Value(s.env, item.args[1], d)}
      [] item.kind = "macro" ->
           {[s EXCEPT !.env.macros = With(@, item.name, [macro |-> item, names |-> s.env.names])]}
      [] item.kind = "fn" -> UNION {Defined(s, f) : f \in FunctionMeanings(s.env, item.name, item, item.params, item.body, d)}
      [] item.kind = "expand" -> OfDeclaration(s, item, d)
      [] item.kind = "comptime" -> {s}

(* The data and the functions a module describes.  As deep as there are    *)
(* macros: deeper is a macro in itself.                                    *)
Meaning(module) ==
    LET start == [env |-> [names |-> Nothing, splices |-> Nothing, types |-> Nothing, macros |-> Nothing],
                  data |-> <<>>, functions |-> <<>>]
        depth == 2 * Len(module)
    IN  {[data |-> s.data, functions |-> s.functions] :
            s \in Through(LAMBDA s, item : Declare(s, item, depth), start, module)}
=============================================================================
