------------------------------ MODULE MCMacros ------------------------------
(* Small modules around one or two macros of every kind.  The same few     *)
(* names are declared in the module, in the quote and by the caller, and   *)
(* every one of them is tried in every place.  Left out: a value macro     *)
(* that expands itself and a mark for a constant argument, where the       *)
(* parser reads outside its tables, and a value macro as a statement,      *)
(* which does nothing.                                                     *)
EXTENDS MacroSource

CONSTANT CAPTURING   \* the modules of Capture, or all others
VARIABLES module, item, line, p, status

T == Name("t")
K == Name("k")
SX == Splice("x")
SA == Splice("a")
SI == Splice("i")
In(s) == Parameter(s, "in", U64)
One == ExprParameter("x")
Caller(cs) == Fn("f", <<In("q")>>, <<Let("t", Lit(16)), Let("x", Name("q"))>> \o cs \o <<Use(<<T, Name("x")>>), Return(K)>>)

(* A statement macro, in the caller's block and in a block macro.          *)
Direct ==
    {<<Const("k", Lit(1)), Macro("inner", <<One>>, <<Bound("a", K)>>, "stmt", <<s>>), Caller(<<Call("inner", <<c>>)>>)>> :
        s \in {Use(<<SA, SX>>), Use(<<T>>), Let("t", SX), Let("k", Add(K, SX)), Let("x", T)},
        c \in {T, Name("x"), Name("q"), K}}
Nested ==
    {<<Const("k", Lit(1)),
       Macro("inner", <<One>>, <<Bound("a", a)>>, "stmt", <<s>>),
       Macro("outer", <<One>>, <<>>, "block", <<Let("t", b1), Call("inner", <<b2>>), Use(<<b3>>)>>),
       Caller(<<Call("outer", <<c>>)>>)>> :
        a \in {SX, K, Add(SX, Lit(4))},
        s \in {Return(Add(SX, SA)), Use(<<SA, K>>), Use(<<T>>), Let("t", SX)},
        b1 \in {Add(SX, Lit(2)), K, T}, b2 \in {T, SX, Add(T, SX)}, b3 \in {T, Name("x"), SA},
        c \in {T, Name("x"), Name("q"), Add(K, T)}}

(* Lists: plain, by turns, by a condition.                                 *)
List(s, params, lets, result, ts) == [Macro(s, params, lets, result, ts) EXCEPT !.list = TRUE]
Loop(m, n) == [m EXCEPT !.loop = "i", !.count = <<n>>]
If(m, c, else) == [m EXCEPT !.cond = <<c>>, !.else = else]
Body(x, y) == <<Let("t", x), Use(<<y, T>>)>>
Lists ==
    {<<Const("k", Lit(1)), m, Caller(<<Call("m", <<c>>), Call("m", <<K>>)>>)>> :
        m \in {List("m", <<One>>, <<Bound("a", SX)>>, "block", Body(x, y)) : x, y \in {SX, SA, K, T, SI}}
              \cup {Loop(List("m", <<One>>, <<Bound("a", SX)>>, "block", Body(x, y)), n) :
                       x \in {SX, SI, T}, y \in {SI, SA}, n \in {Lit(0), Lit(2), Lit(3), SX}}
              \cup {If(List("m", <<One>>, <<>>, "block", Body(x, Lit(64)) \o <<Return(y)>>), k, e) :
                       x \in {SX, T}, y \in {SX, T, K}, k \in {Lit(0), SX, K}, e \in 0 .. 3},
        c \in {T, K, Lit(0)}}

(* Value and type macros, in each other and in quotes.                     *)
Values_ ==
    {<<Const("k", Lit(1)),
       Macro("v", <<a>>, <<Bound("b", SX)>>, "expr", <<Return(r)>>),
       [Macro("w", <<TypeParameter("y")>>, <<>>, "type", <<>>) EXCEPT !.type = t],
       Macro("m", <<One>>, <<Bound("a", Add(SX, Lit(8)))>>, "stmt", <<[Return(b) EXCEPT !.type = Expand("w", <<U64>>)]>>),
       Caller(<<[Let("y", Expand("v", <<c>>)) EXCEPT !.type = Expand("w", <<Ptr(U64)>>)], Call("m", <<Name("y")>>)>>)>> :
        a \in {One, ValueParameter("x", U8), ValueParameter("x", U64)},
        r \in {SX, Add(SX, Splice("b")), K, T},
        t \in {Splice("y"), Ptr(Splice("y")), Splice("x")},
        b \in {SX, SA, Expand("v", <<K>>), Expand("v", <<Expand("v", <<Lit(4)>>)>>)},
        c \in {Lit(2), Lit(300), K, T, Expand("v", <<Lit(2)>>)}}

(* Declarations: data, lists of data and constants, functions.             *)
TypesOf == <<One, TypeParameter("y")>>
Declarations ==
    {<<Const("k", Lit(1)), m, Call("m", <<Lit(32), ty>>), Data("e", U64, v, TRUE), Call("m", <<K, U64>>),
       Caller(<<Use(<<v>>)>>)>> :
        m \in {Macro("m", TypesOf, <<>>, "decl", <<Data("d", Splice("y"), x, exported)>>) :
                  x \in {SX, K}, exported \in BOOLEAN}
              \cup {Loop(List("m", TypesOf, <<>>, "decl", <<Data("d", Splice("y"), x, exported), [Const("e", y) EXCEPT !.exported = ~exported]>>), n) :
                       x \in {SX, SI, Name("e")}, y \in {Name("d"), SI, K}, n \in {Lit(1), Lit(2)}, exported \in BOOLEAN}
              \cup {[Macro("m", TypesOf, <<>>, "decl", <<Let("t", x), Use(<<T, y>>), Return(Name("d"))>>)
                        EXCEPT !.function = "g", !.fnparams = <<[In("d") EXCEPT !.type = ft], In("q")>>, !.exported = exported,
                               !.type = ft] :
                       x \in {SX, Name("q"), K}, y \in {T, Name("d"), Name("x")},
                       ft \in {Splice("y"), Ptr(Splice("y")), U8}, exported \in BOOLEAN},
        ty \in {U8, Ptr(U8)}, v \in {Name("d"), Name("e"), K}}

(* Budgets, and macros in themselves.                                      *)
Budgets ==
    {<<Const("k", Lit(1)), Comptime(fuel, calls, expansions, Add(Lit(1), K)),
       Macro("v", <<One>>, <<>>, "expr", <<Return(Add(SX, Lit(2)))>>),
       Macro("m", <<One>>, <<>>, "block", <<Use(<<SX>>), Call(next, <<SX>>)>>),
       Macro("n", <<One>>, <<>>, "block", <<Call(last, <<Expand("v", <<Lit(4)>>)>>)>>),
       Macro("s", <<One>>, <<>>, "stmt", <<Use(<<SX>>)>>),
       Caller(<<Call("m", <<Expand("v", <<Expand("v", <<T>>)>>)>>)>>)>> :
        fuel \in {12, 24, 28, 32, 36, 60}, calls \in 0 .. 3, expansions \in {0, 1},
        next \in {"s", "n"}, last \in {"s", "n"}}

(* A value macro whose argument, in a quote, is a let of the macro around: *)
(* left out above.                                                         *)
Capture ==
    {<<Macro("f", <<One>>, <<Bound("b", Lit(8))>>, "expr", <<Return(Add(SX, Splice("b")))>>),
       Macro("g", <<>>, <<Bound("a", Lit(4))>>, "stmt", <<Return(Expand("f", <<SA>>))>>),
       Fn("h", <<>>, <<Call("g", <<>>)>>)>>}

MCModules ==
    IF CAPTURING THEN Capture
    ELSE Direct \cup Nested \cup Lists \cup Values_ \cup Declarations \cup Budgets

INSTANCE Macros WITH Modules <- MCModules, OUTPUT <- 4, SCOPES <- 3
=============================================================================
