---------------------------- MODULE MCNovaLower -----------------------------
(***************************************************************************)
(* Programs for the lowering: a record with a buffer in it, calls in       *)
(* operands, arguments, fields, targets and conditions, loops that stop    *)
(* in each way, slices of slices, buffers freed while they are in use, and *)
(* every operation that can fail.                                          *)
(***************************************************************************)
EXTENDS NovaRun

n(v) == Num(v)
Fn(params, body) == [params |-> params, body |-> body, types |-> <<>>]
Vars(xs) == [i \in DOMAIN xs |-> Var(xs[i])]
Add(x, y) == Bin("+", "u", x, y)
Lt(x, y) == Bin("<", "u", x, y)
P(functions) == [functions |-> functions, given |-> {<<>>}]
M(body) == Fn(<<>>, body)

(* b.n and b.data                                                          *)
N(b) == Field(b, 0)
Data(b) == Field(b, 8)
Box == <<LetBuffer("d", Alloc(n(3)), 1), Let("b", Record(<<n(5), Name("d")>>))>>

Size == Fn(<<Var("d"), LengthOf("d")>>, <<Return(Len_(Name("d"), 1))>>)
Bump == Fn(Vars(<<"b">>), <<Assign(N(Name("b")), Add(N(Name("b")), n(1))), Return(N(Name("b")))>>)
Same == Fn(Vars(<<"b">>), <<Do(Call("bump", <<Plain(Name("b"))>>)), Return(Name("b"))>>)
Third == Fn(Vars(<<"x", "y">>), <<Return(Bin("/", "u", Name("x"), Name("y")))>>)
Drop == Fn(<<Var("d"), LengthOf("d")>>, <<Do(Free("d")), Return(n(7))>>)
Lib == [size |-> Size, bump |-> Bump, same |-> Same, third |-> Third, drop |-> Drop]

bump == Call("bump", <<Plain(Name("b"))>>)
same == Call("same", <<Plain(Name("b"))>>)
third(x, y) == Call("third", <<Plain(x), Plain(y)>>)

Orders ==
    <<Box \o <<Return(Bin("-", "u", Bin("*", "u", bump, N(Name("b"))), Bin("+", "u", N(same), bump)))>>,
      Box \o <<Return(third(Bin("-", "u", bump, n(6)), Bin("-", "u", bump, n(7))))>>,
      Box \o <<Return(third(third(n(9), bump), third(bump, Bin("-", "u", bump, n(8)))))>>,
      Box \o <<Assign(Index(Name("d"), Bin("-", "u", bump, n(5)), 1), Bin("*", "u", bump, bump)),
               Return(Index(Name("d"), n(1), 1))>>,
      Box \o <<Assign(Index(Data(Name("b")), bump, 1), third(n(1), n(0))), Return(n(1))>>,
      Box \o <<Return(Call("size", <<Buffer(Data(Name("b")))>>))>>,
      Box \o <<Let("i", n(1)), LetBuffer("r", Alloc(n(2)), 8), Assign(Index(Name("r"), n(1), 8), Name("b")),
               Return(Call("size", <<Buffer(Data(Index(Name("r"), Name("i"), 8)))>>))>>,
      Box \o <<LetBuffer("s", Slice(Name("d"), n(1), n(2)), 1), LetBuffer("t", Slice(Name("s"), Bin("-", "u", bump, n(5)), n(1)), 1),
               Assign(Index(Name("t"), n(0), 1), n(9)), Assign(Index(Name("s"), n(0), 1), n(8)),
               Return(Add(Index(Name("d"), n(2), 1), Len_(Name("t"), 1)))>>,
      Box \o <<Let("q", Record(<<bump, Name("b"), bump>>)), Return(Bin("-", "u", Field(Name("q"), 16), N(Field(Name("q"), 8))))>>,
      Box \o <<LetBuffer("e", Data(same), 1), LetBuffer("f", Name("e"), 1), Return(Add(Len_(Name("f"), 1), N(Name("b"))))>>>>

Logic(x, y) == <<And(x, y), Or(x, y), And(Or(x, y), Or(y, x))>>
Conditions ==
    [i \in 1 .. 3 |-> Box \o <<If(Logic(Lt(bump, n(6)), Lt(bump, n(8)))[i], <<Return(bump)>>, <<Do(bump)>>), Return(bump)>>]
    \o [i \in 1 .. 2 |-> Box \o <<Let("x", Logic(Lt(bump, n(9)), Lt(third(n(1), n(0)), n(1)))[i]), Return(bump)>>]

(* Counts i from 0 to 3 and leaves the loop with `leave' at 2.             *)
Loop(leave) ==
    <<Let("i", n(0)),
      While(Lt(Name("i"), n(3)),
            <<Let("i", Add(Name("i"), n(1))),
              If(Bin("==", "u", Name("i"), n(2)), leave, <<>>),
              Assign(N(Name("b")), Add(N(Name("b")), n(10)))>>),
      Return(Add(N(Name("b")), Name("i")))>>
Loops ==
    <<Box \o Loop(<<Break>>), Box \o Loop(<<Continue>>), Box \o Loop(<<Return(bump)>>),
      Box \o Loop(<<While(Lt(bump, n(40)), <<If(Lt(n(16), N(Name("b"))), <<Break>>, <<Continue>>)>>)>>),
      Box \o Loop(<<Let("i", third(Name("i"), Bin("-", "u", Name("i"), n(2))))>>)>>

(* A buffer freed by the value that is assigned into it, by an operand, by *)
(* its parent's end.                                                       *)
drop == Call("drop", <<Buffer(Name("d"))>>)
Freed ==
    <<Box \o <<Assign(Index(Name("d"), n(1), 1), drop), Return(n(1))>>,
      Box \o <<Return(Add(Index(Name("d"), drop, 1), n(1)))>>,
      Box \o <<Return(Add(drop, Call("size", <<Buffer(Data(Name("b")))>>)))>>,
      Box \o <<LetBuffer("s", Slice(Name("d"), n(1), n(1)), 1), Do(drop), Return(Index(Name("s"), n(0), 1))>>,
      Box \o <<LetBuffer("l", Bytes(2), 1), Assign(Index(Name("l"), n(0), 1), bump), Return(n(0))>>,
      Box \o <<Do(Free("b")), Return(bump)>>>>

Faults ==
    FlattenSeq([i \in 1 .. 6 |-> LET e == <<<<"/", "u", 9, 0>>, <<"%", "i", 128, 255>>, <<"/", "i", 249, 2>>,
                                           <<"<<", "u", 3, 8>>, <<">>", "i", 129, 3>>, <<">>", "u", 129, 7>>>>[i]
                                 IN <<<<Return(Bin(e[1], e[2], n(e[3]), n(e[4])))>>,
                                      Box \o <<Return(Add(Bin(e[1], e[2], n(e[3]), Bin("-", "u", n(e[4]), Bin("-", "u", bump, n(6)))), bump))>>>>])
    \o [i \in 1 .. 6 |-> Box \o <<<<Assign(Index(Name("d"), n(2), 1), n(1)), Return(Index(Name("d"), n(3), 1))>>,
                                  <<LetBuffer("q", Alloc(n(40)), 8), Return(n(0))>>,
                                  <<LetBuffer("q", Alloc(n(2)), 8), Return(Index(Name("q"), n(32), 8))>>,
                                  <<LetBuffer("q", Slice(Name("d"), n(2), n(2)), 1), Return(n(0))>>,
                                  <<LetBuffer("q", Data(Name("b")), 2), Return(n(0))>>,
                                  <<LetBuffer("q", Slice(Name("d"), n(0), n(1)), 2), Return(n(0))>>>>[i]]

(* The host's arguments: a buffer of words, a bool, a word.                *)
Hosted ==
    [functions |-> [main |-> [params |-> <<Var("d"), LengthOf("d"), Var("f"), Var("x")>>,
                              types |-> <<[k |-> "buffer", w |-> 2], [k |-> "word"], [k |-> "narrow", max |-> 1], [k |-> "word"]>>,
                              body |-> <<If(Name("f"), <<Assign(Index(Name("d"), Name("x"), 2), Len_(Name("d"), 2))>>, <<>>),
                                         Return(Index(Name("d"), Name("x"), 2))>>]],
     given |-> {<<h, len, f, 1>> : h \in 1 .. 4, len \in {3, 4}, f \in {0, 1, 2}} \cup {<<>>, <<2, 4, 1>>}]

(* A field of what an index or a call computes, given as a buffer.         *)
Shared ==
    <<Box \o <<Let("i", n(0)), LetBuffer("r", Alloc(n(2)), 8), Assign(Index(Name("r"), n(1), 8), Name("b")),
               Return(Call("size", <<Buffer(Data(Index(Name("r"), Add(Name("i"), n(1)), 8)))>>))>>,
      Box \o <<Return(Call("size", <<Buffer(Data(same))>>))>>>>

MCBuffers == <<Fresh(0, 0, 7, FALSE), Fresh(0, 0, 8, FALSE), [Fresh(0, 0, 8, FALSE) EXCEPT !.live = FALSE]>>

Bodies == Orders \o Conditions \o Loops \o Freed \o Faults
MCShared == [i \in DOMAIN Shared |-> P(("main" :> M(Shared[i])) @@ Lib)]
MCPrograms == Append([i \in DOMAIN Bodies |-> P(("main" :> M(Bodies[i])) @@ Lib)], Hosted)
=============================================================================
