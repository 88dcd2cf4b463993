----------------------------- MODULE MCPrograms -----------------------------
(* Programs of one or two modules: main and a helper, calling each other,  *)
(* in every order of modules and names, with data of every width and       *)
(* section and addresses of data, imports met, open, doubled or wrong, and *)
(* names that clash.  Modules are 1 and 2, names 1 to 3; main is 2.        *)
EXTENDS Naturals, Integers, Sequences

F(module, name, exported, code) ==
    [module |-> module, name |-> name, exported |-> exported, from |-> <<>>, contract |-> "c", code |-> code]
Import(module, name, from, contract) ==
    [module |-> module, name |-> name, exported |-> FALSE, from |-> from, contract |-> contract, code |-> <<>>]
V(module, name, section, bytes) ==
    [module |-> module, name |-> name, section |-> section, exported |-> FALSE, contract |-> "d",
     to |-> 0, addend |-> 0, bytes |-> bytes]
Address(module, name, section, to, addend) ==
    [V(module, name, section, <<>>) EXCEPT !.to = to, !.addend = addend, !.exported = TRUE]

Nop == [op |-> "other", code |-> 7]
Ret == [op |-> "other", code |-> 8]
Call(f) == [op |-> "call", code |-> 5, to |-> f]
Use(v, addend, tail) == [op |-> "data", code |-> 6, to |-> v, addend |-> addend, tail |-> tail]
Jump(n) == [op |-> "jump", code |-> 4, to |-> n]

Unit(functions, variables) == [targets |-> <<1, 1>>, functions |-> functions, variables |-> variables]

(* main, function 1, and a helper, function 2.                             *)
Calls ==
    {Unit(<<F(m, 2, TRUE, a), F(n[1], n[2], e, b)>>, <<>>) :
        m \in 1 .. 2, n \in {<<1, 1>>, <<1, 3>>, <<2, 1>>, <<2, 3>>}, e \in BOOLEAN,
        a \in {<<Ret>>, <<Nop, Call(2), Ret>>, <<Jump(3), Call(1), Call(2), Ret>>},
        b \in {<<Ret>>, <<Nop, Call(1), Jump(1)>>}}

Data ==
    {Unit(<<F(1, 2, TRUE, <<Use(v, a, t), Ret>>)>>, <<V(1, n, k, b), V(1, 3 - n + 1, l, <<9>>)>>) :
        v \in 1 .. 2, a \in {-20, 0, 1, 20}, t \in {<<>>, <<3>>}, n \in {1, 3}, k \in 2 .. 3, l \in 2 .. 3,
        b \in {<<4>>, <<4, 5>>, <<4, 5, 6>>}}

Pointers ==
    {Unit(<<F(1, 2, TRUE, <<Nop, Use(1, 0, <<>>), Ret>>)>>,
          <<V(1, 1, k, b), Address(1, n, l, v, a), Address(2, 2, k, 1, 0)>>) :
        k \in 2 .. 3, l \in 2 .. 3, n \in {2, 3}, v \in 1 .. 2, a \in {-80, 0, 1, 30}, b \in {<<4>>, <<4, 5, 6>>}}

Imports ==
    {Unit(<<F(1, 2, TRUE, <<Call(2), Ret>>), Import(1, n, <<2, 1>>, c), F(2, 1, e, <<Ret>>)>>, <<>>) :
        n \in {1, 3}, c \in {"c", "d"}, e \in BOOLEAN}
    \cup {Unit(<<F(1, 2, e, <<Call(2), Call(n), Ret>>), Import(1, 1, <<2, 1>>, "c"), Import(1, 3, <<2, m>>, "c")>>, <<>>) :
        e \in BOOLEAN, n \in 2 .. 3, m \in 1 .. 3}

Alone == Unit(<<F(1, 2, TRUE, <<Ret>>)>>, <<>>)

Odd ==
    {Unit(<<F(1, 2, TRUE, <<Ret>>)>>, <<V(1, 2, 3, <<4>>)>>),
     Unit(<<F(1, 2, TRUE, <<Ret>>), F(2, 2, TRUE, <<Ret>>)>>, <<>>),
     Unit(<<F(1, 2, FALSE, <<Ret>>), F(1, 1, TRUE, <<Call(1)>>)>>, <<>>),
     [Unit(<<F(1, 2, TRUE, <<Ret>>), F(2, 1, TRUE, <<Ret>>)>>, <<>>) EXCEPT !.targets = <<1, 2>>],
     [Unit(<<F(1, 2, TRUE, <<Call(2)>>), Import(1, 1, <<2, 1>>, "c"), F(2, 1, TRUE, <<Ret>>)>>, <<>>) EXCEPT !.targets = <<1, 2>>],
     [Alone EXCEPT !.targets = <<2, 2>>], [Alone EXCEPT !.functions[1].contract = "long"],
     Unit(<<F(1, 2, TRUE, <<Ret>>), F(2, 4, TRUE, <<Ret>>)>>, <<>>),
     Unit(<<F(1, 2, TRUE, <<Call(2), Ret>>), F(1, 1, TRUE, <<Jump(1)>>), F(1, 3, TRUE, <<Ret>>), F(2, 1, TRUE, <<Ret>>)>>,
          <<V(1, 1, 2, <<4>>), V(2, 3, 3, <<5>>)>>),
     Unit(<<F(1, 2, TRUE, [n \in 1 .. 30 |-> IF n = 1 THEN Call(2) ELSE Nop]), F(2, 1, TRUE, <<Ret>>)>>, <<>>),
     Unit(<<F(1, 2, TRUE, [n \in 1 .. 19 |-> Nop])>>, <<V(1, 1, 2, <<1, 2, 3, 4, 5, 6, 7, 8>>), Address(1, 3, 3, 1, 2)>>)}

Programs == Calls \cup Data \cup Pointers \cup Imports \cup Odd

Qualified(m, n) == 10 * m + n
=============================================================================
