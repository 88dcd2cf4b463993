-------------------------- MODULE MCConformanceFlow --------------------------
(* Functions of three statements and a return, in families that exercise   *)
(* one kind of fact each; one of the statements may be an "if" with one    *)
(* statement in each branch.  Jumps go anywhere, loops and dead code       *)
(* included; some leave the function or have no target.                    *)
EXTENDS ConformanceFlow, SequencesExt

Flag == <<"flag", "zf">>
Local == <<"local", "x">>
Output == <<"output", "rbx">>
Pointer(r, t) == <<r, t>>
Registers == {"r1", "r2"}
Types == {"t", "u"}
MCFacts == {Flag, Local, Output} \cup (Registers \X Types)

Stmt(kind) ==
    [kind |-> kind, items |-> <<>>, then |-> 0, else |-> 0, literal |-> "none",
     jump |-> "never", target |-> 0, terminal |-> FALSE,
     needs |-> {}, kills |-> {}, makes |-> {}, copies |-> {}]
Needing(fs, s) == [s EXCEPT !.needs = fs]
Killing(fs, s) == [s EXCEPT !.kills = fs]
Making(fs, s) == [s EXCEPT !.makes = fs]

Nop == Stmt("label")
Return == Stmt("return")
Stop == [Stmt("instruction") EXCEPT !.terminal = TRUE]
Jmp(k) == [Stmt("instruction") EXCEPT !.jump = "always", !.target = k]
If(literal, else) ==
    [Stmt("if") EXCEPT !.literal = literal, !.then = 6, !.else = IF else THEN 8 ELSE 0]

(* Flags: compare, jump if equal, call what clobbers flags.      *)
Cmp == Making({Flag}, Stmt("instruction"))
Je(k) == Needing({Flag}, [Stmt("instruction") EXCEPT !.jump = "conditional", !.target = k])
Call == Killing({Flag}, Stmt("call"))
FlagItems == {Cmp, Call, Stop} \cup {Jmp(k) : k \in {2, 4, 7}} \cup {Je(k) : k \in {2, 5}}
FlagBranch == {Cmp, Call}

(* Locals: declare, use.                                                   *)
Let == Making({Local}, Stmt("let"))
Use == Needing({Local}, Stmt("call"))
LocalItems == {Let, Use, Return} \cup {Jmp(k) : k \in {2, 3, 5, 99}}
LocalBranch == {Let, Jmp(2)}

(* Outputs: assign, read.                                                  *)
Assign == Making({Output}, Stmt("instruction"))
Read == Needing({Output}, Stmt("instruction"))
OutputItems == {Assign, Read, Return, Stop, Nop, Jmp(2)}
OutputBranch == {Assign, Return, Nop}

(* Pointers: take an address, move, use, clobber.                          *)
Of(r) == {r} \X Types
Lea(r, t) == Killing(Of(r), Making({Pointer(r, t)}, Stmt("instruction")))
Mov(to, from) ==
    Killing(Of(to), [Stmt("instruction") EXCEPT
        !.copies = {<<Pointer(from, t), Pointer(to, t)>> : t \in Types}])
Load(r, t) == Needing({Pointer(r, t)}, Stmt("instruction"))
Clobber(r) == Killing(Of(r), Stmt("call"))
PointerItems == {Lea("r1", "t"), Lea("r2", "u"), Mov("r2", "r1"), Mov("r1", "r2"),
                 Load("r1", "t"), Load("r2", "u"), Clobber("r1"), Jmp(2)}
PointerBranch == {Lea("r1", "u"), Mov("r2", "r1"), Jmp(2)}

Plain(items) == {<<a, b, c>> : a, b, c \in items}
Text(three, inner) == <<[Stmt("block") EXCEPT !.items = <<2, 3, 4, 5>>]>> \o three \o <<Return>> \o inner
Block(k) == [Stmt("block") EXCEPT !.items = <<k>>]

Texts(items, branch, literals) ==
    {Text(three, <<>>) : three \in Plain(items)} \cup
    {Text(ReplaceAt(<<a, b, b>>, k, If(l, FALSE)), <<Block(7), then>>) :
        a, b \in items, k \in 1 .. 3, l \in literals, then \in branch} \cup
    {Text(ReplaceAt(<<a, b, b>>, k, If(l, TRUE)), <<Block(7), then, Block(9), else>>) :
        a, b \in items, k \in 1 .. 3, l \in literals, then, else \in branch}

(* The body, its four items, and two branches of one statement each.       *)
Depth == <<1, 2, 2, 2, 2, 3, 4, 3, 4>>

Family(texts, entry, outputs, never) ==
    {[statements |-> t, body |-> 1, depth |-> SubSeq(Depth, 1, Len(t)),
      entry |-> entry, outputs |-> outputs, never |-> never] : t \in texts}

Literals == {"true", "false", "none"}
MCFunctions ==
    Family(Texts(FlagItems, FlagBranch, Literals), {}, {}, FALSE)
    \cup Family(Texts(LocalItems, LocalBranch, Literals), {}, {}, FALSE)
    \cup Family(Texts(OutputItems, OutputBranch, {"none"}), {}, {Output}, FALSE)
    \cup Family(Texts(PointerItems, PointerBranch, {"none"}), {Pointer("r2", "t")}, {}, FALSE)
    \cup Family(Texts({Stop, Nop, Jmp(0), Jmp(2)}, {Return, Jmp(2)}, Literals), {}, {}, TRUE)

=============================================================================
