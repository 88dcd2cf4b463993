----------------------------- MODULE MCGenerated ----------------------------
(***************************************************************************)
(* What the C compilers make: modules with macros, expanded (MCMacros);    *)
(* functions, generated and executed (below); instructions, encoded and    *)
(* read back (MCX64); and programs in Nova, lowered and called by a host   *)
(* (MCNovaLower).  A behaviour is about one module, one function, one      *)
(* instruction or one program.                                             *)
(***************************************************************************)
EXTENDS CodeRun

CONSTANTS
    Programs, Buffers,    \* of the programs in Nova
    MAX_WORD, MAX_FAIL, JUNK

(***************************************************************************)
(* Functions for the code generator: every operation on every type, trees  *)
(* of operations and calls in each other's operands and arguments, folded  *)
(* constants, statements, parameters of each direction and width, narrow   *)
(* and shared registers, UEFI callees and functions, and functions made    *)
(* from Nova (high).                                                       *)
(***************************************************************************)

P(dir, reg, t) == [dir |-> dir, reg |-> reg, bits |-> t.bits, type |-> t]
In(reg, t) == P("in", reg, t)

Contract(params, t, clobbers, efi) == [params |-> params, result |-> t, clobbers |-> clobbers, efi |-> efi]

MCCallees ==
    [f |-> Contract(<<In(-1, U64), In(-1, U64)>>, U64, {1, 2, 10}, FALSE),
     g |-> Contract(<<In(8, U64), In(3, U64), In(1, U64)>>, U64, {11, RFLAGS}, FALSE),
     n |-> Contract(<<In(2, I8), In(9, I8)>>, I8, {3}, FALSE),
     b |-> Contract(<<In(3, BOOL)>>, BOOL, {}, FALSE),
     o |-> Contract(<<P("out", 1, U8), In(-1, U64), P("inout", 3, U32)>>, U64, {}, FALSE),
     e |-> Contract(<<In(-1, U64), In(-1, U64), In(-1, U64), In(-1, U64), In(-1, U64), In(-1, U64)>>, U64,
                    {1, 2, 8, 9, 10, 11, RFLAGS}, TRUE)]

F(params, lets, clobbers, body) ==
    [params |-> params, lets |-> lets, clobbers |-> clobbers, body |-> body, efi |-> FALSE, high |-> FALSE]

Return(x) == <<[kind |-> "return", x |-> x]>>
Let(k, x) == <<[kind |-> "let", var |-> k, x |-> x]>>
Do(x) == <<[kind |-> "call", x |-> x]>>
If(x, then, else) == <<[kind |-> "if", x |-> x, then |-> then, else |-> else]>>
Ins(op, r, v) == <<[kind |-> "ins", op |-> op, reg |-> r, source |-> -1, value |-> v]>>
InsR(op, r, s) == <<[kind |-> "ins", op |-> op, reg |-> r, source |-> s]>>
MovName(r, bits, x) == <<[kind |-> "movname", reg |-> r, bits |-> bits, x |-> x]>>
LabelAt(n) == <<[kind |-> "label", name |-> n]>>
To(cond, n) == <<[kind |-> "branch", op |-> cond, label |-> n]>>

InSequence(S) == FoldSet(LAMBDA x, seq : Append(seq, x), <<>>, S)

Two(t) == <<In(1, t), In(-1, t)>>
a == Var(U64, 1)
c == Var(U64, 2)
n64(v) == Lit(U64, v)
f(x, y) == Call("f", U64, <<x, y>>)
g(x, y, z) == Call("g", U64, <<x, y, z>>)

(* Every operation on every type.                                          *)
Binaries ==
    InSequence({F(Two(t), 0, {RFLAGS}, Return(Bin(op, Var(t, 1), Var(t, 2)))) :
        t \in {U64, I64, I32, U8}, op \in {"+", "-", "*", "/", "%", "&", "|", "^", "<<", ">>"}})
    \o InSequence({F(Two(t), 0, {}, Return(Bin(op, Var(t, 1), Var(t, 2)))) :
        t \in {U64, I64, I8}, op \in Comparisons})

(* Trees: waiting operands, calls in operands and in arguments.            *)
Trees ==
    {Bin("-", Bin("*", a, c), Bin("+", a, Bin("-", c, Bin("*", a, a)))),
     Bin("-", f(a, Bin("-", c, f(c, a))), Bin("*", a, c)),
     f(f(a, f(c, n64(1))), f(f(c, c), a)),
     Bin("+", g(a, f(c, n64(2)), Bin("-", a, c)), Bin("%", g(c, a, n64(3)), n64(7))),
     Bin("-", Bin("-", c, g(n64(1), a, c)), Bin("-", a, g(n64(4), f(a, a), c))),
     Bin("+", Reg(10, 64), Bin("-", f(Reg(10, 64), Reg(2, 64)), Reg(10, 64))),
     Bin("-", Bin("+", n64(200), n64(50)), Bin("*", Bin(">>", n64(100), n64(2)), a)),
     Bin("+", Bin("+", n64(200), n64(100)), a),
     Bin("/", Bin("-", Lit(I64, 3), Lit(I64, 5)), Lit(I64, 2)),
     Call("e", U64, <<a, c, f(a, c), Bin("-", a, c), g(a, c, n64(9)), Bin("+", c, n64(1))>>),
     f(Call("e", U64, <<a, a, c, c, a, c>>), Call("o", U64, <<c, Lit(U32, 5)>>))}

Expressions == InSequence({F(Two(U64), 0, k, Return(x)) : x \in Trees, k \in {{1, 2, 3, 10, 11, 8, 9, RFLAGS}}})

(* Narrow parameters and results, constants, outputs of every width.       *)
Narrow ==
    <<F(<<In(1, I8), In(-1, I32)>>, 1, {3},
        Let(3, Call("n", I8, <<Var(I8, 1), Minus(I8, 2)>>)) \o Return(Bin("-", Var(I8, 3), Lit(I8, 1)))),
      F(<<>>, 0, {}, Return(Bin("*", n64(6), n64(7)))),
      F(<<>>, 0, {}, Return(Bin("*", n64(60), n64(70)))),
      F(<<In(3, BOOL)>>, 0, {},
        If(Call("b", BOOL, <<Var(BOOL, 1)>>), Return(n64(1)), <<>>) \o Return(n64(2))),
      F(<<P("out", 2, U8), P("inout", 3, U32), P("inout", 9, U64)>>, 0, {RFLAGS},
        Ins("mov", 2, 7) \o Ins("add", 3, 200) \o Ins("add", 9, 3) \o Return(Bin("+", Var(U64, 3), n64(1)))),
      F(<<P("inout", 2, U8), In(1, U32)>>, 0, {1, 3, 10, RFLAGS},
        MovName(3, 32, Var(U32, 2)) \o Do(f(Reg(2, 64), Reg(3, 64))) \o InsR("mov", 10, 0)
        \o Return(Bin("*", Var(U8, 1), Var(U8, 1))))>>

(* Registers, flags and labels between expressions.                        *)
Flow ==
    <<F(Two(U64), 1, {0, 1, 2, 3, 10, 11, RFLAGS},
        Ins("mov", 3, 3) \o Ins("mov", 11, 0) \o LabelAt("again")
        \o Let(3, f(Reg(11, 64), Reg(3, 64))) \o InsR("add", 11, 10) \o Ins("sub", 3, 1) \o To("jne", "again")
        \o Return(Bin("+", Var(U64, 3), Reg(11, 64)))),
      F(Two(U64), 1, {0, 1, 2, 3, 10, RFLAGS},
        InsR("cmp", 3, 10) \o If(Bin("<", f(a, c), c), InsR("mov", 3, 0) \o Let(3, a), Let(3, f(c, a)))
        \o To("jb", "low") \o Return(Reg(3, 64)) \o LabelAt("low") \o Return(Var(U64, 3))),
      F(Two(U64), 2, {0, 1, 2, 3, 10, RFLAGS},
        InsR("cmp", 1, 2) \o Let(3, Bin("/", a, c)) \o If(Bin("==", Var(U64, 3), n64(0)), <<>>, Let(4, n64(1)))
        \o To("je", "end") \o Do(f(Var(U64, 3), a)) \o LabelAt("end") \o Return(Reg(0, 64))),
      F(Two(U64), 1, {0, RFLAGS}, InsR("mov", 0, 10) \o Let(3, Bin("+", a, c)) \o Return(Bin("-", Reg(0, 64), Var(U64, 3)))),
      F(<<In(-1, U64)>>, 1, {0, 3, RFLAGS},
        InsR("cmp", 1, 7) \o MovName(3, 64, a) \o To("jbe", "over") \o Ins("add", 3, 5) \o LabelAt("over")
        \o If(Bin("!=", Reg(3, 64), a), If(Bin(">", a, n64(9)), Return(n64(1)), <<>>) \o Let(2, n64(3)), Let(2, n64(4)))
        \o Return(Var(U64, 2)))>>

Six == <<In(-1, U64), In(-1, U32), In(-1, U64), In(-1, U64), In(-1, I8), In(-1, U64)>>

Efi ==
    <<[F(Six, 1, {1, 2, 10, RFLAGS},
         Let(7, f(Var(U64, 6), Var(U64, 3))) \o Return(Bin("-", Var(U64, 7), Var(U64, 6)))) EXCEPT !.efi = TRUE],
      [F(Six, 0, {}, Return(Bin("*", Var(I8, 5), Var(I8, 5)))) EXCEPT !.efi = TRUE]>>

High ==
    InSequence({[F(<<In(-1, U64), In(-1, U64)>>, 1, k,
        Let(3, x) \o If(Bin("<=", Var(U64, 3), c), Do(f(a, c)), <<>>)
        \o Return(Unary("-", Unary("~", Bin("^", Var(U64, 3), x))))) EXCEPT !.high = TRUE] :
        x \in {y \in Trees : y.kind = "binary" /\ CallsIn(y) \cap {"f", "g"} # {} /\ y.left.kind # "reg"},
        k \in {{1, 2, 3, 10, 11, RFLAGS}, {}}})

MCFunctions == Binaries \o Expressions \o Narrow \o Flow \o Efi \o High

-----------------------------------------------------------------------------
(* The machines.                                                           *)

VARIABLES
    machine,
    instruction, encoded,                                              \* the instruction
    module, item, line, p, verdict,                                    \* the module
    program, lowered, context, args, frames, world, progress, result   \* the program in Nova

codeVars == <<instruction, encoded>>
macroVars == <<module, item, line, p, verdict>>
novaVars == <<program, lowered, context, args, frames, world, progress, result>>

Encoder == INSTANCE MCX64 WITH BYTE <- 4

ASSUME Encoder!X64Assumption

Expander == INSTANCE MCMacros WITH CAPTURING <- FALSE, status <- verdict

Nova == INSTANCE MCNovaLower WITH code <- lowered, status <- progress

(* The programs themselves do not depend on which of them are run.         *)
Samples == INSTANCE MCNovaLower WITH Programs <- <<>>, Buffers <- <<>>, code <- lowered, status <- progress

MCPrograms == Samples!MCPrograms
MCBuffers == Samples!MCBuffers

ASSUME Nova!RunAssumption

NoFunction == Init /\ function = 1 /\ seed = 0
NoInstruction == instruction = "" /\ encoded = ""
NoModule == module = <<>> /\ item = 0 /\ line = 0 /\ p = "" /\ verdict = ""

NoProgram ==
    /\ program = 0 /\ lowered = "" /\ context = "" /\ args = <<>>
    /\ frames = <<>> /\ world = "" /\ progress = "" /\ result = 0

MCInit ==
    \/ machine = "function" /\ Init /\ NoInstruction /\ NoModule /\ NoProgram
    \/ machine = "encoder" /\ NoFunction /\ Encoder!X64Init /\ NoModule /\ NoProgram
    \/ machine = "expander" /\ NoFunction /\ NoInstruction /\ Expander!MacroInit /\ NoProgram
    \/ machine = "nova" /\ NoFunction /\ NoInstruction /\ NoModule /\ Nova!Init

MCNext ==
    \/ machine = "function" /\ Next /\ UNCHANGED <<machine, codeVars, macroVars, novaVars>>
    \/ machine = "encoder" /\ Encoder!X64Next /\ UNCHANGED <<machine, vars, macroVars, novaVars>>
    \/ machine = "expander" /\ Expander!MacroNext /\ UNCHANGED <<machine, vars, codeVars, novaVars>>
    \/ machine = "nova" /\ Nova!Next /\ UNCHANGED <<machine, vars, codeVars, macroVars>>

MCSpec == MCInit /\ [][MCNext]_<<machine, vars, codeVars, macroVars, novaVars>>

-----------------------------------------------------------------------------

(* DecodesBack of MCX64: the bytes of an instruction accepted are that     *)
(* instruction to the processor, displacements where they are said to be.  *)
DecodesBack == machine = "encoder" => Encoder!DecodesBack

(* FootprintTrue of MCX64: what the instruction changes is declared, and   *)
(* no flag it leaves undefined counts as written, but for the flags named  *)
(* there.                                                                  *)
FootprintTrue == machine = "encoder" => Encoder!FootprintTrue

(* Hygienic of Macros: a module accepted is the one its names mean where   *)
(* they are written.                                                       *)
Hygienic == Expander!Hygienic

(* EndsAsMeant of NovaRun: a call of a program ends with the result, the   *)
(* error and its place, the runtime calls and the stores of its meaning.   *)
EndsAsMeant == Nova!EndsAsMeant

(* StaysInBuffers of NovaRun: no load and no store of a program leaves the *)
(* buffers alive at that moment, though a value assigned may free one.     *)
StaysInBuffers == Nova!StaysInBuffers
=============================================================================
