------------------------------- MODULE Macros -------------------------------
(***************************************************************************)
(* The NTASM front end's macros (frontend.c): a parser that reads a module *)
(* once, turns the names in quotes into marks (a parameter, a let of the   *)
(* macro, the loop's value, an earlier let or declaration of the quote, a  *)
(* parameter of a generated function) and clones the quotes wherever they  *)
(* are expanded, replacing the marks.  One step reads an item of the       *)
(* module or a statement of a function.  The node, arena and constant      *)
(* budgets are left out; fuel, call and expansion depth are not.           *)
(***************************************************************************)
EXTENDS MacroSource

CONSTANTS
    Modules,      \* the modules read, sequences of items
    OUTPUT,       \* statements a meta-for may make: 512
    SCOPES        \* nesting of blocks: MAX_DEPTH

VARIABLES
    module,       \* the module being read
    item, line,   \* the item and the statement of it that comes next
    p,            \* the parser
    status        \* "parsing", "accepted", "refused"

macroVars == <<module, item, line, p, status>>

(* The macro in whose quote the parser is; none.                           *)
NoMacro ==
    [name |-> "", params |-> <<>>, lets |-> <<>>, result |-> "", list |-> FALSE, function |-> "",
     templates |-> <<>>, cond |-> <<>>, else |-> 0, loop |-> "", count |-> <<>>, fnparams |-> <<>>,
     type |-> U64, exported |-> FALSE, ordinal |-> 0, turn |-> 0, locals |-> <<>>, decls |-> <<>>, actuals |-> <<>>]

Start ==
    [macros |-> <<>>, variables |-> <<>>, functions |-> <<>>, macro |-> NoMacro, function |-> 0,
     scopes |-> <<>>, blocks |-> 0, fuel |-> 1000, used |-> 0, calls |-> 32, expansions |-> 64,
     serial |-> 0, called |-> 0, failed |-> FALSE]

R(q, x) == [p |-> q, x |-> x]
Fail(q) == [q EXCEPT !.failed = TRUE]
Require(q, condition) == IF condition THEN q ELSE Fail(q)
ConsumeFuel(q) == [Require(q, q.used < q.fuel) EXCEPT !.used = @ + 1]

(* What comes after r unless it failed; each of xs in order.               *)
After(r, Do(_, _)) == IF r.p.failed THEN r ELSE Do(r.p, r.x)
Appended(r, done) == R(r.p, Append(done, r.x))
InOrder(Do(_, _), q, xs) ==
    FoldLeft(LAMBDA r, x : After(r, LAMBDA s, done : Appended(Do(s, x), done)), R(q, <<>>), xs)
Map(r, F(_)) == R(r.p, F(r.x))
Leave(r, m) == R([r.p EXCEPT !.macro = m], r.x)

First(xs, Is(_)) == LET found == {i \in DOMAIN xs : Is(xs[i])} IN IF found = {} THEN 0 ELSE Min(found)
FindMacro(q, s) == First(q.macros, LAMBDA m : m.name = s)

(* The latest declaration in sight: of the module, or of the function in   *)
(* a scope that is open.                                                   *)
FindVariable(q, s) ==
    LET visible == {i \in DOMAIN q.variables :
            LET v == q.variables[i] IN
            /\ v.name = <<s>>
            /\ v.function = 0 \/ (v.function = q.function /\ (v.scope = 0 \/ v.scope \in ToSet(q.scopes)))}
    IN  IF visible = {} THEN 0 ELSE Max(visible)

AddVariable(q, name, type, init, direction, exported) ==
    [q EXCEPT !.variables = Append(@,
        [name |-> name, type |-> type, init |-> init, direction |-> direction, exported |-> exported,
         function |-> IF direction \in {"const", "data"} THEN 0 ELSE q.function,
         scope |-> IF direction = "local" /\ q.scopes # <<>> THEN Last(q.scopes) ELSE 0])]

-----------------------------------------------------------------------------
(* Constants and arguments.                                                *)

RECURSIVE Constant(_, _)
Constant(q, x) ==
    CASE x.kind = "lit" -> {x.value}
      [] x.kind = "name" /\ x.index # 0 /\ q.variables[x.index].direction = "const" ->
           Constant(q, q.variables[x.index].init)
      [] x.kind = "binary" -> {v[1] + v[2] : v \in Each([i \in 1 .. 2 |-> Constant(q, x.kids[i])])}
      [] OTHER -> {}

LiteralFits(type, n) == type = U8 => n < 256

ValidArguments(q, m, args) ==
    /\ Len(args) = Len(m.params)
    /\ \A i \in DOMAIN args : m.params[i].kind = "value" =>
          \E n \in Constant(q, args[i]) : LiteralFits(m.params[i].type, n)

-----------------------------------------------------------------------------
(* Cloning: a quote with its marks replaced.                               *)

(* A name of something the expansion has made: 0 if it has not.            *)
Known(q, x, made) ==
    IF x.index \in DOMAIN made /\ made[x.index] # 0
    THEN R(q, [x EXCEPT !.from = "variable", !.index = made[x.index]]) ELSE R(Fail(q), x)

RECURSIVE Clone(_, _, _)
Clone(q, x, args) ==
    CASE q.failed -> R(q, x)
      [] x.from = "declaration" -> Known(q, x, q.macro.decls)
      [] x.from = "template" -> Known(q, x, q.macro.locals)
      [] x.from = "actual" -> Known(q, x, q.macro.actuals)
      [] x.from = "loop" -> R(ConsumeFuel(Require(q, q.macro.loop # "")), Lit(q.macro.turn))
      [] x.from = "let" ->
           IF x.index > Len(q.macro.lets) THEN R(Fail(q), x) ELSE Clone(ConsumeFuel(q), q.macro.lets[x.index].x, args)
      [] x.from = "parameter" ->
           IF x.index > Len(args) THEN R(Fail(q), x) ELSE Clone(q, args[x.index], <<>>)
      [] OTHER -> Map(InOrder(LAMBDA r, kid : Clone(r, kid, args), ConsumeFuel(q), x.kids),
                      LAMBDA kids : [x EXCEPT !.kids = kids])

CloneAll(q, xs, args) == InOrder(LAMBDA r, x : Clone(r, x, args), q, xs)

(* A type's mark may be of the macro around: it is replaced later.         *)
RECURSIVE CloneType(_, _, _)
CloneType(q, t, args) ==
    IF t.from = "parameter" THEN IF t.index > Len(args) THEN R(Fail(q), t) ELSE R(q, args[t.index])
    ELSE Map(InOrder(LAMBDA r, kid : CloneType(r, kid, args), q, t.kids), LAMBDA kids : [t EXCEPT !.kids = kids])

-----------------------------------------------------------------------------
(* Parsing of expressions and types, with the value macros they expand.    *)

Mark(x, from, i) == [x EXCEPT !.kind = "name", !.from = from, !.index = i]

(* primary: a name in a quote, else one of the module or the function.     *)
Resolve(q, x) ==
    LET m == q.macro
        actual == First(m.fnparams, LAMBDA f : f.name = x.name)
        declared == First(m.templates, LAMBDA t : t.kind \in {"const", "data"} /\ t.name = x.name)
        introduced == First(m.templates, LAMBDA t : t.kind = "let" /\ t.name = x.name)
    IN  CASE m.function # "" /\ actual # 0 -> Mark(x, "actual", actual)
          [] m.result = "decl" /\ m.list /\ declared # 0 -> Mark(x, "declaration", declared)
          [] (m.result = "block" \/ m.function # "") /\ introduced # 0 -> Mark(x, "template", introduced)
          [] OTHER -> Mark(x, "variable", FindVariable(q, x.name))

ResolveSplice(q, x) ==
    LET m == q.macro
        parameter == First(m.params, LAMBDA a : a.name = x.name)
        let == First(m.lets, LAMBDA b : b.name = x.name)
    IN  CASE parameter # 0 -> R(Require(q, m.params[parameter].kind # "type"), Mark(x, "parameter", parameter))
          [] parameter = 0 /\ m.loop # "" /\ m.loop = x.name -> R(q, Mark(x, "loop", 1))
          [] parameter = 0 /\ m.loop # x.name /\ let # 0 -> R(q, Mark(x, "let", let))
          [] OTHER -> R(Fail(q), x)

Called(q) == [Require(q, q.called < q.calls) EXCEPT !.called = @ + 1]
Returned(q) == [q EXCEPT !.called = @ - 1]
(* An expansion gives its depth back before those in it begin.             *)
Spend(q) == ConsumeFuel([Require(q, q.expansions > 0) EXCEPT !.serial = @ + 1])

Enter(q, m, args) == [Spend(Require(q, ValidArguments(q, m, args))) EXCEPT !.macro = m]

ExpandValue(q, m, args, type) ==
    Leave(IF type THEN CloneType(Enter(q, m, args), m.type, args)
          ELSE Clone(Enter(q, m, args), m.templates[1].args[1], args), q.macro)

RECURSIVE ParseExpression(_, _), ParseType(_, _)

(* parse_value_macro_arguments: types quoted or expanded.                  *)
ParseArguments(q, m, xs) ==
    InOrder(LAMBDA r, i : IF m.params[i].kind = "type" THEN ParseType(r, xs[i]) ELSE ParseExpression(r, xs[i]),
            Require(q, Len(xs) = Len(m.params)),
            IF Len(xs) = Len(m.params) THEN [i \in DOMAIN xs |-> i] ELSE <<>>)

ParseValue(q, m, x, type) ==
    IF m.result # (IF type THEN "type" ELSE "expr") THEN R(Fail(q), x)
    ELSE After(After(ParseArguments(Called(q), m, x.kids), LAMBDA s, args : ExpandValue(s, m, args, type)),
               LAMBDA s, y : R(Returned(s), y))

ParseExpand(q, x, type) ==
    IF FindMacro(q, x.name) = 0 THEN R(Fail(q), x) ELSE ParseValue(q, q.macros[FindMacro(q, x.name)], x, type)

ParseExpression(q, x) ==
    CASE q.failed -> R(q, x)
      [] x.kind = "lit" -> R(q, x)
      [] x.kind = "name" -> R(q, Resolve(q, x))
      [] x.kind = "splice" -> ResolveSplice(q, x)
      [] x.kind = "binary" -> Map(InOrder(ParseExpression, q, x.kids), LAMBDA kids : [x EXCEPT !.kids = kids])
      [] x.kind = "expand" -> ParseExpand(q, x, FALSE)
      [] OTHER -> R(Fail(q), x)

ParseType(q, t) ==
    CASE q.failed \/ t.kind = "base" -> R(q, t)
      [] t.kind = "ptr" -> Map(InOrder(ParseType, q, t.kids), LAMBDA kids : [t EXCEPT !.kids = kids])
      [] t.kind = "splice" ->
           LET k == First(q.macro.params, LAMBDA a : a.name = t.name)
           IN  R(Require(q, k # 0 /\ q.macro.params[k].kind = "type"), Mark(t, "parameter", k))
      [] t.kind = "expand" -> ParseExpand(q, t, TRUE)
      [] OTHER -> R(Fail(q), t)

ParseAll(q, xs) == InOrder(ParseExpression, q, xs)

-----------------------------------------------------------------------------
(* Expansion of statements.                                                *)

Statement(kind, name, args, var, items) == [kind |-> kind, name |-> name, args |-> args, var |-> var, items |-> items]
NoStatement == Statement("none", "", <<>>, 0, <<>>)

(* Mutant: a let in a quote keeps its own name.                            *)
MakeStatement_OwnName(q, m, t, xs, args) ==
    IF t.kind # "let" THEN R(q, Statement(t.kind, t.name, xs, 0, <<>>))
    ELSE After(CloneType(q, t.type, args), LAMBDA s, type :
               R(AddVariable(s, <<t.name>>, type, xs[1], "local", FALSE),
                 Statement("let", "", xs, Len(s.variables) + 1, <<>>)))

(* A let gets a name no source can spell.                                  *)
MakeStatement(q, m, t, xs, args) ==
    IF t.kind # "let" THEN R(q, Statement(t.kind, t.name, xs, 0, <<>>))
    ELSE After(CloneType(q, t.type, args), LAMBDA s, type :
               R(AddVariable(s, <<t.name, m.ordinal, s.serial>>, type, xs[1], "local", FALSE),
                 Statement("let", "", xs, Len(s.variables) + 1, <<>>)))

ExpandSingle(q, m, t, args) ==
    Leave(After(CloneAll(Enter(q, m, args), t.args, args), LAMBDA s, xs : MakeStatement(s, m, t, xs, args)), q.macro)

(* The templates a list emits, turn by turn.                               *)
Templates(m, cond) ==
    IF m.cond = <<>> THEN [i \in DOMAIN m.templates |-> i]
    ELSE IF cond # 0 THEN [i \in 1 .. m.else |-> i]
    ELSE [i \in 1 .. Len(m.templates) - m.else |-> m.else + i]

Turned(ks, count) ==
    FlattenSeq([turn \in 1 .. count |-> [i \in DOMAIN ks |-> [turn |-> turn - 1, k |-> ks[i], first |-> i = 1]]])

Schedule(q, m, conds, counts) ==
    IF \E c \in conds, n \in counts : m.loop = "" \/ (n <= OUTPUT /\ n * Len(Templates(m, c)) <= OUTPUT)
    THEN R(q, Turned(Templates(m, CHOOSE c \in conds : TRUE), CHOOSE n \in counts : TRUE))
    ELSE R(Fail(q), <<>>)

Emission(q, m, args) ==
    After(CloneAll(q, m.cond, args), LAMBDA s, c :
        After(CloneAll(s, m.count, args), LAMBDA u, n :
            Schedule(u, m, IF m.cond = <<>> THEN {1} ELSE Constant(u, c[1]),
                           IF m.loop = "" THEN {1} ELSE Constant(u, n[1]))))

Fresh(m) == [m EXCEPT !.locals = [i \in DOMAIN m.templates |-> 0], !.decls = [i \in DOMAIN m.templates |-> 0]]
Turn(q, e) == IF e.first THEN [q EXCEPT !.macro = [Fresh(@) EXCEPT !.turn = e.turn]] ELSE q

RECURSIVE ExpandStatement(_, _, _)

(* A statement of a block, or a macro expanded in it: its arguments are    *)
(* cloned first, in the block's own macro.                                 *)
CallMacro(q, m, args) ==
    IF Len(args) # Len(m.params) THEN R(Fail(q), NoStatement)
    ELSE ExpandStatement(Called(q), m, args)

ExpandItem(q, m, t, args) ==
    IF t.kind # "expand" THEN ExpandSingle(q, m, t, args)
    ELSE After(CloneAll(Require(q, FindMacro(q, t.name) # 0), t.args, args), LAMBDA s, xs :
               After(CallMacro(s, s.macros[FindMacro(s, t.name)], xs), LAMBDA u, block :
                     R([Returned(u) EXCEPT !.macro = q.macro], block)))

Introduce(r, t, k) ==
    IF t.kind = "let" /\ ~r.p.failed THEN R([r.p EXCEPT !.macro.locals[k] = r.x.var], r.x) ELSE r

Inner(q, m) ==
    [Require(q, Len(q.scopes) < SCOPES) EXCEPT
        !.macro = Fresh(m), !.blocks = @ + 1, !.scopes = Append(@, q.blocks + 1)]

ExpandBlock(q, m, args) ==
    After(Emission(Inner(Enter(q, m, args), m), m, args), LAMBDA s, emission :
        After(InOrder(LAMBDA r, e : Introduce(ExpandItem(Turn(r, e), Turn(r, e).macro, m.templates[e.k], args), m.templates[e.k], e.k),
                      s, emission), LAMBDA u, items :
              R([u EXCEPT !.macro = NoMacro, !.scopes = q.scopes], Statement("block", "", <<>>, 0, items))))

(* Macros of other kinds make an empty block.                              *)
Empty(m) == Item("block", "", U64, IF m.result = "expr" THEN m.templates[1].args ELSE <<>>, FALSE)

ExpandStatement(q, m, args) ==
    CASE q.failed -> R(q, NoStatement)
      [] m.result = "block" /\ ~q.failed -> ExpandBlock(q, m, args)
      [] m.result = "stmt" /\ ~q.failed -> ExpandSingle(q, m, m.templates[1], args)
      [] OTHER -> ExpandSingle(q, m, Empty(m), args)

-----------------------------------------------------------------------------
(* Expansion of declarations.  What is not exported gets a fresh name.     *)

Taken(q, name) == \E i \in DOMAIN q.variables : q.variables[i].function = 0 /\ q.variables[i].name = name

DeclareOne(q, name, t, type, init) ==
    AddVariable(Require(q, ~Taken(q, name)), name, type, init, t.kind, t.exported)

(* One declaration of a quote, under the name given.                       *)
CloneDeclaration(q, t, args, name) ==
    After(CloneType(q, t.type, args), LAMBDA s, type :
        After(CloneAll(s, t.args, args), LAMBDA u, init :
            R(DeclareOne(u, IF t.exported THEN <<t.name>> ELSE name, t, type, init[1]), Len(u.variables) + 1)))

EmitDeclaration(q, e, args) ==
    After(CloneDeclaration(q, q.macro.templates[e.k], args, <<q.macro.templates[e.k].name, q.macro.ordinal, q.serial, e.turn, e.k>>),
          LAMBDA s, v : R([s EXCEPT !.macro.decls[e.k] = v], v))

ExpandList(q, m, args) ==
    After(Emission([q EXCEPT !.macro = Fresh(m)], m, args), LAMBDA s, emission :
          Leave(InOrder(LAMBDA r, e : EmitDeclaration(Turn(r, e), e, args), s, emission), q.macro))

ExpandData(q, m, args) ==
    Leave(CloneDeclaration([q EXCEPT !.macro = m], m.templates[1], args, <<m.templates[1].name, m.ordinal, q.serial>>), q.macro)

DuplicateFunction(q, name) == \E i \in DOMAIN q.functions : q.functions[i].name = name
NewFunction(name, type, exported) == [name |-> name, type |-> type, params |-> <<>>, body |-> <<>>, exported |-> exported]

(* A generated function: its parameters have fresh names, its body is a    *)
(* block of the macro.                                                     *)
NameFunction(q, m, type) ==
    LET name == IF m.exported THEN <<m.function>> ELSE <<m.function, m.ordinal, q.serial>>
    IN  [Require(q, ~DuplicateFunction(q, name)) EXCEPT
            !.functions = Append(@, NewFunction(name, type, m.exported)), !.function = Len(q.functions) + 1]

BindParameter(q, m, k, args) ==
    After(CloneType(q, m.fnparams[k].type, args), LAMBDA s, type :
          R(AddVariable(s, <<m.fnparams[k].name, m.ordinal, s.serial, k>>, type, Lit(0), "in", FALSE), Len(s.variables) + 1))

FinishFunction(q, params, block) ==
    [q EXCEPT !.functions[q.function].params = params, !.functions[q.function].body = <<block>>]

ExpandFunction(q, m, args) ==
    After(CloneType([q EXCEPT !.macro = m], m.type, args), LAMBDA s, type :
        After(InOrder(LAMBDA r, k : BindParameter(r, m, k, args), NameFunction(s, m, type), [k \in DOMAIN m.fnparams |-> k]),
              LAMBDA u, params :
                  After(ExpandStatement(u, [m EXCEPT !.result = "block", !.list = FALSE, !.actuals = params], args), LAMBDA v, block :
                        R([FinishFunction(v, params, block) EXCEPT !.macro = q.macro, !.function = q.function], 0))))

ExpandDeclared(q, m, args) ==
    CASE q.failed -> R(q, 0)
      [] m.list /\ ~q.failed -> ExpandList(q, m, args)
      [] m.function # "" /\ ~q.failed -> ExpandFunction(q, m, args)
      [] OTHER -> ExpandData(q, m, args)

ExpandDeclaration(q, it) ==
    IF ~ \E k \in DOMAIN q.macros : q.macros[k].name = it.name /\ q.macros[k].result = "decl" THEN R(Fail(q), 0)
    ELSE LET m == q.macros[FindMacro(q, it.name)]
         IN  After(ParseArguments(q, m, it.args), LAMBDA s, args :
                   ExpandDeclared(Spend(Require(s, ValidArguments(s, m, args))), m, args))

-----------------------------------------------------------------------------
(* Definitions of macros (parse_macro): the macro being read is the one    *)
(* whose marks its quote gets.                                             *)

NewName(q, s) ==
    Require(q, First(q.macro.params, LAMBDA a : a.name = s) = 0 /\ First(q.macro.lets, LAMBDA a : a.name = s) = 0)

AddParameters(q, d) ==
    InOrder(LAMBDA r, a : After(ParseType(NewName(r, a.name), a.type), LAMBDA s, type :
                                R([s EXCEPT !.macro.params = Append(@, [a EXCEPT !.type = type])], 0)), q, d.params)

AddLets(q, d) ==
    InOrder(LAMBDA r, b : After(ParseExpression(NewName(r, b.name), b.x), LAMBDA s, x :
                                R([s EXCEPT !.macro.lets = Append(@, [b EXCEPT !.x = x])], 0)), q, d.lets)

(* parse_emitted_quote and the statements of other quotes.                 *)
KindsIn(d) ==
    CASE d.list /\ d.result = "block" -> {"let", "return", "ins"}
      [] d.result = "decl" /\ d.function = "" -> IF d.list THEN {"const", "data"} ELSE {"data"}
      [] d.result = "block" \/ d.function # "" -> {"let", "return", "ins", "expand"}
      [] d.result = "stmt" -> {"let", "return", "ins"}
      [] OTHER -> {"return"}

AddTemplates(q, d) ==
    InOrder(LAMBDA r, t :
                After(ParseType(Require(r, t.kind \in KindsIn(d)), t.type), LAMBDA s, type :
                    After(ParseAll(s, t.args), LAMBDA u, xs :
                        R([u EXCEPT !.macro.templates = Append(@, [t EXCEPT !.type = type, !.args = xs])], 0))), q, d.templates)

(* The condition or the loop of a list, read before what it emits.         *)
AddListHead(q, d) ==
    After(ParseAll(q, d.cond), LAMBDA s, cond :
        After(ParseAll([s EXCEPT !.macro.cond = cond, !.macro.loop = d.loop, !.macro.else = d.else], d.count), LAMBDA u, count :
            R([u EXCEPT !.macro.count = count], 0)))

(* The head of a generated function: names once, types with splices.       *)
AddSignature(q, d) ==
    After(InOrder(LAMBDA r, f : After(ParseType(Require(r, First(r.macro.fnparams, LAMBDA g : g.name = f.name) = 0), f.type), LAMBDA s, type :
                                      R([s EXCEPT !.macro.fnparams = Append(@, [f EXCEPT !.type = type])], 0)),
                  [q EXCEPT !.macro.function = d.function, !.macro.exported = d.exported], d.fnparams), LAMBDA u, z :
          After(ParseType(u, d.type), LAMBDA v, type : R([v EXCEPT !.macro.type = type], 0)))

BeginMacro(q, d) ==
    [Require(q, FindMacro(q, d.name) = 0) EXCEPT
        !.macro = [NoMacro EXCEPT !.name = d.name, !.result = d.result, !.list = d.list, !.ordinal = Len(q.macros) + 1]]

DefineMacro(q, d) ==
    After(After(After(After(AddParameters(BeginMacro(q, d), d), LAMBDA s, z : AddLets(s, d)),
                      LAMBDA s, z : IF d.list THEN AddListHead(s, d) ELSE AddSignature(s, d)),
                LAMBDA s, z : AddTemplates(s, d)),
          LAMBDA s, z : R([s EXCEPT !.macros = Append(@, Fresh(s.macro)), !.macro = NoMacro], 0))

(* Limits may be set again, below what is used: nothing more is expanded   *)
(* then, but the expression here is evaluated (the difference wraps).      *)
RECURSIVE Size(_)
Size(x) == 1 + FoldLeft(LAMBDA n, kid : n + Size(kid), 0, x.kids)

Evaluated(q, x, cost) ==
    [Require(q, (q.fuel >= q.used => cost <= q.fuel - q.used) /\ Constant(q, x) # {}) EXCEPT !.used = @ + cost]

SetLimits(q, it) ==
    After(ParseExpression([q EXCEPT !.fuel = it.fuel, !.calls = it.calls, !.expansions = it.expansions], it.x),
          LAMBDA s, x : R(Evaluated(s, x, Size(it.x)), 0))

DeclareData(q, it) ==
    After(ParseType(q, it.type), LAMBDA s, type :
        After(ParseAll(s, it.args), LAMBDA u, init : R(DeclareOne(u, <<it.name>>, it, type, init[1]), 0)))

-----------------------------------------------------------------------------
(* The parser, an item of the module or a statement of a function a step.  *)

MacroInit ==
    /\ module \in Modules /\ item = 1 /\ line = 0
    /\ p = Start /\ status = "parsing"

Reads(kinds) == status = "parsing" /\ line = 0 /\ item <= Len(module) /\ module[item].kind \in kinds

Becomes(q) ==
    /\ p' = q
    /\ status' = IF q.failed THEN "refused" ELSE status
    /\ UNCHANGED module

NextItem(r) == Becomes(r.p) /\ item' = item + 1 /\ line' = 0

ReadData == Reads({"const", "data"}) /\ NextItem(DeclareData(p, module[item]))
ReadMacro == Reads({"macro"}) /\ NextItem(DefineMacro(p, module[item]))
ReadComptime == Reads({"comptime"}) /\ NextItem(SetLimits(p, module[item]))
ReadExpansion == Reads({"expand"}) /\ NextItem(ExpandDeclaration(p, module[item]))

(* parse_function up to the brace, each of its statements, the end.        *)
OpenParameter(q, a) ==
    After(ParseType(Require(q, \A i \in DOMAIN q.variables : q.variables[i].function = q.function => q.variables[i].name # <<a.name>>), a.type),
          LAMBDA s, type : R(AddVariable(s, <<a.name>>, type, Lit(0), "in", FALSE), Len(s.variables) + 1))

BeginFunction(q, f) ==
    [Require(q, ~DuplicateFunction(q, <<f.name>>)) EXCEPT
        !.functions = Append(@, NewFunction(<<f.name>>, f.type, TRUE)), !.function = Len(q.functions) + 1]

OpenFunction ==
    /\ Reads({"fn"})
    /\ Becomes(After(InOrder(OpenParameter, BeginFunction(p, module[item]), module[item].params), LAMBDA s, params :
                   After(ParseType(s, module[item].type), LAMBDA u, type :
                       R([u EXCEPT !.functions[u.function].params = params, !.functions[u.function].type = type,
                                   !.blocks = @ + 1, !.scopes = <<u.blocks + 1>>], 0))).p)
    /\ line' = 1 /\ UNCHANGED item

DuplicateLocal(q, s) ==
    \E i \in DOMAIN q.variables :
        LET v == q.variables[i] IN v.function = q.function /\ v.scope = Last(q.scopes) /\ v.name = <<s>>

ParseLet(q, s) ==
    After(ParseType(Require(q, ~DuplicateLocal(q, s.name)), s.type), LAMBDA r, type :
        After(ParseExpression(r, s.args[1]), LAMBDA u, x :
            R(AddVariable(u, <<s.name>>, type, x, "local", FALSE), Statement("let", "", <<x>>, Len(u.variables) + 1, <<>>))))

(* A statement's arguments are expressions: types are not.                 *)
ParseCall(q, s) ==
    After(ParseAll(Require(q, FindMacro(q, s.name) # 0), s.args), LAMBDA r, xs :
        IF Len(xs) # Len(r.macros[FindMacro(r, s.name)].params) THEN R(Fail(r), NoStatement)
        ELSE ExpandStatement(r, r.macros[FindMacro(r, s.name)], xs))

ParseStatement(q, s) ==
    CASE s.kind = "let" -> ParseLet(q, s)
      [] s.kind = "expand" -> ParseCall(q, s)
      [] OTHER -> Map(ParseAll(q, s.args), LAMBDA xs : Statement(s.kind, s.name, xs, 0, <<>>))

AddStatement(r, f) == IF r.p.failed THEN r.p ELSE [r.p EXCEPT !.functions[f].body = Append(@, r.x)]

ReadStatement ==
    /\ status = "parsing" /\ line # 0 /\ line \in DOMAIN module[item].body
    /\ Becomes(AddStatement(ParseStatement(p, module[item].body[line]), p.function))
    /\ line' = line + 1 /\ UNCHANGED item

CloseFunction ==
    /\ status = "parsing" /\ line # 0 /\ line \notin DOMAIN module[item].body
    /\ NextItem(R([p EXCEPT !.function = 0, !.scopes = <<>>], 0))

(* What is left is checked as if it had been written so: a name without a  *)
(* declaration is refused (infer).                                         *)
RECURSIVE Resolved(_), AllResolved(_)
Resolved(x) == (x.kind = "name" => x.index # 0) /\ \A i \in DOMAIN x.kids : Resolved(x.kids[i])
AllResolved(ss) ==
    \A i \in DOMAIN ss :
        IF ss[i].kind = "block" THEN AllResolved(ss[i].items) ELSE \A k \in DOMAIN ss[i].args : Resolved(ss[i].args[k])

Finish ==
    /\ status = "parsing" /\ line = 0 /\ item > Len(module)
    /\ status' = IF /\ \A i \in DOMAIN p.variables : Resolved(p.variables[i].init)
                    /\ \A f \in DOMAIN p.functions : AllResolved(p.functions[f].body)
                 THEN "accepted" ELSE "refused"
    /\ UNCHANGED <<module, item, line, p>>

MacroDone == status \in {"accepted", "refused"} /\ UNCHANGED macroVars

MacroNext ==
    \/ ReadData \/ ReadMacro \/ ReadComptime \/ ReadExpansion
    \/ OpenFunction \/ ReadStatement \/ CloseFunction \/ Finish
    \/ MacroDone
MacroSpec == MacroInit /\ [][MacroNext]_macroVars

-----------------------------------------------------------------------------
(* What the module read says: the values of its data, what its functions   *)
(* do.  Only what is exported or written in the module has a public name.  *)

Public(name) == IF Len(name) = 1 THEN name[1] ELSE ""

RECURSIVE Content(_, _)
Content(values, x) ==
    CASE x.kind = "lit" -> x.value
      [] x.kind = "name" -> values[x.index]
      [] x.kind = "binary" -> Content(values, x.kids[1]) + Content(values, x.kids[2])

RECURSIVE TypeName(_)
TypeName(t) == IF t.kind = "ptr" THEN <<"ptr">> \o TypeName(t.kids[1]) ELSE <<t.name>>

(* A variable stands for its initial value, a parameter for its argument.  *)
Values(f) ==
    FoldLeft(LAMBDA vs, v :
        Append(vs, IF v.direction = "in"
                   THEN IF v.function # f THEN 0
                        ELSE Actual(CHOOSE k \in DOMAIN p.functions[f].params :
                                       p.functions[f].params[k] = Len(vs) + 1)
                   ELSE IF v.function \in {0, f} THEN Content(vs, v.init) ELSE 0), <<>>, p.variables)

RECURSIVE Performed(_, _)
Performed(values, ss) ==
    FoldLeft(LAMBDA es, s :
        CASE s.kind = "let" -> es
          [] s.kind = "block" -> es \o Performed(values, s.items)
          [] OTHER -> Append(es, [what |-> s.kind, values |-> [i \in DOMAIN s.args |-> Content(values, s.args[i])]]),
        <<>>, ss)

Outcome ==
    LET globals == SelectSeq([i \in DOMAIN p.variables |-> i], LAMBDA i : p.variables[i].function = 0)
    IN  [data |-> [n \in DOMAIN globals |->
                      LET v == p.variables[globals[n]]
                      IN  [name |-> Public(v.name), type |-> TypeName(v.type), value |-> Values(0)[globals[n]]]],
         functions |-> [f \in DOMAIN p.functions |->
                      LET g == p.functions[f]
                          types == [k \in DOMAIN g.params |-> TypeName(p.variables[g.params[k]].type)]
                      IN  [name |-> Public(g.name), types |-> Append(types, TypeName(g.type)),
                           events |-> UpToReturn(Performed(Values(f), g.body))]]]

(* Hygiene: whatever macros it was written with, a module that is accepted *)
(* is the one its names mean where they are written.                       *)
Hygienic == [][status' = "accepted" => Meaning(module) = {Outcome}]_macroVars
=============================================================================
