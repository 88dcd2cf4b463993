--------------------------- MODULE ConformanceFlow ---------------------------
(***************************************************************************)
(* The proof nt_conformance_verify makes about one NTASM function          *)
(* (bootstrap/quarantine/c/conformance.c): that no path reads a flag, a    *)
(* local variable, an output register or a pointer before it is there, and *)
(* none falls out of the function.  The syntax tree is turned into a graph *)
(* of statements, the reachable ones are found, and what holds before each *)
(* of them on every path is computed by a queue of statements whose facts  *)
(* have changed.  A function that passes is then run.                      *)
(*                                                                         *)
(* A fact is that a flag is defined, that a local is initialized, that an  *)
(* output register is assigned, or that a register holds a pointer of some *)
(* type (with two types at least, "all types" is the code's UINT32_MAX and *)
(* "no type" its 0).  What an instruction needs, makes and destroys is     *)
(* part of the program here: the tables of x64.c are left out, and so are  *)
(* the rules on values (write permission, indices that must be no          *)
(* pointers).                                                              *)
(***************************************************************************)
EXTENDS Integers, Sequences, FiniteSets

CONSTANTS
    Functions,  \* the functions verified
    Facts       \* what can hold before a statement

VARIABLES
    function,   \* the argument
    pc,         \* the phase, at the end the verdict
    edges,      \* nodes[id].edge
    reachable,  \* the statements reached so far
    queue,      \* the ring of statements to look at; each is in it at most once
    fill,       \* the loop that queues every reachable statement
    facts,      \* what holds before each statement, as far as is known
    at, holds   \* of a run: the statement it is at, what holds there

graph == <<function, edges>>
solver == <<reachable, queue, fill, facts>>
run == <<at, holds>>
vars == <<graph, pc, solver, run>>

-----------------------------------------------------------------------------
(* Statements.                                                             *)

Ids == DOMAIN function.statements
Statement(id) == function.statements[id]

(* A block has items, an "if" two branches (0 for no else) and perhaps a   *)
(* literal condition; a jump has a target, 0 when it is none; a terminal   *)
(* statement is not left.                                                  *)
Statements ==
    [kind : {"block", "let", "return", "call", "if", "instruction", "label"},
     items : Seq(Nat), then : Nat, else : Nat,
     literal : {"true", "false", "none"},
     jump : {"never", "always", "conditional"}, target : Nat, terminal : BOOLEAN,
     needs : SUBSET Facts, kills : SUBSET Facts, makes : SUBSET Facts,
     copies : SUBSET (Facts \X Facts)]

(* What is directly inside a statement.                                    *)
Parts(s) == {s.items[k] : k \in DOMAIN s.items} \cup ({s.then, s.else} \ {0})

(* The fields a kind of statement has no use for are at rest; a way out is *)
(* asked of plain statements only, and before whether they are terminal.   *)
WellFormed(s) ==
    /\ s.kind # "block" => s.items = <<>>
    /\ s.kind # "if" => s.then = 0 /\ s.else = 0
    /\ s.kind \in {"block", "return", "if"} => s.jump = "never"
    /\ s.terminal => s.jump = "never" /\ s.kind \notin {"block", "if"}
    /\ \A j, k \in DOMAIN s.items : s.items[j] = s.items[k] => j = k

(* A move overwrites its target, with what is known of one source.         *)
MovesOverwrite(s) ==
    \A c \in s.copies : /\ c[2] \in s.kills
                        /\ \A d \in s.copies : c[2] = d[2] => c = d

(* The statements of a function are a tree under its body, in any order;   *)
(* "depth" says how deep each is in it.                                    *)
IsTree(f) ==
    LET N == DOMAIN f.statements
        Inner(p) == Parts(f.statements[p])
    IN  /\ f.body \in N
        /\ f.depth \in [N -> N]
        /\ \A p \in N : \A id \in Inner(p) : id \in N \ {f.body} /\ f.depth[p] < f.depth[id]
        /\ \A id \in N \ {f.body} : \E p \in N : id \in Inner(p)
        /\ \A p, q \in N : p # q => Inner(p) \cap Inner(q) = {}

ASSUME FunctionsAssumption ==
    \A f \in Functions :
        /\ f.statements \in Seq(Statements)
        /\ \A id \in DOMAIN f.statements :
            WellFormed(f.statements[id]) /\ MovesOverwrite(f.statements[id])
        /\ IsTree(f)
        /\ f.entry \subseteq Facts /\ f.outputs \subseteq Facts

ASSUME FactsAssumption == IsFiniteSet(Facts)

(* Where a statement goes when what follows it is next.                    *)
Ways(s, next) ==
    LET first == IF s.items = <<>> THEN next ELSE s.items[1]
        otherwise == IF s.else = 0 THEN next ELSE s.else
    IN  CASE s.kind = "block" -> <<first>>
          [] s.kind = "return" -> <<>>
          [] s.kind = "if" -> CASE s.literal = "true" -> <<s.then>>
                                [] s.literal = "false" -> <<otherwise>>
                                [] OTHER -> <<s.then, otherwise>>
          [] s.jump = "always" -> <<s.target>>
          [] s.jump = "conditional" -> <<s.target, next>>
          [] OTHER -> IF s.terminal THEN <<>> ELSE <<next>>

(* The statements inside it, each with what follows it.                    *)
Inside(s, next) ==
    CASE s.kind = "block" ->
            {<<s.items[k], IF k < Len(s.items) THEN s.items[k + 1] ELSE next>> :
                k \in DOMAIN s.items}
      [] s.kind = "if" -> {<<b, next>> : b \in {s.then, s.else} \ {0}}
      [] OTHER -> {}

(* build_block and build_statement, from the body down; 0 is the end of    *)
(* the function.  The statements are a tree, as the parser makes them, so  *)
(* that the code's checks of reuse, cycles and depth find nothing.         *)
build[b \in Ids \X Nat] ==
    {<<b[1], Ways(Statement(b[1]), b[2])>>}
    \cup UNION {build[c] : c \in Inside(Statement(b[1]), b[2])}

Build == build[<<function.body, 0>>]

Edges == [id \in Ids |-> CHOOSE e \in {b[2] : b \in Build} : <<id, e>> \in Build]

(* At most two edges leave a statement.                                    *)
Targets(id) == {edges[id][k] : k \in DOMAIN edges[id] \cap {1, 2}}

(* A jump to no statement, or to one of another function: refused by       *)
(* build_statement and by the check behind build_block, in dead code too.  *)
Strays(id) == Statement(id).jump # "never" /\ Statement(id).target \notin Ids

BranchesStay(e) ==
    \A id \in Ids : ~ Strays(id) /\ \A k \in DOMAIN e[id] : e[id][k] \in Ids \cup {0}

(* What has to hold before a statement.                                    *)
Needs(id) ==
    Statement(id).needs \cup
    (IF Statement(id).kind = "return" THEN function.outputs ELSE {})

(* What holds after a statement when F holds before it: callees kill flags *)
(* and pointers, results are made last; a move copies what is known of its *)
(* source.                                                                 *)
After(id, F) ==
    LET s == Statement(id)
    IN  ((F \ s.kills) \cup s.makes) \cup {c[2] : c \in {d \in s.copies : d[1] \in F}}

-----------------------------------------------------------------------------

Elements(q) == {q[k] : k \in DOMAIN q}

(* enqueue                                                                 *)
Enqueue(q, id) == IF id \in Elements(q) THEN q ELSE Append(q, id)

(* The k-th target of id is queued if it is one of those.                  *)
EnqueueTarget(q, id, k, those) ==
    IF k \in DOMAIN edges[id] /\ edges[id][k] \in those THEN Enqueue(q, edges[id][k]) ELSE q
EnqueueTargets(q, id, those) ==
    EnqueueTarget(EnqueueTarget(q, id, 1, those), id, 2, those)

Goto(label) == pc' = label

Init ==
    /\ function \in Functions
    /\ pc = "build"
    /\ edges = <<>>
    /\ reachable = {} /\ queue = <<>> /\ fill = 0
    /\ facts = <<>>
    /\ at = 0 /\ holds = {}

(* The tables may be too large or not to be had.                           *)
GiveUp == pc = "build" /\ Goto("gave up") /\ UNCHANGED <<graph, solver, run>>

BuildGraph ==
    /\ pc = "build"
    /\ edges' = Edges
    /\ IF BranchesStay(Edges)
       THEN /\ Goto("reach")
            /\ reachable' = {function.body} /\ queue' = <<function.body>>
       ELSE Goto("refused") /\ UNCHANGED <<reachable, queue>>
    /\ UNCHANGED <<function, fill, facts, run>>

(* One statement of the search for the reachable ones.                     *)
Reach ==
    /\ pc = "reach" /\ queue # <<>>
    /\ LET id == Head(queue)
           new == Targets(id) \ reachable
       IN  IF 0 \in Targets(id)
           THEN Goto("refused") /\ UNCHANGED <<reachable, queue>>
           ELSE /\ reachable' = reachable \cup new
                /\ queue' = EnqueueTargets(Tail(queue), id, new)
                /\ UNCHANGED pc
    /\ UNCHANGED <<graph, fill, facts, run>>

(* Everything is taken to hold everywhere, but for the entry.              *)
Reached ==
    /\ pc = "reach" /\ queue = <<>>
    /\ facts' = [id \in Ids |-> IF id = function.body THEN function.entry ELSE Facts]
    /\ fill' = 1
    /\ Goto("fill")
    /\ UNCHANGED <<graph, reachable, queue, run>>

(* Mutant: dead code is queued as well.                                    *)
Fill_Everything ==
    /\ pc = "fill"
    /\ IF fill \in Ids
       THEN /\ queue' = Enqueue(queue, fill)
            /\ fill' = fill + 1
            /\ UNCHANGED pc
       ELSE Goto("solve") /\ UNCHANGED <<queue, fill>>
    /\ UNCHANGED <<graph, reachable, facts, run>>

Fill ==
    /\ pc = "fill"
    /\ IF fill \in Ids
       THEN /\ queue' = IF fill \in reachable THEN Enqueue(queue, fill) ELSE queue
            /\ fill' = fill + 1
            /\ UNCHANGED pc
       ELSE Goto("solve") /\ UNCHANGED <<queue, fill>>
    /\ UNCHANGED <<graph, reachable, facts, run>>

(* Mutant: a statement is looked at once only.                             *)
Propagate_Once ==
    /\ pc = "solve" /\ queue # <<>>
    /\ LET id == Head(queue)
           out == After(id, facts[id])
       IN  facts' = [t \in Ids |-> IF t \in Targets(id) THEN facts[t] \cap out ELSE facts[t]]
    /\ queue' = Tail(queue)
    /\ UNCHANGED <<graph, pc, reachable, fill, run>>

(* Mutant: every target is queued, changed or not.                         *)
Propagate_Always ==
    /\ pc = "solve" /\ queue # <<>>
    /\ LET id == Head(queue)
           out == After(id, facts[id])
       IN  /\ facts' = [t \in Ids |-> IF t \in Targets(id) THEN facts[t] \cap out ELSE facts[t]]
           /\ queue' = EnqueueTargets(Tail(queue), id, Targets(id))
    /\ UNCHANGED <<graph, pc, reachable, fill, run>>

(* One statement's facts are carried over its edges; targets that lose one *)
(* are queued.                                                             *)
Propagate ==
    /\ pc = "solve" /\ queue # <<>>
    /\ LET id == Head(queue)
           out == After(id, facts[id])
           changed == {t \in Targets(id) : ~ (facts[t] \subseteq out)}
       IN  /\ facts' = [t \in Ids |-> IF t \in changed THEN facts[t] \cap out ELSE facts[t]]
           /\ queue' = EnqueueTargets(Tail(queue), id, changed)
    /\ UNCHANGED <<graph, pc, reachable, fill, run>>

(* The last loop: what every reachable statement needs is there, and no    *)
(* function of type never returns.                                         *)
Proven ==
    \A id \in reachable :
        /\ Needs(id) \subseteq facts[id]
        /\ ~ (function.never /\ Statement(id).kind = "return")

Check ==
    /\ pc = "solve" /\ queue = <<>>
    /\ IF Proven
       THEN /\ Goto("accepted")
            /\ at' = function.body /\ holds' = function.entry
       ELSE Goto("refused") /\ UNCHANGED run
    /\ UNCHANGED <<graph, solver>>

(* A run of an accepted function: one statement, one of the ways on.       *)
Run ==
    /\ pc = "accepted"
    /\ at' \in Targets(at)
    /\ holds' = After(at, holds)
    /\ UNCHANGED <<graph, pc, solver>>

Verify == GiveUp \/ BuildGraph \/ Reach \/ Reached \/ Fill \/ Propagate \/ Check

(* A verdict that refuses, or a run that has left the function.            *)
Stopped ==
    /\ \/ pc \in {"refused", "gave up"}
       \/ pc = "accepted" /\ Targets(at) = {}
    /\ UNCHANGED vars

Next == Verify \/ Run \/ Stopped

(* The verifier is a loop that runs on; nobody has to run the function.    *)
Spec == Init /\ [][Next]_vars /\ WF_vars(Verify)

-----------------------------------------------------------------------------

(* "Returns 1 only when every reachable flag/local read is defined and no  *)
(* path falls out of the function" (conformance.h): wherever a run of an   *)
(* accepted function is, what the statement there needs holds.             *)
RunsDefined ==
    pc = "accepted" => /\ at \in Ids
                       /\ Needs(at) \subseteq holds
                       /\ ~ (function.never /\ Statement(at).kind = "return")

(* The paths, from the text alone: the statement after this one is its     *)
(* next sibling, or what comes after the statement around it.              *)

Around(id) == CHOOSE p \in Ids : id \in Parts(Statement(p))

following[id \in Ids] ==
    IF id = function.body THEN 0
    ELSE LET items == Statement(Around(id)).items
             places == {k \in 1 .. Len(items) - 1 : items[k] = id}
         IN  IF places # {} THEN items[(CHOOSE k \in places : TRUE) + 1]
             ELSE following[Around(id)]

Onward(id) ==
    LET s == Statement(id) IN
    CASE s.kind = "return" \/ s.terminal -> {}
      [] s.kind = "block" /\ s.items # <<>> -> {s.items[1]}
      [] s.kind = "if" -> (IF s.literal = "false" THEN {} ELSE {s.then}) \cup
                          (IF s.literal = "true" THEN {} ELSE
                           IF s.else # 0 THEN {s.else} ELSE {following[id]})
      [] s.jump = "always" -> {s.target}
      [] s.jump = "conditional" -> {s.target, following[id]}
      [] OTHER -> {following[id]}

(* Wherever a path can be, with what holds there: what is known so far, or *)
(* what one more statement adds to it, until nothing is added.             *)
Places == Ids \X SUBSET Facts

Further(S) == S \cup UNION {{<<id, After(s[1], s[2])>> : id \in Onward(s[1]) \cap Ids} : s \in S}

grown[S \in SUBSET Places] == IF Further(S) = S THEN S ELSE grown[Further(S)]

OnPaths == grown[{<<function.body, function.entry>>}]

Bad(s) ==
    \/ ~ (Needs(s[1]) \subseteq s[2])
    \/ 0 \in Onward(s[1])
    \/ function.never /\ Statement(s[1]).kind = "return"

(* A function is accepted exactly if no path through its text is bad and   *)
(* all its jumps stay inside: facts of dead code and of other paths refuse *)
(* nothing, and nothing slips through (nt_conformance_verify).             *)
VerdictExact ==
    pc \in {"accepted", "refused"} =>
        (pc = "refused" <=> \/ \E s \in OnPaths : Bad(s)
                            \/ \E id \in Ids : Strays(id) \/ ~ (Onward(id) \subseteq Ids \cup {0}))

(* The facts only shrink, so that a verdict is reached.                    *)
Decides == <>(pc \in {"accepted", "refused", "gave up"})
=============================================================================
