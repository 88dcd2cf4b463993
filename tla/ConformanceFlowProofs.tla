----------------------- MODULE ConformanceFlowProofs -----------------------
(***************************************************************************)
(* Proofs about nt_conformance_verify, for any functions and any kinds of  *)
(* facts: a function it accepts is defined on every path (RunsDefined),    *)
(* and it refuses exactly the functions that have a bad path or a jump     *)
(* that leaves (VerdictExact).                                             *)
(*                                                                         *)
(* The first argument is the one for every worklist: a reachable statement *)
(* whose facts have not been carried on is in the queue (Searched, Filled, *)
(* Stable), so that with the queue empty the facts are a solution; a run   *)
(* keeps to the solution since more facts before a statement are more      *)
(* facts after it (AfterMonotone).                                         *)
(*                                                                         *)
(* The second relates the graph to the text.  The recursive build finds    *)
(* every statement of the tree once, followed by what the text says        *)
(* (BuildOrdered); the places on paths are the least set that has the      *)
(* entry and is closed under one more statement (OnPathsLeast); and a fact *)
(* is only ever taken away because it is missing on some path, since each  *)
(* missing fact has one cause (LostForAReason, Lost).                      *)
(***************************************************************************)
EXTENDS ConformanceFlow, FiniteSetTheorems, NaturalsInduction, WellFoundedInduction, TLAPS

Working == pc \in {"reach", "fill", "solve", "accepted"}
Solving == pc \in {"fill", "solve", "accepted"}

(* The graph stays inside the function, and so does the search; the queue  *)
(* has reachable statements only.                                          *)
Shape ==
    /\ function \in Functions
    /\ Working =>
        /\ \A id \in Ids : ~ Strays(id) /\ Targets(id) \subseteq Ids \cup {0}
        /\ queue \in Seq(reachable)
        /\ reachable \subseteq Ids
        /\ function.body \in reachable

(* Whoever is reachable is in the queue, or all its targets are reachable. *)
Searched ==
    pc = "reach" =>
        \A id \in reachable : id \in Elements(queue) \/ Targets(id) \subseteq reachable

(* Nothing is assumed of the entry that the caller does not give.          *)
Closed ==
    Solving => /\ \A id \in reachable : Targets(id) \subseteq reachable
               /\ facts[function.body] \subseteq function.entry

(* The first queue of the analysis has every reachable statement.          *)
Filled ==
    pc = "fill" => /\ fill \in 1 .. Len(function.statements) + 1
                   /\ \A id \in reachable : id < fill => id \in Elements(queue)

(* Whoever is not in the queue has been carried over its edges.            *)
Carried(id) == \A t \in Targets(id) : facts[t] \subseteq After(id, facts[id])
Stable ==
    pc \in {"solve", "accepted"} =>
        \A id \in reachable : id \in Elements(queue) \/ Carried(id)

(* The run is in the graph and has at least what the solution says.        *)
Followed ==
    pc = "accepted" => /\ queue = <<>>
                       /\ Proven
                       /\ at \in reachable
                       /\ facts[at] \subseteq holds

IInv == Shape /\ Searched /\ Closed /\ Filled /\ Stable /\ Followed

-----------------------------------------------------------------------------

(* A set of numbers has a least one.                                       *)
LEMMA LeastNumber ==
    ASSUME NEW T \in SUBSET Nat, T # {}
    PROVE  \E x \in T : \A y \in T : x <= y
<1>1. IsWellFoundedOn(OpToRel(<, Nat), Nat)
    BY NatLessThanWellFounded
<1>2. PICK x \in T : \A y \in T : ~ (<<y, x>> \in OpToRel(<, Nat))
    BY <1>1, WFMin
<1>3. \A y \in T : ~(y < x)
    BY <1>2 DEF OpToRel
<1> QED BY <1>3

Depth(id) == function.depth[id]

(* What the assumptions say of the function verified.                      *)
LEMMA Tree ==
    ASSUME function \in Functions
    PROVE  /\ Len(function.statements) \in Nat
           /\ Ids = 1 .. Len(function.statements)
           /\ \A id \in Ids : /\ Statement(id) \in Statements
                              /\ WellFormed(Statement(id))
                              /\ MovesOverwrite(Statement(id))
           /\ function.body \in Ids
           /\ \A id \in Ids : Depth(id) \in Ids
           /\ \A p \in Ids : \A id \in Parts(Statement(p)) :
                  id \in Ids /\ id # function.body /\ Depth(p) < Depth(id)
           /\ \A id \in Ids : id # function.body =>
                  Around(id) \in Ids /\ id \in Parts(Statement(Around(id)))
           /\ \A p \in Ids : \A id \in Parts(Statement(p)) : Around(id) = p
           /\ function.entry \subseteq Facts /\ function.outputs \subseteq Facts
<1> DEFINE Inner(p) == Parts(Statement(p))
<1>1. /\ function.statements \in Seq(Statements)
      /\ \A id \in Ids : WellFormed(Statement(id)) /\ MovesOverwrite(Statement(id))
      /\ IsTree(function)
      /\ function.entry \subseteq Facts /\ function.outputs \subseteq Facts
    BY FunctionsAssumption DEF Ids, Statement
<1>2. /\ function.body \in Ids
      /\ function.depth \in [Ids -> Ids]
      /\ \A p \in Ids : \A id \in Inner(p) :
             id \in Ids \ {function.body} /\ function.depth[p] < function.depth[id]
      /\ \A id \in Ids \ {function.body} : \E p \in Ids : id \in Inner(p)
      /\ \A p, q \in Ids : p # q => Inner(p) \cap Inner(q) = {}
    <2> HIDE FunctionsAssumption
    <2> QED BY <1>1, Zenon DEF IsTree, Ids, Statement
<1>3. /\ Len(function.statements) \in Nat
      /\ Ids = 1 .. Len(function.statements)
      /\ \A id \in Ids : Statement(id) \in Statements
    BY <1>1 DEF Ids, Statement
<1> HIDE DEF Inner
<1>4. ASSUME NEW p \in Ids, NEW id \in Inner(p) PROVE Around(id) = p
    <2>1. \A q \in Ids : id \in Inner(q) => q = p
        BY <1>2, <1>4
    <2>2. Around(id) \in Ids /\ id \in Inner(Around(id))
        BY <1>4 DEF Around, Inner
    <2> QED BY <2>1, <2>2
<1>5. ASSUME NEW id \in Ids, id # function.body
      PROVE  Around(id) \in Ids /\ id \in Inner(Around(id))
    <2>1. PICK p \in Ids : id \in Inner(p)
        BY <1>2, <1>5
    <2> QED BY <1>4, <2>1
<1>6. \A id \in Ids : Depth(id) \in Ids
    BY <1>2 DEF Depth
<1>7. \A p \in Ids : \A id \in Inner(p) : id \in Ids /\ id # function.body /\ Depth(p) < Depth(id)
    BY <1>2 DEF Depth
<1> QED BY <1>1, <1>2, <1>3, <1>4, <1>5, <1>6, <1>7 DEF Inner

(* More facts before a statement, more facts after it.                     *)
LEMMA AfterMonotone ==
    ASSUME NEW id, NEW F, NEW G, F \subseteq G
    PROVE  After(id, F) \subseteq After(id, G)
BY DEF After

(* enqueue puts the statement in, and takes none out.                      *)
LEMMA EnqueueAdds ==
    ASSUME NEW S, NEW q \in Seq(S), NEW id \in S
    PROVE  /\ Enqueue(q, id) \in Seq(S)
           /\ Elements(Enqueue(q, id)) = Elements(q) \cup {id}
<1>1. CASE id \in Elements(q)
    BY <1>1 DEF Enqueue
<1>2. CASE id \notin Elements(q)
    <2>1. Enqueue(q, id) = Append(q, id)
        BY <1>2 DEF Enqueue
    <2>2. /\ Append(q, id) \in Seq(S)
          /\ DOMAIN Append(q, id) = DOMAIN q \cup {Len(q) + 1}
          /\ \A k \in DOMAIN q : Append(q, id)[k] = q[k]
          /\ Append(q, id)[Len(q) + 1] = id
        OBVIOUS
    <2>3. Elements(Append(q, id)) = Elements(q) \cup {id}
        BY <2>2, Zenon DEF Elements
    <2> QED BY <2>1, <2>2, <2>3
<1> QED BY <1>1, <1>2

(* Taking the head away loses the head only.                               *)
LEMMA DequeueLoses ==
    ASSUME NEW S, NEW q \in Seq(S), q # <<>>
    PROVE  /\ Head(q) \in S
           /\ Tail(q) \in Seq(S)
           /\ \A id \in Elements(q) : id = Head(q) \/ id \in Elements(Tail(q))
<1>1. /\ Head(q) \in S
      /\ Tail(q) \in Seq(S)
    OBVIOUS
<1>2. ASSUME NEW k \in DOMAIN q, q[k] # Head(q)
      PROVE  q[k] \in Elements(Tail(q))
    <2>1. k - 1 \in DOMAIN Tail(q) /\ Tail(q)[k - 1] = q[k]
        BY <1>2
    <2> QED BY <2>1 DEF Elements
<1> QED BY <1>1, <1>2 DEF Elements

(* The k-th target is queued if it is one of those.                        *)
LEMMA TargetAdds ==
    ASSUME NEW S, NEW q \in Seq(S), NEW id, NEW k, NEW those, those \subseteq S
    PROVE  /\ EnqueueTarget(q, id, k, those) \in Seq(S)
           /\ Elements(q) \subseteq Elements(EnqueueTarget(q, id, k, those))
           /\ k \in DOMAIN edges[id] /\ edges[id][k] \in those =>
                  edges[id][k] \in Elements(EnqueueTarget(q, id, k, those))
BY EnqueueAdds DEF EnqueueTarget

(* Both targets are.                                                       *)
LEMMA TargetsAdd ==
    ASSUME NEW S, NEW q \in Seq(S), NEW id, NEW those, those \subseteq S
    PROVE  /\ EnqueueTargets(q, id, those) \in Seq(S)
           /\ Elements(q) \subseteq Elements(EnqueueTargets(q, id, those))
           /\ Targets(id) \cap those \subseteq Elements(EnqueueTargets(q, id, those))
<1> DEFINE p == EnqueueTarget(q, id, 1, those)
           r == EnqueueTarget(p, id, 2, those)
<1>1. /\ p \in Seq(S)
      /\ Elements(q) \subseteq Elements(p)
      /\ 1 \in DOMAIN edges[id] /\ edges[id][1] \in those => edges[id][1] \in Elements(p)
    BY TargetAdds
<1> HIDE DEF p
<1>2. /\ r \in Seq(S)
      /\ Elements(p) \subseteq Elements(r)
      /\ 2 \in DOMAIN edges[id] /\ edges[id][2] \in those => edges[id][2] \in Elements(r)
    BY <1>1, TargetAdds
<1>3. r = EnqueueTargets(q, id, those)
    BY DEF EnqueueTargets, p
<1> HIDE DEF r
<1>4. Targets(id) \cap those \subseteq Elements(r)
    BY <1>1, <1>2 DEF Targets
<1> QED BY <1>1, <1>2, <1>3, <1>4

(* A sequence over a set is one over a larger set.                         *)
LEMMA SeqGrows ==
    ASSUME NEW S, NEW T, S \subseteq T, NEW q \in Seq(S)
    PROVE  q \in Seq(T)
OBVIOUS

(* What the head of the queue is, and what is left without it.             *)
LEMMA HeadThere ==
    ASSUME Shape, Working, queue # <<>>
    PROVE  /\ Head(queue) \in reachable /\ Head(queue) \in Ids
           /\ Tail(queue) \in Seq(reachable)
           /\ Targets(Head(queue)) \subseteq Ids \cup {0}
           /\ \A id \in Elements(queue) : id = Head(queue) \/ id \in Elements(Tail(queue))
BY DequeueLoses DEF Shape

-----------------------------------------------------------------------------

(* At the start nothing is built.                                          *)
LEMMA Start == Init => IInv
BY DEF Init, IInv, Shape, Searched, Closed, Filled, Stable, Followed, Working, Solving

(* A graph that stays inside is searched from the body.                    *)
LEMMA BuildKeeps == IInv /\ BuildGraph => IInv'
<1> SUFFICES ASSUME IInv, BuildGraph PROVE IInv'
    OBVIOUS
<1> USE DEF BuildGraph, Goto, run
<1>1. function' = function /\ function \in Functions /\ pc' \in {"reach", "refused"}
    BY DEF IInv, Shape
<1>2. CASE pc' = "refused"
    BY <1>1, <1>2 DEF IInv, Shape, Searched, Closed, Filled, Stable, Followed, Working, Solving
<1>3. CASE pc' = "reach"
    <2>1. /\ BranchesStay(edges')
          /\ reachable' = {function.body}
          /\ queue' = <<function.body>>
        BY <1>3
    <2>2. function.body \in Ids
        BY <1>1, Tree
    <2>3. (\A id \in Ids : ~ Strays(id) /\ Targets(id) \subseteq Ids \cup {0})'
        BY <1>1, <2>1 DEF BranchesStay, Targets, Ids, Strays, Statement
    <2>4. queue' \in Seq(reachable') /\ Ids' = Ids
        <3>1. Ids' = Ids
            BY <1>1 DEF Ids
        <3>2. \A S : \A i \in S : <<i>> \in Seq(S)
            OBVIOUS
        <3> QED BY <2>1, <3>1, <3>2
    <2>5. Shape'
        BY <1>1, <2>1, <2>2, <2>3, <2>4 DEF Shape
    <2>6. Searched'
        BY <2>1 DEF Searched, Elements
    <2> QED BY <1>3, <2>5, <2>6 DEF IInv, Closed, Filled, Stable, Followed, Solving
<1> QED BY <1>1, <1>2, <1>3

(* One step of the search: the head's targets become reachable.            *)
LEMMA ReachKeeps == IInv /\ Reach => IInv'
<1> SUFFICES ASSUME IInv, Reach PROVE IInv'
    OBVIOUS
<1> DEFINE id == Head(queue)
           new == Targets(id) \ reachable
<1>1. /\ UNCHANGED <<function, edges>>
      /\ pc = "reach" /\ queue # <<>>
      /\ Ids' = Ids /\ \A i : Targets(i)' = Targets(i)
    BY DEF Reach, graph, Ids, Targets
<1>2. CASE 0 \in Targets(id)
    <2>1. pc' = "refused"
        BY <1>2 DEF Reach, Goto
    <2> QED BY <1>1, <2>1 DEF IInv, Shape, Searched, Closed, Filled, Stable, Followed,
                              Working, Solving
<1>3. CASE 0 \notin Targets(id)
    <2>1. /\ reachable' = reachable \cup new
          /\ queue' = EnqueueTargets(Tail(queue), id, new)
          /\ pc' = pc
        BY <1>3 DEF Reach
    <2>2. /\ id \in Ids /\ Tail(queue) \in Seq(reachable)
          /\ new \subseteq Ids
          /\ \A i \in Elements(queue) : i = id \/ i \in Elements(Tail(queue))
        BY <1>1, <1>3, HeadThere DEF IInv, Working
    <2>3. /\ queue' \in Seq(reachable')
          /\ Elements(Tail(queue)) \subseteq Elements(queue')
          /\ new \subseteq Elements(queue')
        <3>1. Tail(queue) \in Seq(reachable') /\ new \subseteq reachable'
            BY <2>1, <2>2, SeqGrows
        <3>2. Targets(id) \cap new = new
            OBVIOUS
        <3> HIDE DEF id, new
        <3> QED BY <2>1, <3>1, <3>2, TargetsAdd
    <2>4. Shape'
        BY <1>1, <2>1, <2>2, <2>3 DEF IInv, Shape, Strays, Statement, Working
    <2>5. ASSUME NEW i \in reachable'
          PROVE  i \in Elements(queue') \/ Targets(i) \subseteq reachable'
        <3>1. CASE i \in new
            BY <2>3, <3>1
        <3>2. CASE i = id
            BY <2>1, <3>2
        <3>3. CASE i \in reachable /\ i # id
            BY <1>1, <2>1, <2>2, <2>3, <3>3 DEF IInv, Searched
        <3> QED BY <2>1, <2>5, <3>1, <3>2, <3>3
    <2>6. Searched'
        BY <1>1, <2>5 DEF Searched
    <2> QED BY <1>1, <2>1, <2>4, <2>6 DEF IInv, Closed, Filled, Stable, Followed, Solving
<1> QED BY <1>2, <1>3

(* The search is over: the reachable statements are closed.                *)
LEMMA ReachedKeeps == IInv /\ Reached => IInv'
<1> SUFFICES ASSUME IInv, Reached PROVE IInv'
    OBVIOUS
<1>1. /\ UNCHANGED <<function, edges, reachable, queue>>
      /\ pc = "reach" /\ pc' = "fill" /\ queue = <<>> /\ fill' = 1
      /\ facts' = [id \in Ids |-> IF id = function.body THEN function.entry ELSE Facts]
      /\ Ids' = Ids /\ \A i : Targets(i)' = Targets(i)
    BY DEF Reached, Goto, graph, Ids, Targets
<1>2. function.body \in Ids /\ Len(function.statements) \in Nat /\ Ids = 1 .. Len(function.statements)
    BY Tree DEF IInv, Shape
<1>3. Shape'
    BY <1>1 DEF IInv, Shape, Strays, Statement, Working
<1>4. Closed'
    BY <1>1, <1>2 DEF IInv, Searched, Elements, Closed
<1>5. Filled'
    BY <1>1, <1>2 DEF IInv, Shape, Working, Filled
<1> QED BY <1>1, <1>3, <1>4, <1>5 DEF IInv, Searched, Stable, Followed

(* One statement is queued, or all have been.                              *)
LEMMA FillKeeps == IInv /\ Fill => IInv'
<1> SUFFICES ASSUME IInv, Fill PROVE IInv'
    OBVIOUS
<1>1. /\ UNCHANGED <<function, edges, reachable, facts>>
      /\ pc = "fill"
      /\ Ids' = Ids /\ \A i : Targets(i)' = Targets(i)
    BY DEF Fill, graph, Ids, Targets
<1>2. /\ Len(function.statements) \in Nat /\ Ids = 1 .. Len(function.statements)
      /\ queue \in Seq(reachable) /\ reachable \subseteq Ids
      /\ fill \in 1 .. Len(function.statements) + 1
      /\ \A id \in reachable : id < fill => id \in Elements(queue)
    BY <1>1, FunctionsAssumption DEF IInv, Shape, Ids, Filled, Working
<1>3. CASE fill \in Ids
    <2>1. /\ queue' = IF fill \in reachable THEN Enqueue(queue, fill) ELSE queue
          /\ fill' = fill + 1 /\ pc' = "fill"
        BY <1>1, <1>3 DEF Fill
    <2>2. /\ queue' \in Seq(reachable) /\ Elements(queue) \subseteq Elements(queue')
          /\ fill \in reachable => fill \in Elements(queue')
        <3>1. fill \in reachable =>
                  /\ Enqueue(queue, fill) \in Seq(reachable)
                  /\ Elements(Enqueue(queue, fill)) = Elements(queue) \cup {fill}
            <4>1. queue \in Seq(reachable)
                BY <1>2
            <4> QED BY <4>1, EnqueueAdds
        <3> QED BY <1>2, <2>1, <3>1
    <2>3. Shape'
        BY <1>1, <2>2 DEF IInv, Shape, Strays, Statement, Working
    <2>4. Filled'
        <3>1. ASSUME NEW id \in reachable, id < fill + 1 PROVE id \in Elements(queue')
            BY <1>2, <2>2, <3>1
        <3> QED BY <1>1, <1>2, <1>3, <2>1, <3>1 DEF Filled
    <2> QED BY <1>1, <2>1, <2>3, <2>4 DEF IInv, Searched, Closed, Stable, Followed, Solving
<1>4. CASE fill \notin Ids
    <2>1. queue' = queue /\ pc' = "solve"
        BY <1>4 DEF Fill, Goto
    <2>2. \A id \in reachable : id \in Elements(queue)
        BY <1>2, <1>4
    <2> QED BY <1>1, <2>1, <2>2 DEF IInv, Shape, Strays, Statement, Searched, Closed, Filled, Stable,
                                    Followed, Working, Solving
<1> QED BY <1>3, <1>4

(* One statement is carried over its edges.  The facts only shrink; who    *)
(* loses one is queued again, so that whoever is not in the queue is still *)
(* carried.                                                                *)
LEMMA PropagateKeeps == IInv /\ Propagate => IInv'
<1> SUFFICES ASSUME IInv, Propagate PROVE IInv'
    OBVIOUS
<1> DEFINE id == Head(queue)
           out == After(id, facts[id])
           changed == {t \in Targets(id) : ~ (facts[t] \subseteq out)}
<1>1. /\ UNCHANGED <<function, edges, reachable, pc>>
      /\ pc = "solve" /\ queue # <<>>
      /\ facts' = [t \in Ids |-> IF t \in changed THEN facts[t] \cap out ELSE facts[t]]
      /\ queue' = EnqueueTargets(Tail(queue), id, changed)
      /\ Ids' = Ids /\ \A i : Targets(i)' = Targets(i)
      /\ \A i, F : After(i, F)' = After(i, F')
    BY DEF Propagate, graph, Ids, Targets, After, Statement
<1>2. /\ id \in reachable /\ Tail(queue) \in Seq(reachable)
      /\ \A i \in Elements(queue) : i = id \/ i \in Elements(Tail(queue))
    BY <1>1, HeadThere DEF IInv, Working
<1>3. /\ reachable \subseteq Ids /\ function.body \in reachable
      /\ \A i \in reachable : Targets(i) \subseteq reachable
      /\ facts[function.body] \subseteq function.entry
    BY <1>1 DEF IInv, Shape, Closed, Working, Solving
<1>4. /\ queue' \in Seq(reachable)
      /\ Elements(Tail(queue)) \subseteq Elements(queue')
      /\ changed \subseteq Elements(queue')
    <2>1. changed \subseteq reachable /\ Targets(id) \cap changed = changed
        BY <1>2, <1>3
    <2> HIDE DEF changed
    <2> QED BY <1>1, <1>2, <2>1, TargetsAdd
<1>5. Shape'
    BY <1>1, <1>3, <1>4 DEF IInv, Shape, Strays, Statement, Working
<1>6. ASSUME NEW t \in Ids
      PROVE  /\ facts'[t] \subseteq facts[t]
             /\ t \in Targets(id) => facts'[t] \subseteq out
             /\ t \notin changed => facts'[t] = facts[t]
    <2>1. facts'[t] = IF t \in changed THEN facts[t] \cap out ELSE facts[t]
        BY <1>1
    <2> HIDE DEF out
    <2> QED BY <2>1
<1>7. Closed'
    BY <1>1, <1>3, <1>6 DEF Closed
<1>8. ASSUME NEW i \in reachable'
      PROVE  i \in Elements(queue') \/ Carried(i)'
    <2>1. CASE i \in changed
        BY <1>4, <2>1
    <2>2. CASE i \notin changed /\ i = id
        BY <1>1, <1>2, <1>3, <1>6, <2>2 DEF Carried
    <2>3. CASE i \notin changed /\ i # id
        <3>1. i \in Elements(queue) \/ Carried(i)
            BY <1>1, <1>8 DEF IInv, Stable
        <3> QED BY <1>1, <1>2, <1>3, <1>4, <1>6, <1>8, <2>3, <3>1 DEF Carried
    <2> QED BY <2>1, <2>2, <2>3
<1>9. Stable'
    BY <1>1, <1>8 DEF Stable
<1> QED BY <1>1, <1>5, <1>7, <1>9 DEF IInv, Searched, Filled, Followed

(* With the queue empty the facts are a solution, and the run may start.   *)
LEMMA CheckKeeps == IInv /\ Check => IInv'
<1> SUFFICES ASSUME IInv, Check PROVE IInv'
    OBVIOUS
<1>1. /\ UNCHANGED <<function, edges, reachable, queue, facts>>
      /\ pc = "solve" /\ queue = <<>>
      /\ Ids' = Ids /\ \A i : Targets(i)' = Targets(i)
      /\ \A i, F : After(i, F)' = After(i, F')
    BY DEF Check, graph, solver, Ids, Targets, After, Statement
<1>2. CASE ~ Proven
    BY <1>1, <1>2 DEF Check, Goto, IInv, Shape, Searched, Closed, Filled, Stable, Followed,
                      Working, Solving
<1>3. CASE Proven
    <2>1. pc' = "accepted" /\ at' = function.body /\ holds' = function.entry
        BY <1>3 DEF Check, Goto
    <2>2. Shape' /\ Closed'
        BY <1>1, <2>1 DEF IInv, Shape, Strays, Statement, Closed, Working, Solving
    <2>3. Stable'
        BY <1>1 DEF IInv, Stable, Carried
    <2>4. Proven'
        BY <1>1, <1>3 DEF Proven, Needs, Statement
    <2>5. Followed'
        BY <1>1, <2>1, <2>4 DEF IInv, Shape, Closed, Followed, Working, Solving
    <2> QED BY <2>1, <2>2, <2>3, <2>5 DEF IInv, Searched, Filled
<1> QED BY <1>2, <1>3

(* A step of the run goes to a reachable statement, with no fewer facts    *)
(* than the solution has there.                                            *)
LEMMA RunKeeps == IInv /\ Run => IInv'
<1> SUFFICES ASSUME IInv, Run PROVE IInv'
    OBVIOUS
<1>1. /\ UNCHANGED <<function, edges, reachable, queue, facts, fill, pc>>
      /\ pc = "accepted"
      /\ at' \in Targets(at) /\ holds' = After(at, holds)
      /\ Ids' = Ids /\ \A i : Targets(i)' = Targets(i)
      /\ \A i, F : After(i, F)' = After(i, F')
    BY DEF Run, graph, solver, Ids, Targets, After, Statement
<1>2. /\ at \in reachable /\ queue = <<>> /\ Proven /\ facts[at] \subseteq holds
      /\ at' \in reachable
      /\ Carried(at)
    BY <1>1 DEF IInv, Followed, Closed, Stable, Solving, Elements
<1>3. facts[at'] \subseteq After(at, facts[at])
    BY <1>1, <1>2 DEF Carried
<1>4. After(at, facts[at]) \subseteq After(at, holds)
    BY <1>2, AfterMonotone
<1>5. Proven'
    BY <1>1, <1>2 DEF Proven, Needs, Statement
<1>6. Followed'
    BY <1>1, <1>2, <1>3, <1>4, <1>5 DEF Followed
<1>7. Shape' /\ Closed' /\ Stable'
    BY <1>1 DEF IInv, Shape, Strays, Statement, Closed, Stable, Carried, Working, Solving
<1> QED BY <1>1, <1>6, <1>7 DEF IInv, Searched, Filled

(* What is proved is unchanged where nothing changes.                      *)
LEMMA StutterKeeps == IInv /\ UNCHANGED vars => IInv'
BY DEF IInv, Shape, Strays, Statement, Searched, Closed, Filled, Stable, Carried, Followed, Working, Solving,
       Proven, Needs, After, Statement, Ids, Targets, Elements, vars, graph, solver, run

(* Every step of the analysis keeps the invariant.                         *)
LEMMA StepKeeps == IInv /\ [Next]_vars => IInv'
<1> SUFFICES ASSUME IInv, [Next]_vars PROVE IInv'
    OBVIOUS
<1>1. CASE GiveUp
    BY <1>1 DEF GiveUp, Goto, graph, IInv, Shape, Searched, Closed, Filled, Stable, Followed,
                Working, Solving
<1>2. CASE BuildGraph BY <1>2, BuildKeeps
<1>3. CASE Reach BY <1>3, ReachKeeps
<1>4. CASE Reached BY <1>4, ReachedKeeps
<1>5. CASE Fill BY <1>5, FillKeeps
<1>6. CASE Propagate BY <1>6, PropagateKeeps
<1>7. CASE Check BY <1>7, CheckKeeps
<1>8. CASE Run BY <1>8, RunKeeps
<1>9. CASE UNCHANGED vars BY <1>9, StutterKeeps
<1> QED BY <1>1, <1>2, <1>3, <1>4, <1>5, <1>6, <1>7, <1>8, <1>9 DEF Next, Verify, Stopped

(* What nt_conformance_verify maintains, for any functions and facts.      *)
THEOREM Maintained == Spec => []IInv
<1>1. Init => IInv
    BY Start
<1>2. IInv /\ [Next]_vars => IInv'
    BY StepKeeps
<1> QED BY <1>1, <1>2, PTL DEF Spec

(* Wherever a run of an accepted function is, what the statement there     *)
(* needs holds, and no run returns from a function that never does         *)
(* (nt_conformance_verify returning 1, conformance.c 825-1110).            *)
THEOREM AcceptedRunsDefined == Spec => []RunsDefined
<1>1. IInv => RunsDefined
    BY DEF IInv, Shape, Followed, Proven, RunsDefined, Working
<1> QED BY <1>1, Maintained, PTL

-----------------------------------------------------------------------------
(* Of some statements there is one that is inside none of the others.      *)
LEMMA Outermost ==
    ASSUME function \in Functions, NEW S \in SUBSET Ids, S # {}
    PROVE  \E id \in S : id = function.body \/ Around(id) \in Ids \ S
<1> DEFINE T == {Depth(id) : id \in S}
<1>1. T \in SUBSET Nat /\ T # {}
    BY Tree
<1>2. PICK d \in T : \A e \in T : d <= e
    <2> HIDE DEF T
    <2> QED BY <1>1, LeastNumber
<1>3. PICK id \in S : \A other \in S : Depth(id) <= Depth(other)
    BY <1>2
<1>4. ASSUME id # function.body PROVE Around(id) \in Ids \ S
    <2>1. Around(id) \in Ids /\ Depth(Around(id)) < Depth(id)
        BY <1>4, Tree
    <2>2. Depth(Around(id)) \in Nat /\ Depth(id) \in Nat
        BY <2>1, Tree
    <2> QED BY <1>3, <2>1, <2>2
<1> QED BY <1>4

(* And one that none of the others is inside of.                           *)
LEMMA Innermost ==
    ASSUME function \in Functions, NEW S \in SUBSET Ids, S # {}
    PROVE  \E id \in S : Parts(Statement(id)) \cap S = {}
<1> DEFINE n == Len(function.statements)
           T == {n - Depth(id) : id \in S}
<1>1. n \in Nat /\ \A id \in Ids : Depth(id) \in Nat /\ n - Depth(id) \in Nat
    BY Tree
<1> HIDE DEF n
<1>2. PICK d \in T : \A e \in T : d <= e
    <2>1. T \in SUBSET Nat /\ T # {}
        BY <1>1
    <2> HIDE DEF T
    <2> QED BY <2>1, LeastNumber
<1>3. PICK id \in S : \A other \in S : n - Depth(id) <= n - Depth(other)
    BY <1>2
<1>4. ASSUME NEW part \in Parts(Statement(id)), part \in S PROVE FALSE
    <2>1. Depth(id) < Depth(part)
        BY <1>4, Tree
    <2> QED BY <1>1, <1>3, <1>4, <2>1
<1> QED BY <1>4

-----------------------------------------------------------------------------
(* What follows each statement.                                            *)
Ordered(n) ==
    /\ n \in [Ids -> Nat]
    /\ n[function.body] = 0
    /\ \A id \in Ids : \A c \in Inside(Statement(id), n[id]) : n[c[1]] = c[2]

(* The parts of a statement are those the graph is built from.             *)
LEMMA PartsInside ==
    ASSUME function \in Functions, NEW p \in Ids, NEW next \in Nat
    PROVE  /\ \A c \in Inside(Statement(p), next) :
                  c[1] \in Parts(Statement(p)) /\ c[2] \in Nat /\ c = <<c[1], c[2]>>
           /\ \A id \in Parts(Statement(p)) : \E c \in Inside(Statement(p), next) : c[1] = id
<1> DEFINE s == Statement(p)
<1>1. s \in Statements /\ WellFormed(s)
    BY Tree
<1>2. /\ s.items \in Seq(Nat) /\ s.then \in Nat /\ s.else \in Nat
      /\ \A k \in DOMAIN s.items : s.items[k] \in Nat /\ (k < Len(s.items) => s.items[k + 1] \in Nat)
    <2>1. s.items \in Seq(Nat) /\ s.then \in Nat /\ s.else \in Nat
        BY <1>1 DEF Statements
    <2> QED BY <2>1
<1> HIDE DEF s
<1>3. CASE s.kind = "block"
    <2>1. s.then = 0 /\ s.else = 0
        BY <1>1, <1>3 DEF WellFormed
    <2>2. Inside(s, next) =
            {<<s.items[k], IF k < Len(s.items) THEN s.items[k + 1] ELSE next>> : k \in DOMAIN s.items}
        BY <1>3 DEF Inside
    <2>3. Parts(s) = {s.items[k] : k \in DOMAIN s.items}
        BY <2>1 DEF Parts
    <2>4. ASSUME NEW c \in Inside(s, next)
          PROVE  c[1] \in Parts(s) /\ c[2] \in Nat /\ c = <<c[1], c[2]>>
        <3>1. PICK k \in DOMAIN s.items :
                c = <<s.items[k], IF k < Len(s.items) THEN s.items[k + 1] ELSE next>>
            BY <2>2
        <3>2. c[1] = s.items[k] /\ c[2] = IF k < Len(s.items) THEN s.items[k + 1] ELSE next
            BY <3>1
        <3> QED BY <1>2, <2>3, <3>1, <3>2
    <2>5. ASSUME NEW id \in Parts(s) PROVE \E c \in Inside(s, next) : c[1] = id
        <3>1. PICK k \in DOMAIN s.items : id = s.items[k]
            BY <2>3
        <3>2. <<s.items[k], IF k < Len(s.items) THEN s.items[k + 1] ELSE next>> \in Inside(s, next)
            BY <2>2
        <3> QED BY <3>1, <3>2
    <2> QED BY <2>4, <2>5 DEF s
<1>4. CASE s.kind = "if"
    <2>1. s.items = <<>>
        BY <1>1, <1>4 DEF WellFormed
    <2>2. Inside(s, next) = {<<b, next>> : b \in {s.then, s.else} \ {0}}
        BY <1>4 DEF Inside
    <2>3. Parts(s) = {s.then, s.else} \ {0}
        BY <2>1 DEF Parts
    <2>4. ASSUME NEW c \in Inside(s, next)
          PROVE  c[1] \in Parts(s) /\ c[2] \in Nat /\ c = <<c[1], c[2]>>
        BY <2>2, <2>3
    <2>5. ASSUME NEW id \in Parts(s) PROVE \E c \in Inside(s, next) : c[1] = id
        <3>1. <<id, next>> \in Inside(s, next)
            BY <2>2, <2>3
        <3> QED BY <3>1
    <2> QED BY <2>4, <2>5 DEF s
<1>5. CASE s.kind \notin {"block", "if"}
    <2>1. s.items = <<>> /\ s.then = 0 /\ s.else = 0
        BY <1>1, <1>5 DEF WellFormed
    <2>2. Inside(s, next) = {} /\ Parts(s) = {}
        BY <1>5, <2>1 DEF Inside, Parts
    <2> QED BY <2>2 DEF s
<1> QED BY <1>3, <1>4, <1>5

(* There is one order, and "following" is it.                              *)
LEMMA OneOrder ==
    ASSUME function \in Functions, NEW m, NEW n, Ordered(m), Ordered(n)
    PROVE  m = n
<1> DEFINE S == {id \in Ids : m[id] # n[id]}
<1>1. ASSUME S # {} PROVE FALSE
    <2>1. PICK id \in S : id = function.body \/ Around(id) \in Ids \ S
        BY <1>1, Outermost
    <2>2. id # function.body
        BY <2>1 DEF Ordered
    <2> DEFINE p == Around(id)
    <2>3. p \in Ids /\ m[p] = n[p] /\ id \in Parts(Statement(p)) /\ m[p] \in Nat
        BY <2>1, <2>2, Tree DEF Ordered
    <2>4. PICK c \in Inside(Statement(p), m[p]) : c[1] = id
        BY <2>3, PartsInside
    <2>5. m[id] = c[2] /\ n[id] = c[2]
        BY <2>3, <2>4 DEF Ordered
    <2> QED BY <2>1, <2>5
<1> QED BY <1>1 DEF Ordered

(* One round of "following".                                               *)
FollowingStep(f, id) ==
    IF id = function.body THEN 0
    ELSE LET items == Statement(Around(id)).items
             places == {k \in 1 .. Len(items) - 1 : items[k] = id}
         IN  IF places # {} THEN items[(CHOOSE k \in places : TRUE) + 1]
             ELSE f[Around(id)]

(* The rounds come to an end: from a statement to the one around it.       *)
LEMMA FollowingComputed ==
    ASSUME function \in Functions
    PROVE  following = [id \in Ids |-> FollowingStep(following, id)]
<1> DEFINE Up(k) == {id \in Ids : Depth(id) <= k}
           Solved(k) == \E f : f = [id \in Up(k) |-> FollowingStep(f, id)]
           Unsolved == {k \in Nat : ~ Solved(k)}
           N == Len(function.statements)
<1>1. /\ N \in Nat /\ \A id \in Ids : Depth(id) \in 1 .. N
      /\ \A id \in Ids : id # function.body => Around(id) \in Ids /\ Depth(Around(id)) < Depth(id)
    BY Tree
<1> HIDE DEF N
<1>2. Solved(0)
    <2>1. Up(0) = {}
        BY <1>1
    <2> DEFINE f == [id \in {} |-> 0]
    <2>2. f = [id \in Up(0) |-> FollowingStep(f, id)]
        BY <2>1
    <2> QED BY <2>2
<1>3. ASSUME NEW k \in Nat, Solved(k) PROVE Solved(k + 1)
    <2>1. PICK g : g = [id \in Up(k) |-> FollowingStep(g, id)]
        BY <1>3
    <2> DEFINE f == [id \in Up(k + 1) |-> FollowingStep(g, id)]
    <2>2. \A id \in Up(k) : id \in Up(k + 1)
        BY <1>1
    <2>3. \A id \in Up(k) : f[id] = g[id]
        <3> HIDE DEF FollowingStep, Up
        <3> QED BY <2>1, <2>2
    <2>4. ASSUME NEW id \in Up(k + 1) PROVE FollowingStep(f, id) = FollowingStep(g, id)
        <3>1. CASE id = function.body
            BY <3>1 DEF FollowingStep
        <3>2. CASE id # function.body
            <4>1. Around(id) \in Up(k)
                BY <1>1, <1>3, <3>2
            <4>2. f[Around(id)] = g[Around(id)]
                BY <2>3, <4>1
            <4> HIDE DEF f
            <4> QED BY <4>2 DEF FollowingStep
        <3> QED BY <3>1, <3>2
    <2>5. f = [id \in Up(k + 1) |-> FollowingStep(f, id)]
        <3> HIDE DEF FollowingStep, Up
        <3> QED BY <2>4
    <2> QED BY <2>5
<1>4. Unsolved = {}
    <2> SUFFICES ASSUME Unsolved # {} PROVE FALSE
        OBVIOUS
    <2>1. PICK k \in Unsolved : \A j \in Unsolved : k <= j
        <3> HIDE DEF Solved
        <3> QED BY LeastNumber
    <2> HIDE DEF Solved
    <2>2. k # 0
        BY <1>2, <2>1
    <2>3. k - 1 \in Nat /\ Solved(k - 1)
        BY <2>1, <2>2
    <2>4. Solved((k - 1) + 1)
        BY <1>3, <2>3
    <2> QED BY <2>1, <2>4
<1>5. Up(N) = Ids
    BY <1>1
<1>6. \E f : f = [id \in Ids |-> FollowingStep(f, id)]
    <2>1. Solved(N)
        <3> HIDE DEF Solved
        <3> QED BY <1>1, <1>4
    <2> HIDE DEF Up, FollowingStep
    <2> QED BY <1>5, <2>1
<1>7. following = CHOOSE f : f = [id \in Ids |-> FollowingStep(f, id)]
    BY DEF following, FollowingStep
<1> HIDE DEF FollowingStep
<1> QED BY <1>6, <1>7

(* The order is the one the text gives.                                    *)
LEMMA FollowingOrders ==
    ASSUME function \in Functions
    PROVE  Ordered(following)
<1>1. ASSUME NEW id \in Ids PROVE following[id] = FollowingStep(following, id)
    <2> HIDE DEF FollowingStep
    <2> QED BY FollowingComputed
<1>2. following[function.body] = 0
    BY <1>1, Tree DEF FollowingStep
<1>3. ASSUME NEW p \in Ids, following[p] \in Nat, NEW c \in Inside(Statement(p), following[p])
      PROVE  following[c[1]] = c[2]
    <2> DEFINE s == Statement(p)
               id == c[1]
               places == {k \in 1 .. Len(s.items) - 1 : s.items[k] = id}
    <2>1. id \in Parts(s)
        BY <1>3, PartsInside
    <2>2. id \in Ids /\ id # function.body /\ Around(id) = p
        BY <2>1, Tree
    <2>3. following[id] = IF places # {} THEN s.items[(CHOOSE k \in places : TRUE) + 1]
                          ELSE following[p]
        <3>1. following[id] = FollowingStep(following, id)
            BY <1>1, <2>2
        <3> QED BY <2>2, <3>1, SMTT(30) DEF FollowingStep
    <2>4. s.items \in Seq(Nat) /\ WellFormed(s)
        <3>1. s \in Statements /\ WellFormed(s)
            BY Tree
        <3> QED BY <3>1 DEF Statements
    <2>5. CASE s.kind = "block"
        <3>1. PICK k \in DOMAIN s.items :
                c = <<s.items[k], IF k < Len(s.items) THEN s.items[k + 1] ELSE following[p]>>
            BY <2>5 DEF Inside
        <3>2. /\ id = s.items[k]
              /\ c[2] = IF k < Len(s.items) THEN s.items[k + 1] ELSE following[p]
            BY <3>1
        <3>3. \A j \in DOMAIN s.items : s.items[j] = id => j = k
            BY <2>4, <3>2 DEF WellFormed
        <3>4. k \in 1 .. Len(s.items) /\ DOMAIN s.items = 1 .. Len(s.items) /\ Len(s.items) \in Nat
            BY <2>4
        <3>5. CASE k < Len(s.items)
            <4>1. places = {k}
                BY <3>2, <3>3, <3>4, <3>5
            <4>2. (CHOOSE j \in places : TRUE) = k
                BY <4>1
            <4> HIDE DEF places
            <4> QED BY <2>3, <3>2, <3>5, <4>1, <4>2
        <3>6. CASE ~ (k < Len(s.items))
            <4>1. places = {}
                BY <3>2, <3>3, <3>4, <3>6
            <4> HIDE DEF places
            <4> QED BY <2>3, <3>2, <3>6, <4>1
        <3> QED BY <3>5, <3>6
    <2>6. CASE s.kind # "block"
        <3>1. s.items = <<>>
            BY <2>4, <2>6 DEF WellFormed
        <3>2. places = {}
            BY <3>1
        <3>3. s.kind = "if" /\ c[2] = following[p]
            BY <1>3, <2>6 DEF Inside
        <3> HIDE DEF places
        <3> QED BY <2>3, <3>2, <3>3
    <2> QED BY <2>5, <2>6
<1>4. \A id \in Ids : following[id] \in Nat
    <2> DEFINE S == {id \in Ids : following[id] \notin Nat}
    <2>1. ASSUME S # {} PROVE FALSE
        <3>1. PICK id \in S : id = function.body \/ Around(id) \in Ids \ S
            BY <2>1, Outermost
        <3>2. id # function.body
            BY <1>2, <3>1
        <3> DEFINE p == Around(id)
        <3>3. p \in Ids /\ following[p] \in Nat /\ id \in Parts(Statement(p))
            BY <3>1, <3>2, Tree
        <3>4. PICK c \in Inside(Statement(p), following[p]) : c[1] = id /\ c[2] \in Nat
            BY <3>3, PartsInside
        <3>5. following[id] = c[2]
            BY <1>3, <3>3, <3>4
        <3> QED BY <3>1, <3>4, <3>5
    <2> QED BY <2>1
<1>5. following \in [Ids -> Nat]
    <2>1. following = [id \in Ids |-> following[id]]
        <3> HIDE DEF FollowingStep
        <3> QED BY FollowingComputed
    <2> QED BY <1>4, <2>1
<1> QED BY <1>2, <1>3, <1>4, <1>5 DEF Ordered

-----------------------------------------------------------------------------
(* Of the pairs of a statement and what follows it, those inside a pair.   *)
Pairs == Ids \X Nat
InsidePair(b) == Inside(Statement(b[1]), b[2])
Own(b) == <<b[1], Ways(Statement(b[1]), b[2])>>

(* Everything inside a pair, itself included.                              *)
FullPairs(C) == \A b \in C : InsidePair(b) \subseteq C
Deep(b) == {x \in Pairs : \A C \in SUBSET Pairs : b \in C /\ FullPairs(C) => x \in C}

(* They are pairs again.                                                   *)
LEMMA InsideType ==
    ASSUME function \in Functions, NEW b \in Pairs
    PROVE  InsidePair(b) \subseteq Pairs
<1>1. b[1] \in Ids /\ b[2] \in Nat
    BY DEF Pairs
<1> SUFFICES ASSUME NEW c \in InsidePair(b) PROVE c \in Pairs
    OBVIOUS
<1>2. c[1] \in Parts(Statement(b[1])) /\ c[2] \in Nat /\ c = <<c[1], c[2]>>
    BY <1>1, PartsInside DEF InsidePair
<1>3. c[1] \in Ids
    BY <1>1, <1>2, Tree
<1> QED BY <1>2, <1>3 DEF Pairs

(* What is inside a pair is the pair and what is inside its parts.         *)
LEMMA DeepUnfolds ==
    ASSUME function \in Functions, NEW b \in Pairs
    PROVE  Deep(b) = {b} \cup UNION {Deep(c) : c \in InsidePair(b)}
<1> DEFINE R == {b} \cup UNION {Deep(c) : c \in InsidePair(b)}
<1>1. \A c \in Pairs : Deep(c) \in SUBSET Pairs /\ c \in Deep(c) /\ FullPairs(Deep(c))
    <2> TAKE c \in Pairs
    <2>1. Deep(c) \in SUBSET Pairs /\ c \in Deep(c)
        BY DEF Deep
    <2>2. ASSUME NEW x \in Deep(c), NEW y \in InsidePair(x) PROVE y \in Deep(c)
        <3>1. x \in Pairs
            BY <2>1
        <3>2. y \in Pairs
            BY <3>1, InsideType
        <3> QED BY <3>2 DEF Deep, FullPairs
    <2> QED BY <2>1, <2>2 DEF FullPairs
<1>2. InsidePair(b) \subseteq Pairs
    BY InsideType
<1>3. R \in SUBSET Pairs
    BY <1>1, <1>2
<1>4. FullPairs(R)
    <2>1. ASSUME NEW x \in R, NEW y \in InsidePair(x) PROVE y \in R
        <3>1. CASE x = b
            BY <1>1, <1>2, <2>1, <3>1
        <3>2. ASSUME NEW c \in InsidePair(b), x \in Deep(c) PROVE y \in R
            BY <1>1, <1>2, <2>1, <3>2 DEF FullPairs
        <3> QED BY <2>1, <3>1, <3>2
    <2> QED BY <2>1 DEF FullPairs
<1>5. Deep(b) \subseteq R
    BY <1>3, <1>4 DEF Deep
<1>6. ASSUME NEW c \in InsidePair(b) PROVE Deep(c) \subseteq Deep(b)
    BY <1>6 DEF Deep, FullPairs
<1>7. b \in Deep(b)
    BY <1>1
<1> QED BY <1>5, <1>6, <1>7

(* build computes the pairs inside one, with the edges of each.            *)
BuildStep(f, b) == {Own(b)} \cup UNION {f[c] : c \in InsidePair(b)}

(* The function exists, and is what build stands for.                      *)
LEMMA BuildComputed ==
    ASSUME function \in Functions
    PROVE  build = [b \in Pairs |-> BuildStep(build, b)]
<1> DEFINE f == [b \in Pairs |-> {Own(x) : x \in Deep(b)}]
<1>1. ASSUME NEW b \in Pairs PROVE f[b] = BuildStep(f, b)
    <2>1. Deep(b) = {b} \cup UNION {Deep(c) : c \in InsidePair(b)}
        BY DeepUnfolds
    <2>2. \A c \in InsidePair(b) : f[c] = {Own(x) : x \in Deep(c)}
        BY InsideType
    <2> HIDE DEF f
    <2>3. UNION {f[c] : c \in InsidePair(b)} = {Own(x) : x \in UNION {Deep(c) : c \in InsidePair(b)}}
        BY <2>2
    <2>4. f[b] = {Own(x) : x \in Deep(b)}
        BY DEF f
    <2> QED BY <2>1, <2>3, <2>4 DEF BuildStep
<1>2. f = [b \in Pairs |-> BuildStep(f, b)]
    <2> HIDE DEF BuildStep
    <2> QED BY <1>1
<1>3. \E g : g = [b \in Pairs |-> BuildStep(g, b)]
    <2> HIDE DEF BuildStep, f
    <2> QED BY <1>2
<1>4. build = CHOOSE g : g = [b \in Pairs |-> BuildStep(g, b)]
    BY DEF build, BuildStep, Own, InsidePair, Pairs
<1> HIDE DEF BuildStep
<1> QED BY <1>3, <1>4

(* A part of a statement is inside its pair, with what follows it.         *)
LEMMA PairInside ==
    ASSUME function \in Functions, NEW n, Ordered(n),
           NEW p \in Ids, NEW id \in Parts(Statement(p))
    PROVE  <<id, n[id]>> \in InsidePair(<<p, n[p]>>)
<1>1. n[p] \in Nat
    BY DEF Ordered
<1>2. PICK c \in Inside(Statement(p), n[p]) : c[1] = id /\ c = <<c[1], c[2]>>
    BY <1>1, PartsInside
<1>3. n[id] = c[2]
    BY <1>2 DEF Ordered
<1>4. <<id, n[id]>> \in Inside(Statement(p), n[p])
    BY <1>2, <1>3
<1> QED BY <1>4 DEF InsidePair

(* build finds every statement once, with what follows it.                 *)
LEMMA BuildOrdered ==
    ASSUME function \in Functions, NEW n, Ordered(n)
    PROVE  Build = {<<id, Ways(Statement(id), n[id])>> : id \in Ids}
<1> DEFINE P(id) == <<id, n[id]>>
           All == {Own(P(id)) : id \in Ids}
<1>1. ASSUME NEW b \in Pairs PROVE build[b] = {Own(b)} \cup UNION {build[c] : c \in InsidePair(b)}
    <2>1. build[b] = BuildStep(build, b)
        <3> HIDE DEF BuildStep
        <3> QED BY BuildComputed
    <2> QED BY <2>1 DEF BuildStep
<1>2. \A id \in Ids : P(id) \in Pairs
    BY DEF Ordered, Pairs
<1>3. \A id \in Ids : \A c \in InsidePair(P(id)) : c[1] \in Parts(Statement(id)) /\ c = P(c[1])
    <2> TAKE id \in Ids
    <2> TAKE c \in InsidePair(P(id))
    <2>1. c \in Inside(Statement(id), n[id]) /\ n[id] \in Nat
        BY DEF InsidePair, Ordered
    <2>2. c[1] \in Parts(Statement(id)) /\ c = <<c[1], c[2]>> /\ n[c[1]] = c[2]
        BY <2>1, PartsInside DEF Ordered
    <2> QED BY <2>2
<1>4. \A id \in Ids : build[P(id)] \subseteq All
    <2> DEFINE S == {id \in Ids : ~ (build[P(id)] \subseteq All)}
    <2>1. ASSUME S # {} PROVE FALSE
        <3>1. PICK id \in S : Parts(Statement(id)) \cap S = {}
            BY <2>1, Innermost
        <3>2. \A c \in InsidePair(P(id)) : build[c] \subseteq All
            <4> TAKE c \in InsidePair(P(id))
            <4>1. c[1] \in Parts(Statement(id)) /\ c = P(c[1]) /\ c[1] \in Ids
                BY <1>3, Tree
            <4> HIDE DEF P, All
            <4> QED BY <3>1, <4>1
        <3>3. build[P(id)] = {Own(P(id))} \cup UNION {build[c] : c \in InsidePair(P(id))}
            BY <1>1, <1>2
        <3> HIDE DEF P
        <3>4. Own(P(id)) \in All
            OBVIOUS
        <3> QED BY <3>1, <3>2, <3>3, <3>4
    <2> QED BY <2>1
<1>5. \A id \in Ids : build[P(id)] \subseteq build[P(function.body)]
    <2> DEFINE S == {id \in Ids : ~ (build[P(id)] \subseteq build[P(function.body)])}
    <2>1. ASSUME S # {} PROVE FALSE
        <3>1. PICK id \in S : id = function.body \/ Around(id) \in Ids \ S
            BY <2>1, Outermost
        <3>2. CASE id = function.body
            BY <3>1, <3>2
        <3>3. CASE id # function.body
            <4> DEFINE p == Around(id)
            <4>1. p \in Ids /\ id \in Parts(Statement(p)) /\ build[P(p)] \subseteq build[P(function.body)]
                BY <3>1, <3>3, Tree
            <4>2. P(id) \in InsidePair(P(p))
                BY <4>1, PairInside
            <4>3. build[P(p)] = {Own(P(p))} \cup UNION {build[c] : c \in InsidePair(P(p))}
                BY <1>1, <1>2, <4>1
            <4> HIDE DEF P
            <4> QED BY <3>1, <4>1, <4>2, <4>3
        <3> QED BY <3>2, <3>3
    <2> QED BY <2>1
<1>6. \A id \in Ids : Own(P(id)) \in build[P(id)]
    BY <1>1, <1>2
<1>7. Build = build[P(function.body)] /\ function.body \in Ids
    BY Tree DEF Build, Ordered
<1>8. Build = All
    BY <1>4, <1>5, <1>6, <1>7
<1> QED BY <1>8 DEF Own

(* So a statement has the ways on that its place gives it.                 *)
LEMMA EdgesOrdered ==
    ASSUME function \in Functions, NEW n, Ordered(n)
    PROVE  Edges = [id \in Ids |-> Ways(Statement(id), n[id])]
<1> DEFINE W(id) == Ways(Statement(id), n[id])
<1>1. Build = {<<id, W(id)>> : id \in Ids}
    BY BuildOrdered
<1> HIDE DEF W
<1>2. ASSUME NEW id \in Ids
      PROVE  (CHOOSE e \in {b[2] : b \in Build} : <<id, e>> \in Build) = W(id)
    <2>1. <<id, W(id)>> \in Build /\ W(id) \in {b[2] : b \in Build}
        <3>1. <<id, W(id)>> \in Build
            BY <1>1
        <3>2. <<id, W(id)>>[2] = W(id)
            OBVIOUS
        <3> QED BY <3>1, <3>2, Zenon
    <2>2. ASSUME NEW e, <<id, e>> \in Build PROVE e = W(id)
        <3>1. \E j \in Ids : <<id, e>> = <<j, W(j)>>
            BY <1>1, <2>2
        <3>2. PICK j \in Ids : <<id, e>> = <<j, W(j)>>
            BY <3>1
        <3>3. id = j /\ e = W(j)
            BY <3>2
        <3> QED BY <3>3
    <2> QED BY <2>1, <2>2
<1> QED BY <1>2 DEF Edges, W

(* These are the ways a path through the text can take.                    *)
LEMMA WaysOnward ==
    ASSUME function \in Functions, NEW id \in Ids
    PROVE  /\ DOMAIN Ways(Statement(id), following[id]) \subseteq {1, 2}
           /\ {Ways(Statement(id), following[id])[k] : k \in DOMAIN Ways(Statement(id), following[id])}
                = Onward(id)
<1> DEFINE s == Statement(id)
           next == following[id]
           w == Ways(s, next)
           E(q) == {q[k] : k \in DOMAIN q}
<1>1. WellFormed(s)
    BY Tree
<1> HIDE DEF s, next
<1>2. /\ E(<<>>) = {} /\ DOMAIN <<>> = {}
      /\ \A a : E(<<a>>) = {a} /\ DOMAIN <<a>> = {1}
      /\ \A a, b : E(<<a, b>>) = {a, b} /\ DOMAIN <<a, b>> = {1, 2}
    OBVIOUS
<1> HIDE DEF E
<1>3. DOMAIN w \subseteq {1, 2} /\ E(w) = Onward(id)
    <2>1. CASE s.kind = "block"
        <3> DEFINE first == IF s.items = <<>> THEN next ELSE s.items[1]
        <3>1. w = <<first>>
            BY <1>1, <2>1 DEF Ways, WellFormed
        <3>2. Onward(id) = {first}
            BY <1>1, <2>1 DEF Onward, WellFormed, s, next
        <3> QED BY <1>2, <3>1, <3>2
    <2>2. CASE s.kind = "return"
        <3>1. w = <<>>
            BY <1>1, <2>2 DEF Ways, WellFormed
        <3>2. Onward(id) = {}
            BY <1>1, <2>2 DEF Onward, WellFormed, s
        <3> QED BY <1>2, <3>1, <3>2
    <2>3. CASE s.kind = "if"
        <3> DEFINE otherwise == IF s.else = 0 THEN next ELSE s.else
        <3>1. w = CASE s.literal = "true" -> <<s.then>>
                    [] s.literal = "false" -> <<otherwise>>
                    [] OTHER -> <<s.then, otherwise>>
            BY <1>1, <2>3 DEF Ways, WellFormed
        <3>2. Onward(id) = (IF s.literal = "false" THEN {} ELSE {s.then}) \cup
                           (IF s.literal = "true" THEN {} ELSE {otherwise})
            <4>1. ~ s.terminal
                BY <1>1, <2>3 DEF WellFormed
            <4> QED BY <1>1, <2>3, <4>1 DEF Onward, WellFormed, s, next
        <3> HIDE DEF otherwise, w
        <3>3. CASE s.literal = "true"
            BY <1>2, <3>1, <3>2, <3>3
        <3>4. CASE s.literal = "false"
            BY <1>2, <3>1, <3>2, <3>4
        <3>5. CASE s.literal \notin {"true", "false"}
            <4>1. w = <<s.then, otherwise>>
                BY <3>1, <3>5
            <4>2. Onward(id) = {s.then, otherwise}
                BY <3>2, <3>5
            <4> QED BY <1>2, <4>1, <4>2
        <3> QED BY <3>3, <3>4, <3>5
    <2>4. CASE s.kind \notin {"block", "return", "if"}
        <3>1. w = CASE s.jump = "always" -> <<s.target>>
                    [] s.jump = "conditional" -> <<s.target, next>>
                    [] OTHER -> IF s.terminal THEN <<>> ELSE <<next>>
            BY <2>4 DEF Ways
        <3>2. s.terminal => s.jump = "never"
            BY <1>1 DEF WellFormed
        <3>3. Onward(id) = CASE s.terminal -> {}
                             [] s.jump = "always" -> {s.target}
                             [] s.jump = "conditional" -> {s.target, next}
                             [] OTHER -> {next}
            BY <1>1, <2>4 DEF Onward, WellFormed, s, next
        <3> HIDE DEF w
        <3>4. CASE s.terminal
            BY <1>2, <3>1, <3>2, <3>3, <3>4
        <3>5. CASE ~ s.terminal
            <4>1. CASE s.jump = "always"
                BY <1>2, <3>1, <3>3, <3>5, <4>1
            <4>2. CASE s.jump = "conditional"
                BY <1>2, <3>1, <3>3, <3>5, <4>2
            <4>3. CASE s.jump \notin {"always", "conditional"}
                BY <1>2, <3>1, <3>3, <3>5, <4>3
            <4> QED BY <4>1, <4>2, <4>3
        <3> QED BY <3>4, <3>5
    <2> QED BY <2>1, <2>2, <2>3, <2>4
<1> QED BY <1>3 DEF s, next, E

-----------------------------------------------------------------------------
(* What holds after a statement is facts.                                  *)
LEMMA AfterFacts ==
    ASSUME function \in Functions, NEW id \in Ids, NEW F \in SUBSET Facts
    PROVE  After(id, F) \in SUBSET Facts
<1>1. Statement(id) \in Statements
    BY Tree
<1>2. Statement(id).makes \in SUBSET Facts /\ Statement(id).copies \in SUBSET (Facts \X Facts)
    BY <1>1 DEF Statements
<1> QED BY <1>2 DEF After

(* One more statement adds places, and more to more.                       *)
LEMMA FurtherGrows ==
    ASSUME function \in Functions, NEW S \in SUBSET Places
    PROVE  /\ Further(S) \in SUBSET Places
           /\ S \subseteq Further(S)
           /\ \A C : S \subseteq C => Further(S) \subseteq Further(C)
<1>1. ASSUME NEW s \in S, NEW id \in Onward(s[1]) \cap Ids
      PROVE  <<id, After(s[1], s[2])>> \in Places
    <2>1. s[1] \in Ids /\ s[2] \in SUBSET Facts
        BY DEF Places
    <2>2. After(s[1], s[2]) \in SUBSET Facts
        BY <2>1, AfterFacts
    <2> QED BY <2>2 DEF Places
<1>2. Further(S) \in SUBSET Places
    BY <1>1 DEF Further
<1>3. S \subseteq Further(S)
    BY DEF Further
<1>4. ASSUME NEW C, S \subseteq C PROVE Further(S) \subseteq Further(C)
    BY <1>4 DEF Further
<1> QED BY <1>2, <1>3, <1>4

(* The places that must be added to S until nothing is added.              *)
Least(S) == {x \in Places : \A C \in SUBSET Places : S \subseteq C /\ Further(C) = C => x \in C}

(* They do not change when one more statement is taken.                    *)
LEMMA LeastGrows ==
    ASSUME function \in Functions, NEW S \in SUBSET Places
    PROVE  /\ Least(S) \in SUBSET Places /\ S \subseteq Least(S)
           /\ Least(Further(S)) = Least(S)
           /\ Further(S) = S => Least(S) = S
           /\ Further(Least(S)) = Least(S)
<1>1. Least(S) \in SUBSET Places /\ S \subseteq Least(S)
    BY DEF Least
<1>2. ASSUME NEW C \in SUBSET Places, Further(C) = C
      PROVE  S \subseteq C <=> Further(S) \subseteq C
    <2>1. S \subseteq Further(S) /\ (S \subseteq C => Further(S) \subseteq Further(C))
        BY FurtherGrows
    <2> QED BY <1>2, <2>1
<1>3. Least(Further(S)) = Least(S)
    BY <1>2 DEF Least
<1>4. Further(S) = S => Least(S) = S
    BY <1>1 DEF Least
<1>5. Further(Least(S)) = Least(S)
    <2>1. Further(Least(S)) \in SUBSET Places /\ Least(S) \subseteq Further(Least(S))
        BY <1>1, FurtherGrows
    <2>2. ASSUME NEW C \in SUBSET Places, S \subseteq C, Further(C) = C
          PROVE  Further(Least(S)) \subseteq C
        <3>1. Least(S) \subseteq C
            BY <2>2 DEF Least
        <3>2. Further(Least(S)) \subseteq Further(C)
            BY <1>1, <3>1, FurtherGrows
        <3> QED BY <2>2, <3>2
    <2>3. Further(Least(S)) \subseteq Least(S)
        <3> SUFFICES ASSUME NEW x \in Further(Least(S)) PROVE x \in Least(S)
            OBVIOUS
        <3>1. x \in Places
            BY <2>1
        <3>2. \A C \in SUBSET Places : S \subseteq C /\ Further(C) = C => x \in C
            BY <2>2
        <3> QED BY <3>1, <3>2 DEF Least
    <2> QED BY <2>1, <2>3
<1> QED BY <1>1, <1>3, <1>4, <1>5

(* There are only so many places.                                          *)
LEMMA PlacesFinite ==
    ASSUME function \in Functions
    PROVE  IsFiniteSet(Places)
<1>1. IsFiniteSet(Ids)
    BY Tree, FS_Interval
<1>2. IsFiniteSet(SUBSET Facts)
    BY FactsAssumption, FS_SUBSET
<1> QED BY <1>1, <1>2, FS_Product DEF Places

(* The search ends, with just the places on a path.                        *)
LEMMA GrownLeast ==
    ASSUME function \in Functions
    PROVE  \A S \in SUBSET Places : grown[S] = Least(S)
<1> DEFINE Round(g, S) == IF Further(S) = S THEN S ELSE g[Further(S)]
           l == [S \in SUBSET Places |-> Least(S)]
<1>1. \A S \in SUBSET Places : l[S] = Round(l, S)
    <2> TAKE S \in SUBSET Places
    <2>1. Further(S) \in SUBSET Places
        BY FurtherGrows
    <2>2. Least(Further(S)) = Least(S) /\ (Further(S) = S => Least(S) = S)
        BY LeastGrows
    <2>3. l[S] = Least(S) /\ l[Further(S)] = Least(Further(S))
        BY <2>1
    <2> QED BY <2>2, <2>3
<1>2. l = [S \in SUBSET Places |-> Round(l, S)]
    <2> HIDE DEF Round
    <2> QED BY <1>1
<1>3. \E g : g = [S \in SUBSET Places |-> Round(g, S)]
    <2> HIDE DEF Round, l
    <2> QED BY <1>2
<1>4. grown = CHOOSE g : g = [S \in SUBSET Places |-> Round(g, S)]
    BY DEF grown
<1>5. grown = [S \in SUBSET Places |-> Round(grown, S)]
    <2> HIDE DEF Round
    <2> QED BY <1>3, <1>4
<1>6. \A S \in SUBSET Places : grown[S] = Round(grown, S)
    <2> HIDE DEF Round
    <2> QED BY <1>5
<1> DEFINE Left(S) == Cardinality(Places \ S)
           Wrong == {S \in SUBSET Places : grown[S] # Least(S)}
           T == {Left(S) : S \in Wrong}
<1>7. \A S \in SUBSET Places : IsFiniteSet(Places \ S) /\ Left(S) \in Nat
    BY PlacesFinite, FS_Subset, FS_CardinalityType
<1>8. ASSUME NEW S \in SUBSET Places, NEW R \in SUBSET Places, S \subseteq R, S # R
      PROVE  Left(R) < Left(S)
    <2>1. Places \ R \in SUBSET (Places \ S) /\ Places \ R # Places \ S
        BY <1>8
    <2>2. Left(R) <= Left(S) /\ Left(R) # Left(S)
        BY <1>7, <2>1, FS_Subset
    <2> QED BY <1>7, <2>2
<1> HIDE DEF Left
<1>9. ASSUME Wrong # {} PROVE FALSE
    <2>1. T \in SUBSET Nat /\ T # {}
        BY <1>7, <1>9
    <2>2. PICK d \in T : \A e \in T : d <= e
        <3> HIDE DEF T
        <3> QED BY <2>1, LeastNumber
    <2>3. PICK S \in Wrong : \A R \in Wrong : Left(S) <= Left(R)
        BY <2>2
    <2>4. S \in SUBSET Places /\ grown[S] # Least(S)
        BY <2>3
    <2>5. grown[S] = Round(grown, S)
        <3> HIDE DEF Round
        <3> QED BY <1>6, <2>4
    <2>6. CASE Further(S) = S
        BY <2>4, <2>5, <2>6, LeastGrows
    <2>7. CASE Further(S) # S
        <3>1. Further(S) \in SUBSET Places /\ S \subseteq Further(S)
            BY <2>4, FurtherGrows
        <3>2. Left(Further(S)) < Left(S)
            BY <1>8, <2>4, <2>7, <3>1
        <3>3. Left(S) \in Nat /\ Left(Further(S)) \in Nat
            BY <1>7, <2>4, <3>1
        <3>4. Further(S) \notin Wrong
            BY <2>3, <3>2, <3>3
        <3>5. grown[Further(S)] = Least(Further(S))
            BY <3>1, <3>4
        <3> QED BY <2>4, <2>5, <2>7, <3>5, LeastGrows
    <2> QED BY <2>6, <2>7
<1> QED BY <1>9

(* A set of places that has the entry and all that one more statement      *)
(* gives.                                                                  *)
EntryPlace == <<function.body, function.entry>>
Follows(C) == \A s \in C : \A id \in Onward(s[1]) \cap Ids : <<id, After(s[1], s[2])>> \in C

(* The search finds the least of them.                                     *)
LEMMA OnPathsLeast ==
    ASSUME function \in Functions
    PROVE  /\ OnPaths \in SUBSET Places
           /\ EntryPlace \in OnPaths
           /\ Follows(OnPaths)
           /\ \A C \in SUBSET Places : EntryPlace \in C /\ Follows(C) => OnPaths \subseteq C
<1>1. {EntryPlace} \in SUBSET Places
    BY Tree DEF Places, EntryPlace
<1>2. OnPaths = Least({EntryPlace})
    BY <1>1, GrownLeast DEF OnPaths, EntryPlace
<1>3. Follows(OnPaths)
    <2>1. Further(OnPaths) = OnPaths
        BY <1>1, <1>2, LeastGrows
    <2> QED BY <2>1 DEF Further, Follows
<1>4. ASSUME NEW C \in SUBSET Places, EntryPlace \in C, Follows(C)
      PROVE  OnPaths \subseteq C
    <2>1. Further(C) = C
        BY <1>4 DEF Further, Follows
    <2> QED BY <1>2, <1>4, <2>1 DEF Least
<1> QED BY <1>1, <1>2, <1>3, <1>4, LeastGrows

-----------------------------------------------------------------------------
(* The verdict.  While it is not reached, whoever is taken to be reachable *)
(* is on a path and whatever is taken away from a statement is missing on  *)
(* a path to it.                                                           *)

(* The graph is the one of the text.                                       *)
Built ==
    pc \notin {"build", "gave up"} =>
        \E n : Ordered(n) /\ edges = [id \in Ids |-> Ways(Statement(id), n[id])]

(* A set of places that has all the paths of the graph.                    *)
Roams(C) ==
    /\ EntryPlace \in C
    /\ \A s \in C : \A id \in Targets(s[1]) \cap Ids : <<id, After(s[1], s[2])>> \in C

Found ==
    Working => \A C : Roams(C) => \A id \in reachable : \E F : <<id, F>> \in C

Lost ==
    Solving => \A C : Roams(C) =>
                  \A id \in reachable : \A x \in Facts \ facts[id] :
                      \E F : <<id, F>> \in C /\ x \notin F

BadAt(s) ==
    \/ ~ (Needs(s[1]) \subseteq s[2])
    \/ 0 \in Targets(s[1])
    \/ function.never /\ Statement(s[1]).kind = "return"

Refusal ==
    pc = "refused" => \/ \E id \in Ids : Strays(id) \/ ~ (Targets(id) \subseteq Ids \cup {0})
                      \/ \A C : Roams(C) => \E s \in C : BadAt(s)

Exact == Built /\ Found /\ Lost /\ Refusal

(* What the graph and the function say stays as they do.                   *)
LEMMA GraphSame ==
    ASSUME UNCHANGED <<function, edges>>
    PROVE  /\ Ids' = Ids
           /\ \A id : Targets(id)' = Targets(id) /\ (Strays(id)' <=> Strays(id))
           /\ \A C : Roams(C)' <=> Roams(C)
           /\ \A s : BadAt(s)' <=> BadAt(s)
           /\ pc \notin {"build", "gave up"} /\ Built => Built'
<1>1. /\ Ids' = Ids
      /\ \A id : Targets(id)' = Targets(id)
      /\ \A id : Statement(id)' = Statement(id) /\ Needs(id)' = Needs(id)
      /\ \A id, F : After(id, F)' = After(id, F)
      /\ \A id : Strays(id)' <=> Strays(id)
    BY DEF Ids, Targets, Statement, Needs, After, Strays
<1>2. \A C : Roams(C)' <=> Roams(C)
    BY <1>1 DEF Roams, EntryPlace
<1>3. \A s : BadAt(s)' <=> BadAt(s)
    BY <1>1 DEF BadAt
<1>4. pc \notin {"build", "gave up"} /\ Built => Built'
    <2> SUFFICES ASSUME pc \notin {"build", "gave up"}, Built PROVE Built'
        OBVIOUS
    <2>1. PICK n : Ordered(n) /\ edges = [id \in Ids |-> Ways(Statement(id), n[id])]
        BY DEF Built
    <2>2. Ordered(n)'
        BY <1>1, <2>1 DEF Ordered
    <2>3. (edges = [id \in Ids |-> Ways(Statement(id), n[id])])'
        BY <1>1, <2>1
    <2> QED BY <2>2, <2>3 DEF Built
<1> QED BY <1>1, <1>2, <1>3, <1>4

(* The ways on in the graph are those in the text.                         *)
LEMMA TargetsOnward ==
    ASSUME function \in Functions, NEW n, Ordered(n),
           edges = [id \in Ids |-> Ways(Statement(id), n[id])], NEW id \in Ids
    PROVE  Targets(id) = Onward(id) /\ DOMAIN edges[id] \subseteq {1, 2}
<1>1. n = following
    BY FollowingOrders, OneOrder
<1>2. edges[id] = Ways(Statement(id), following[id])
    BY <1>1
<1>3. /\ DOMAIN edges[id] \subseteq {1, 2}
      /\ {edges[id][k] : k \in DOMAIN edges[id]} = Onward(id)
    BY <1>2, WaysOnward
<1> QED BY <1>3 DEF Targets

(* A fact that is missing after a statement is missing for one reason: the *)
(* statement never makes it, or another was missing before.                *)
LEMMA LostForAReason ==
    ASSUME function \in Functions, NEW id \in Ids, NEW x \in Facts, NEW G, x \notin After(id, G)
    PROVE  \/ \A F : x \notin After(id, F)
           \/ \E y \in Facts : y \notin G /\ \A F : y \notin F => x \notin After(id, F)
<1> DEFINE s == Statement(id)
<1>1. s \in Statements /\ MovesOverwrite(s)
    BY Tree
<1>2. s.copies \in SUBSET (Facts \X Facts)
    BY <1>1 DEF Statements
<1>3. \A F : x \in After(id, F) <=> \/ x \in F /\ x \notin s.kills
                                    \/ x \in s.makes
                                    \/ \E c \in s.copies : c[1] \in F /\ x = c[2]
    BY DEF After
<1> HIDE DEF s
<1>4. CASE \E c \in s.copies : x = c[2]
    <2>1. PICK c \in s.copies : x = c[2]
        BY <1>4
    <2>2. c[1] \in Facts /\ x \in s.kills /\ \A d \in s.copies : x = d[2] => d = c
        BY <1>1, <1>2, <2>1 DEF MovesOverwrite
    <2>3. c[1] \notin G
        BY <1>3, <2>1
    <2>4. ASSUME NEW F, c[1] \notin F PROVE x \notin After(id, F)
        <3>1. x \notin s.makes
            BY <1>3
        <3> QED BY <1>3, <2>2, <2>4, <3>1
    <2> QED BY <2>2, <2>3, <2>4
<1>5. CASE ~ \E c \in s.copies : x = c[2]
    BY <1>3, <1>5
<1> QED BY <1>4, <1>5

(* Building the graph finds it, or a jump that leaves the function.        *)
LEMMA BuildExact == IInv /\ Exact /\ BuildGraph => Exact'
<1> SUFFICES ASSUME IInv, Exact, BuildGraph PROVE Exact'
    OBVIOUS
<1>1. /\ function \in Functions /\ function' = function /\ edges' = Edges
      /\ pc' = (IF BranchesStay(Edges) THEN "reach" ELSE "refused")
      /\ BranchesStay(Edges) => reachable' = {function.body}
    BY DEF BuildGraph, Goto, IInv, Shape
<1>2. PICK n : n = following
    OBVIOUS
<1>3. Ordered(n) /\ Edges = [id \in Ids |-> Ways(Statement(id), n[id])]
    BY <1>1, <1>2, FollowingOrders, EdgesOrdered
<1>4. /\ Ids' = Ids /\ \A id : Statement(id)' = Statement(id)
      /\ (Ordered(n))'
    BY <1>1, <1>3 DEF Ids, Statement, Ordered
<1>5. Built'
    BY <1>1, <1>3, <1>4 DEF Built
<1>6. Found'
    BY <1>1 DEF Found, Working, Roams, EntryPlace
<1>7. Refusal'
    <2> SUFFICES ASSUME pc' = "refused", \A id \in Ids : ~ Strays(id)
                 PROVE  \E id \in Ids : ~ (Targets(id)' \subseteq Ids \cup {0})
        BY <1>4 DEF Refusal, Strays
    <2>1. PICK id \in Ids : \E k \in DOMAIN Edges[id] : Edges[id][k] \notin Ids \cup {0}
        <3>1. ~ BranchesStay(Edges)
            BY <1>1
        <3> QED BY <3>1, Zenon DEF BranchesStay
    <2>2. DOMAIN Edges[id] \subseteq {1, 2}
        BY <1>1, <1>2, <1>3, WaysOnward
    <2>3. PICK k \in DOMAIN Edges[id] : Edges[id][k] \notin Ids \cup {0}
        BY <2>1
    <2>4. Edges[id][k] \in Targets(id)'
        BY <1>1, <2>2, <2>3 DEF Targets
    <2> QED BY <2>3, <2>4
<1> QED BY <1>1, <1>5, <1>6, <1>7 DEF Exact, Lost, Solving

(* A statement that is reached is the next one of a path.                  *)
LEMMA ReachExact == IInv /\ Exact /\ Reach => Exact'
<1> SUFFICES ASSUME IInv, Exact, Reach PROVE Exact'
    OBVIOUS
<1> DEFINE id == Head(queue)
<1>1. /\ UNCHANGED <<function, edges>>
      /\ pc = "reach" /\ queue # <<>>
      /\ IF 0 \in Targets(id) THEN pc' = "refused" /\ UNCHANGED reachable
         ELSE pc' = "reach" /\ reachable' = reachable \cup (Targets(id) \ reachable)
    BY DEF Reach, graph, Goto
<1>2. id \in reachable /\ id \in Ids /\ Targets(id) \subseteq Ids \cup {0}
    BY <1>1, HeadThere DEF IInv, Working
<1> HIDE DEF id
<1>3. Built'
    BY <1>1, GraphSame DEF Exact
<1>4. \A C : Roams(C) => \A i \in reachable : \E F : <<i, F>> \in C
    BY <1>1 DEF Exact, Found, Working
<1>5. Found'
    <2> SUFFICES ASSUME pc' = "reach", NEW C, Roams(C), NEW i \in reachable' PROVE \E F : <<i, F>> \in C
        BY <1>1, GraphSame DEF Found, Working
    <2>1. CASE i \in reachable
        BY <1>4, <2>1
    <2>2. CASE i \in Targets(id) \ reachable
        <3>1. PICK F : <<id, F>> \in C
            BY <1>2, <1>4
        <3>2. i \in Targets(id) \cap Ids
            BY <1>1, <1>2, <2>2
        <3>3. <<i, After(id, F)>> \in C
            BY <3>1, <3>2 DEF Roams
        <3> QED BY <3>3
    <2> QED BY <1>1, <2>1, <2>2
<1>6. Refusal'
    <2> SUFFICES ASSUME pc' = "refused", NEW C, Roams(C) PROVE \E s \in C : BadAt(s)
        BY <1>1, GraphSame DEF Refusal
    <2>1. 0 \in Targets(id)
        BY <1>1
    <2>2. PICK F : <<id, F>> \in C
        BY <1>2, <1>4
    <2>3. BadAt(<<id, F>>)
        BY <2>1 DEF BadAt
    <2> QED BY <2>2, <2>3
<1>7. Lost'
    BY <1>1 DEF Lost, Solving
<1> QED BY <1>3, <1>5, <1>6, <1>7 DEF Exact

(* Only the entry starts with less than all facts: what the caller gives.  *)
LEMMA ReachedExact == IInv /\ Exact /\ Reached => Exact'
<1> SUFFICES ASSUME IInv, Exact, Reached PROVE Exact'
    OBVIOUS
<1>1. /\ UNCHANGED <<function, edges, reachable>>
      /\ pc = "reach" /\ pc' = "fill"
      /\ facts' = [id \in Ids |-> IF id = function.body THEN function.entry ELSE Facts]
      /\ reachable \subseteq Ids
    BY DEF Reached, graph, Goto, IInv, Shape, Working
<1>2. Built' /\ Found'
    BY <1>1, GraphSame DEF Exact, Found, Working
<1>3. Lost'
    <2> SUFFICES ASSUME NEW C, Roams(C), NEW id \in reachable, NEW x \in Facts \ facts'[id]
                 PROVE  \E F : <<id, F>> \in C /\ x \notin F
        BY <1>1, GraphSame DEF Lost
    <2>1. id = function.body /\ x \notin function.entry
        BY <1>1
    <2> QED BY <2>1 DEF Roams, EntryPlace
<1> QED BY <1>1, <1>2, <1>3 DEF Exact, Refusal

(* Filling the queue takes no fact away.                                   *)
LEMMA FillExact == IInv /\ Exact /\ Fill => Exact'
<1> SUFFICES ASSUME IInv, Exact, Fill PROVE Exact'
    OBVIOUS
<1>1. /\ UNCHANGED <<function, edges, reachable, facts>>
      /\ pc = "fill" /\ pc' \in {"fill", "solve"}
    BY DEF Fill, graph, Goto
<1>2. Built' /\ Found' /\ Lost'
    BY <1>1, GraphSame DEF Exact, Found, Lost, Working, Solving
<1> QED BY <1>1, <1>2 DEF Exact, Refusal

(* What a statement takes away from the next is missing on a path: the one *)
(* on which the fact it comes from was missing, led on.                    *)
LEMMA PropagateExact == IInv /\ Exact /\ Propagate => Exact'
<1> SUFFICES ASSUME IInv, Exact, Propagate PROVE Exact'
    OBVIOUS
<1> DEFINE id == Head(queue)
           out == After(id, facts[id])
           changed == {t \in Targets(id) : ~ (facts[t] \subseteq out)}
<1>1. /\ UNCHANGED <<function, edges, reachable, pc>>
      /\ pc = "solve" /\ queue # <<>>
      /\ facts' = [t \in Ids |-> IF t \in changed THEN facts[t] \cap out ELSE facts[t]]
    BY DEF Propagate, graph
<1>2. id \in reachable /\ id \in Ids /\ reachable \subseteq Ids /\ function \in Functions
    BY <1>1, HeadThere DEF IInv, Shape, Working
<1>3. \A t \in Ids : facts'[t] = facts[t] \/ (t \in Targets(id) /\ facts'[t] = facts[t] \cap out)
    <2>1. changed \subseteq Targets(id)
        OBVIOUS
    <2> HIDE DEF out, changed
    <2> QED BY <1>1, <2>1
<1> HIDE DEF id, changed
<1>4. Built' /\ Found'
    BY <1>1, GraphSame DEF Exact, Found, Working
<1>5. \A C : Roams(C) =>
        \A i \in reachable : /\ \E F : <<i, F>> \in C
                             /\ \A x \in Facts \ facts[i] : \E F : <<i, F>> \in C /\ x \notin F
    BY <1>1 DEF Exact, Found, Lost, Working, Solving
<1>6. Lost'
    <2> SUFFICES ASSUME NEW C, Roams(C), NEW i \in reachable, NEW x \in Facts \ facts'[i]
                 PROVE  \E F : <<i, F>> \in C /\ x \notin F
        BY <1>1, GraphSame DEF Lost
    <2>1. CASE x \notin facts[i]
        BY <1>5, <2>1
    <2>2. CASE x \in facts[i]
        <3>1. i \in Targets(id) \cap Ids /\ x \notin After(id, facts[id])
            BY <1>2, <1>3, <2>2
        <3>2. \E F : <<id, F>> \in C /\ x \notin After(id, F)
            <4>1. CASE \A F : x \notin After(id, F)
                BY <1>2, <1>5, <4>1
            <4>2. CASE \E y \in Facts : y \notin facts[id] /\ \A F : y \notin F => x \notin After(id, F)
                <5>1. PICK y \in Facts \ facts[id] : \A F : y \notin F => x \notin After(id, F)
                    BY <4>2
                <5>2. PICK F : <<id, F>> \in C /\ y \notin F
                    BY <1>2, <1>5
                <5> QED BY <5>1, <5>2
            <4>3. x \in Facts
                OBVIOUS
            <4> QED BY <1>2, <3>1, <4>1, <4>2, <4>3, LostForAReason
        <3>3. PICK F : <<id, F>> \in C /\ x \notin After(id, F)
            BY <3>2
        <3>4. <<i, After(id, F)>> \in C
            BY <3>1, <3>3 DEF Roams
        <3> QED BY <3>3, <3>4
    <2> QED BY <2>1, <2>2
<1> QED BY <1>1, <1>4, <1>6 DEF Exact, Refusal

(* What is missing where it is needed is missing there on a path.          *)
LEMMA CheckExact == IInv /\ Exact /\ Check => Exact'
<1> SUFFICES ASSUME IInv, Exact, Check PROVE Exact'
    OBVIOUS
<1>1. /\ UNCHANGED <<function, edges, reachable, facts>>
      /\ pc = "solve"
      /\ pc' = (IF Proven THEN "accepted" ELSE "refused")
      /\ reachable \subseteq Ids /\ function \in Functions
    BY DEF Check, graph, solver, Goto, IInv, Shape, Working
<1>2. Built' /\ Found' /\ Lost'
    BY <1>1, GraphSame DEF Exact, Found, Lost, Working, Solving
<1>3. Refusal'
    <2> SUFFICES ASSUME pc' = "refused", NEW C, Roams(C) PROVE \E s \in C : BadAt(s)
        BY <1>1, GraphSame DEF Refusal
    <2>1. PICK id \in reachable :
            ~ (Needs(id) \subseteq facts[id]) \/ (function.never /\ Statement(id).kind = "return")
        <3>1. ~ Proven
            BY <1>1
        <3> QED BY <3>1, Zenon DEF Proven
    <2>2. CASE function.never /\ Statement(id).kind = "return"
        <3>1. PICK F : <<id, F>> \in C
            BY <1>1 DEF Exact, Found, Working
        <3>2. BadAt(<<id, F>>)
            BY <2>2 DEF BadAt
        <3> QED BY <3>1, <3>2
    <2>3. CASE ~ (Needs(id) \subseteq facts[id])
        <3>1. Needs(id) \subseteq Facts
            <4>1. Statement(id) \in Statements /\ function.outputs \subseteq Facts
                BY <1>1, Tree
            <4>2. Statement(id).needs \in SUBSET Facts
                BY <4>1 DEF Statements
            <4> QED BY <4>1, <4>2 DEF Needs
        <3>2. PICK x \in Needs(id) : x \in Facts \ facts[id]
            BY <2>3, <3>1
        <3>3. PICK F : <<id, F>> \in C /\ x \notin F
            BY <1>1, <3>2 DEF Exact, Lost, Solving
        <3>4. BadAt(<<id, F>>)
            BY <3>2, <3>3 DEF BadAt
        <3> QED BY <3>3, <3>4
    <2> QED BY <2>1, <2>2, <2>3
<1> QED BY <1>2, <1>3 DEF Exact

(* Every step keeps it.                                                    *)
LEMMA StepExact == IInv /\ Exact /\ [Next]_vars => Exact'
<1> SUFFICES ASSUME IInv, Exact, [Next]_vars PROVE Exact'
    OBVIOUS
<1>1. CASE GiveUp
    BY <1>1 DEF GiveUp, Goto, Exact, Built, Found, Lost, Refusal, Working, Solving
<1>2. CASE BuildGraph BY <1>2, BuildExact
<1>3. CASE Reach BY <1>3, ReachExact
<1>4. CASE Reached BY <1>4, ReachedExact
<1>5. CASE Fill BY <1>5, FillExact
<1>6. CASE Propagate BY <1>6, PropagateExact
<1>7. CASE Check BY <1>7, CheckExact
<1>8. CASE Run \/ UNCHANGED vars
    <2>1. UNCHANGED <<function, edges, pc, reachable, facts>>
        BY <1>8 DEF Run, vars, graph, solver
    <2>2. Built'
        <3>1. CASE pc \in {"build", "gave up"}
            BY <2>1, <3>1 DEF Built
        <3>2. CASE pc \notin {"build", "gave up"}
            BY <2>1, <3>2, GraphSame DEF Exact
        <3> QED BY <3>1, <3>2
    <2>3. Found' /\ Lost'
        BY <2>1, GraphSame DEF Exact, Found, Lost, Working, Solving
    <2>4. Refusal'
        BY <2>1, GraphSame DEF Exact, Refusal
    <2> QED BY <2>2, <2>3, <2>4 DEF Exact
<1> QED BY <1>1, <1>2, <1>3, <1>4, <1>5, <1>6, <1>7, <1>8 DEF Next, Verify, Stopped

(* With a solution, every place on a path is reachable and has what the    *)
(* solution says.                                                          *)
LEMMA AcceptedPaths ==
    ASSUME IInv, pc = "accepted", \A id \in Ids : Targets(id) = Onward(id)
    PROVE  \A s \in OnPaths : s[1] \in reachable /\ facts[s[1]] \subseteq s[2]
<1> DEFINE C == {s \in Places : s[1] \in reachable /\ facts[s[1]] \subseteq s[2]}
<1>1. /\ function \in Functions /\ reachable \subseteq Ids /\ function.body \in reachable
      /\ \A id \in reachable : Targets(id) \subseteq reachable /\ Carried(id)
      /\ facts[function.body] \subseteq function.entry
    BY DEF IInv, Shape, Closed, Stable, Followed, Working, Solving, Elements
<1>2. EntryPlace \in C
    BY <1>1, Tree DEF EntryPlace, Places
<1>3. ASSUME NEW s \in C, NEW id \in Onward(s[1]) \cap Ids PROVE <<id, After(s[1], s[2])>> \in C
    <2>1. s[1] \in reachable /\ s[1] \in Ids /\ s[2] \in SUBSET Facts /\ facts[s[1]] \subseteq s[2]
        BY <1>1 DEF Places
    <2>2. id \in Targets(s[1])
        BY <2>1
    <2>3. id \in reachable /\ facts[id] \subseteq After(s[1], facts[s[1]])
        BY <1>1, <2>1, <2>2 DEF Carried
    <2>4. After(s[1], facts[s[1]]) \subseteq After(s[1], s[2])
        BY <2>1, AfterMonotone
    <2>5. After(s[1], s[2]) \in SUBSET Facts
        BY <1>1, <2>1, AfterFacts
    <2>6. <<id, After(s[1], s[2])>> \in Places
        BY <2>5 DEF Places
    <2> QED BY <2>3, <2>4, <2>6
<1>4. OnPaths \subseteq C
    <2>1. Follows(C)
        BY <1>3 DEF Follows
    <2>2. C \in SUBSET Places
        OBVIOUS
    <2> HIDE DEF C
    <2> QED BY <1>1, <1>2, <2>1, <2>2, OnPathsLeast
<1> QED BY <1>4

(* The verdict is exact when it is reached.                                *)
LEMMA VerdictReached == IInv /\ Exact => VerdictExact
<1> SUFFICES ASSUME IInv, Exact, pc \in {"accepted", "refused"}
             PROVE  pc = "refused" <=> \/ \E s \in OnPaths : Bad(s)
                                       \/ \E id \in Ids : Strays(id) \/ ~ (Onward(id) \subseteq Ids \cup {0})
    BY DEF VerdictExact
<1>1. function \in Functions
    BY DEF IInv, Shape
<1>2. \A id \in Ids : Targets(id) = Onward(id)
    <2>1. PICK n : Ordered(n) /\ edges = [id \in Ids |-> Ways(Statement(id), n[id])]
        BY DEF Exact, Built
    <2> QED BY <1>1, <2>1, TargetsOnward
<1>3. OnPaths \in SUBSET Places /\ EntryPlace \in OnPaths /\ Follows(OnPaths)
    BY <1>1, OnPathsLeast
<1>4. \A s \in OnPaths : s[1] \in Ids
    BY <1>3 DEF Places
<1>5. \A s \in OnPaths : BadAt(s) <=> Bad(s)
    BY <1>2, <1>4 DEF BadAt, Bad
<1>6. CASE pc = "refused"
    <2>1. Roams(OnPaths)
        BY <1>2, <1>3, <1>4 DEF Roams, Follows
    <2> QED BY <1>2, <1>5, <1>6, <2>1 DEF Exact, Refusal
<1>7. CASE pc = "accepted"
    <2>1. \A s \in OnPaths : s[1] \in reachable /\ facts[s[1]] \subseteq s[2]
        BY <1>2, <1>7, AcceptedPaths
    <2>2. /\ \A id \in Ids : ~ Strays(id) /\ Targets(id) \subseteq Ids \cup {0}
          /\ \A id \in reachable : Targets(id) \subseteq reachable
          /\ reachable \subseteq Ids /\ Proven
        BY <1>7 DEF IInv, Shape, Closed, Followed, Working, Solving
    <2>3. 0 \notin Ids
        BY <1>1, Tree
    <2>4. ASSUME NEW s \in OnPaths PROVE ~ BadAt(s)
        <3>1. Needs(s[1]) \subseteq s[2]
            BY <2>1, <2>2 DEF Proven
        <3>2. 0 \notin Targets(s[1])
            BY <2>1, <2>2, <2>3
        <3>3. ~ (function.never /\ Statement(s[1]).kind = "return")
            BY <2>1, <2>2 DEF Proven
        <3> QED BY <3>1, <3>2, <3>3 DEF BadAt
    <2> QED BY <1>2, <1>5, <1>7, <2>2, <2>4
<1> QED BY <1>6, <1>7

(* nt_conformance_verify refuses exactly the functions of which some path  *)
(* through the text reads what is not there, returns where it must not or  *)
(* falls out, and those with a jump that leaves (conformance.c 691-1119):  *)
(* for any functions, with any loops, dead code and facts.                 *)
THEOREM VerdictIsExact == Spec => []VerdictExact
<1>1. Init => Exact
    BY DEF Init, Exact, Built, Found, Lost, Refusal, Working, Solving
<1>2. IInv /\ Exact /\ [Next]_vars => Exact'
    BY StepExact
<1>3. IInv /\ Exact => VerdictExact
    BY VerdictReached
<1> QED BY <1>1, <1>2, <1>3, Maintained, PTL DEF Spec

=============================================================================
