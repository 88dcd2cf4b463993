------------------------------- MODULE PutOnce -------------------------------
(***************************************************************************)
(* What publish promises (bootstrap/quarantine/c/nova/cli.c:73): a         *)
(* register that is put at most once, whole, and of whose many writers     *)
(* exactly the one that put it is told so.  A writer may vanish before or  *)
(* after its put; the value stays.                                         *)
(***************************************************************************)
CONSTANTS Procs, Absent

VARIABLES
    output,  \* whose bytes are published
    answer   \* what each writer was told

vars == <<output, answer>>

Init == output = Absent /\ answer = [p \in Procs |-> "none"]

(* The bytes of p appear, all at once.                                     *)
Put(p) ==
    /\ answer[p] = "none"
    /\ output = Absent
    /\ output' = p
    /\ UNCHANGED answer

(* p learns whether the published bytes are its own.                       *)
Answer(p) ==
    /\ answer[p] = "none"
    /\ answer' = [answer EXCEPT ![p] = IF output = p THEN "won" ELSE "lost"]
    /\ UNCHANGED output

Vanish(p) ==
    /\ answer[p] = "none"
    /\ answer' = [answer EXCEPT ![p] = "gone"]
    /\ UNCHANGED output

Next == \E p \in Procs : Put(p) \/ Answer(p) \/ Vanish(p)

(* Every writer is answered unless it vanishes.                            *)
Spec == Init /\ [][Next]_vars
             /\ \A p \in Procs : WF_vars(Answer(p) \/ Vanish(p))
=============================================================================
