------------------------------- MODULE Publish -------------------------------
(***************************************************************************)
(* How "nova build" makes its output appear (publish in                    *)
(* bootstrap/quarantine/c/nova/cli.c): the bytes go to a fresh sibling     *)
(* file, which is then linked under the destination's name.  Several       *)
(* processes build the same destination at once, any of them may be killed *)
(* between two system calls, and what a killed one leaves behind meets     *)
(* later processes, possibly under the same pid.  Each system call is one  *)
(* step.  The directory is outside the repository.                         *)
(***************************************************************************)
EXTENDS Integers, FiniteSets

CONSTANTS
    Procs,        \* the runs of nova build, each with its own file (inode)
    Pid,          \* the process id of each: runs may share one
    MAX_ATTEMPTS, \* temporary names tried (100)
    Absent        \* no file under a name

ASSUME PublishAssumption ==
    MAX_ATTEMPTS \in Nat \ {0} /\ Absent \notin Procs /\ DOMAIN Pid = Procs

VARIABLES
    dir,          \* name -> the run whose file it is
    content,      \* what the file of each run holds
    attempt,      \* the number in the temporary name
    good,         \* the flag of publish, at the end its result
    pc,
    left          \* history: the runs whose remove failed

vars == <<dir, content, attempt, good, pc, left>>

Output == <<"output">>
Temporary(pid, n) == <<"tmp", pid, n>>
Names == {Output} \cup {Temporary(Pid[p], n) : p \in Procs, n \in 0 .. MAX_ATTEMPTS - 1}
OwnName(p) == Temporary(Pid[p], attempt[p])

TypeOK ==
    /\ dir \in [Names -> Procs \cup {Absent}]
    /\ content \in [Procs -> {"none", "partial", "complete"}]
    /\ attempt \in [Procs -> 0 .. MAX_ATTEMPTS]
    /\ good \in [Procs -> BOOLEAN]
    /\ pc \in [Procs -> {"create", "write", "flush", "close", "link",
                         "remove", "done", "killed"}]
    /\ \A p \in Procs : pc[p] # "done" => attempt[p] < MAX_ATTEMPTS
    /\ left \subseteq Procs

Init ==
    /\ dir = [n \in Names |-> Absent]
    /\ content = [p \in Procs |-> "none"]
    /\ attempt = [p \in Procs |-> 0]
    /\ good = [p \in Procs |-> FALSE]
    /\ pc = [p \in Procs |-> "create"]
    /\ left = {}

Goto(p, label) == pc' = [pc EXCEPT ![p] = label]

-----------------------------------------------------------------------------

(* Mutant: "wb", which opens the file it finds and truncates it.           *)
Create_Truncates(p) ==
    /\ pc[p] = "create"
    /\ \E owner \in Procs :
          /\ owner = (IF dir[OwnName(p)] = Absent THEN p ELSE dir[OwnName(p)])
          /\ dir' = [dir EXCEPT ![OwnName(p)] = owner]
          /\ content' = [content EXCEPT ![owner] = "partial"]
    /\ Goto(p, "write")
    /\ UNCHANGED <<attempt, good, left>>

(* fopen(temporary, "wbx"): only EEXIST leads to the next name, any other  *)
(* failure and the last name end the call.                                 *)
Create(p) ==
    /\ pc[p] = "create"
    /\ \/ /\ dir[OwnName(p)] = Absent
          /\ dir' = [dir EXCEPT ![OwnName(p)] = p]
          /\ content' = [content EXCEPT ![p] = "partial"]
          /\ Goto(p, "write")
          /\ UNCHANGED attempt
       \/ /\ dir[OwnName(p)] # Absent
          /\ attempt' = [attempt EXCEPT ![p] = @ + 1]
          /\ IF attempt[p] + 1 = MAX_ATTEMPTS THEN Goto(p, "done") ELSE UNCHANGED pc
          /\ UNCHANGED <<dir, content>>
       \/ Goto(p, "done") /\ UNCHANGED <<dir, content, attempt>>
    /\ UNCHANGED <<good, left>>

(* fwrite: into the stream's buffer, or short.                             *)
Write(p) ==
    /\ pc[p] = "write"
    /\ good' \in {good, [good EXCEPT ![p] = TRUE]}
    /\ Goto(p, "flush")
    /\ UNCHANGED <<dir, content, attempt, left>>

(* fflush: when it and the fwrite succeeded the file is complete.          *)
Flush(p) ==
    /\ pc[p] = "flush"
    /\ \/ content' = [content EXCEPT ![p] = IF good[p] THEN "complete" ELSE @]
          /\ UNCHANGED good
       \/ good' = [good EXCEPT ![p] = FALSE] /\ UNCHANGED content
    /\ Goto(p, "close")
    /\ UNCHANGED <<dir, attempt, left>>

(* fclose; then "if (good)".                                               *)
CloseFile(p) ==
    /\ pc[p] = "close"
    /\ good' \in {good, [good EXCEPT ![p] = FALSE]}
    /\ Goto(p, IF good'[p] THEN "link" ELSE "remove")
    /\ UNCHANGED <<dir, content, attempt, left>>

(* Mutant: the outcome of link is not looked at.                           *)
Link_Unchecked(p) ==
    /\ pc[p] = "link"
    /\ dir' \in {dir, [dir EXCEPT ![Output] = IF @ = Absent THEN dir[OwnName(p)] ELSE @]}
    /\ Goto(p, "remove")
    /\ UNCHANGED <<content, attempt, good, left>>

(* Mutant: an existing destination counts as published.                    *)
Link_ExistsIsFine(p) ==
    /\ pc[p] = "link"
    /\ dir' = [dir EXCEPT ![Output] = IF @ = Absent THEN dir[OwnName(p)] ELSE @]
    /\ Goto(p, "remove")
    /\ UNCHANGED <<content, attempt, good, left>>

(* link(temporary, output): the file that is under the temporary name gets *)
(* the output's too.  It fails when there is none, or when the destination *)
(* exists, and may fail otherwise.                                         *)
Link(p) ==
    /\ pc[p] = "link"
    /\ \/ /\ dir[Output] = Absent /\ dir[OwnName(p)] # Absent
          /\ dir' = [dir EXCEPT ![Output] = dir[OwnName(p)]]
          /\ UNCHANGED good
       \/ good' = [good EXCEPT ![p] = FALSE] /\ UNCHANGED dir
    /\ Goto(p, "remove")
    /\ UNCHANGED <<content, attempt, left>>

(* remove(temporary): whether it succeeds is not looked at.                *)
Remove(p) ==
    /\ pc[p] = "remove"
    /\ \/ dir' = [dir EXCEPT ![OwnName(p)] = Absent] /\ UNCHANGED left
       \/ left' = left \cup {p} /\ UNCHANGED dir
    /\ Goto(p, "done")
    /\ UNCHANGED <<content, attempt, good>>

Publishing(p) ==
    Create(p) \/ Write(p) \/ Flush(p) \/ CloseFile(p) \/ Link(p) \/ Remove(p)

(* The process is killed between two calls: nobody sees its result.        *)
Killed(p) ==
    /\ pc[p] \notin {"done", "killed"}
    /\ Goto(p, "killed")
    /\ UNCHANGED <<dir, content, attempt, good, left>>

Finished == \A p \in Procs : pc[p] \in {"done", "killed"}

Next == (\E p \in Procs : Publishing(p) \/ Killed(p))
        \/ (Finished /\ UNCHANGED vars)

(* A process that is not killed goes on to its next system call.           *)
Spec == Init /\ [][Next]_vars /\ \A p \in Procs : WF_vars(Publishing(p))

-----------------------------------------------------------------------------

(* Whoever finds the destination finds a complete file, in every state:    *)
(* while others build, after write failures, and after a kill anywhere.    *)
(* A kill before the remove leaves the output a second name, and a later   *)
(* run may try just that one for its own temporary.                        *)
OutputComplete == dir[Output] # Absent => content[dir[Output]] = "complete"

(* publish returns 1 exactly to the one run whose bytes are there.         *)
SuccessIsMine ==
    \A p \in Procs : pc[p] = "done" => (good[p] <=> dir[Output] = p)

(* A run that returns, with success or failure, leaves no temporary file   *)
(* but the one, under its own name, whose remove failed.                   *)
TemporaryGone ==
    \A p \in Procs : pc[p] = "done" =>
        \A n \in Names \ {Output} : dir[n] = p => n = OwnName(p) /\ p \in left

(* "published without replacing an existing destination"                   *)
NeverReplaced == [][dir[Output] # Absent => dir'[Output] = dir[Output]]_vars

(* "Only this process's own temporary is removed": a file, stale or in     *)
(* use, is only ever removed by the run that created it.                   *)
OnlyOwnRemoved ==
    [][ \A n \in Names : dir[n] # Absent /\ dir'[n] # dir[n] =>
            pc[dir[n]] = "remove" /\ pc'[dir[n]] = "done" ]_vars

(* What the callers of publish may think of it: one atomic put under a     *)
(* name that is never overwritten, each caller told whether it was theirs. *)
Told == [p \in Procs |->
            IF pc[p] = "killed" THEN "gone"
            ELSE IF pc[p] # "done" THEN "none"
            ELSE IF good[p] THEN "won" ELSE "lost"]

Abstract == INSTANCE PutOnce WITH output <- dir[Output], answer <- Told

(* The sequence of system calls implements that put.                       *)
PutsOnce == Abstract!Spec

=============================================================================
