---------------------------- MODULE BuildProofs ----------------------------
(***************************************************************************)
(* Proofs about publish, for any number of runs, any sharing of pids and   *)
(* any number of temporary names.  The strengthening says who owns which   *)
(* name at each point of the sequence of system calls.  At the end, the    *)
(* properties of the launcher and the probe as machines of MCBuild, for    *)
(* every value of its constants, from their own proofs.                    *)
(***************************************************************************)
EXTENDS MCBuild, TLAPS

(* No temporary name is the destination.                                   *)
LEMMA TemporaryIsNotOutput == \A pid, n : Temporary(pid, n) # Output
  BY DEF Temporary, Output

(* A process still at work has a temporary name of its own, not the        *)
(* output's.                                                               *)
LEMMA OwnNameIsAName ==
    ASSUME TypeOK, NEW p \in Procs, pc[p] # "done"
    PROVE  OwnName(p) \in Names \ {Output}
  <1>1. attempt[p] \in 0 .. MAX_ATTEMPTS - 1
    BY PublishAssumption DEF TypeOK
  <1>. QED
    BY <1>1, TemporaryIsNotOutput DEF OwnName, Names

-----------------------------------------------------------------------------

Working == {"write", "flush", "close", "link", "remove"}

(* A run that has created its file and not removed it finds it under its   *)
(* own name, ...                                                           *)
OwnFileThere == \A p \in Procs : pc[p] \in Working => dir[OwnName(p)] = p

(* ... and under no other; before the creation it has none, and after the  *)
(* return none but one whose remove failed.                                *)
OwnFileOnly ==
    \A p \in Procs : \A n \in Names \ {Output} : dir[n] = p =>
        /\ n = OwnName(p)
        /\ pc[p] \in Working \cup {"killed"} \/ (pc[p] = "done" /\ p \in left)

(* Who may be the owner of the destination, and what the flag says of it.  *)
FlagExact ==
    \A p \in Procs :
        /\ pc[p] \in {"create", "write", "flush", "close", "link"} => dir[Output] # p
        /\ pc[p] = "create" => ~ good[p]
        /\ pc[p] = "link" => good[p]
        /\ pc[p] \in {"remove", "done"} => (good[p] <=> dir[Output] = p)

(* What is linked, or about to be, is complete.                            *)
LinkedComplete ==
    \A p \in Procs :
        \/ dir[Output] = p
        \/ pc[p] = "close" /\ good[p]
        \/ pc[p] = "link"
        => content[p] = "complete"

IInv == TypeOK /\ OwnFileThere /\ OwnFileOnly /\ FlagExact /\ LinkedComplete

(* Nothing has been published at the start.                                *)
LEMMA InitIInv == Init => IInv
  <1>. SUFFICES ASSUME Init PROVE IInv
    OBVIOUS
  <1>. USE PublishAssumption DEF Init
  <1>1. \A n \in Names : dir[n] = Absent /\ Absent \notin Procs
    OBVIOUS
  <1>2. Output \in Names
    BY DEF Names
  <1>3. TypeOK
    BY DEF TypeOK
  <1>4. OwnFileThere /\ OwnFileOnly
    BY <1>1 DEF OwnFileThere, OwnFileOnly, Working
  <1>5. FlagExact /\ LinkedComplete
    BY <1>1, <1>2 DEF FlagExact, LinkedComplete
  <1>. QED
    BY <1>3, <1>4, <1>5 DEF IInv

-----------------------------------------------------------------------------

(* A temporary file is created.                                            *)
LEMMA CreateIInv == ASSUME IInv, NEW p \in Procs, Create(p) PROVE IInv'
  <1>. USE DEF IInv
  <1>0. pc[p] = "create" /\ pc[p] # "done"
    BY DEF Create
  <1>1. OwnName(p) \in Names \ {Output}
    BY <1>0, OwnNameIsAName
  <1>2. CASE /\ dir[OwnName(p)] = Absent
             /\ dir' = [dir EXCEPT ![OwnName(p)] = p]
             /\ content' = [content EXCEPT ![p] = "partial"]
             /\ Goto(p, "write")
             /\ UNCHANGED <<attempt, good, left>>
    <2>. USE <1>2 DEF Goto
    <2>1. TypeOK'
      BY <1>0, <1>1 DEF TypeOK
    <2>2. dir'[Output] = dir[Output] /\ Output \in Names
      BY <1>1 DEF TypeOK, Names
    <2>3. OwnFileThere' /\ OwnFileOnly'
      BY <1>0, <1>1, PublishAssumption DEF TypeOK, OwnFileThere, OwnFileOnly, Working, OwnName
    <2>4. FlagExact' /\ LinkedComplete'
      BY <1>0, <2>2 DEF TypeOK, FlagExact, LinkedComplete
    <2>. QED
      BY <2>1, <2>3, <2>4
  <1>3. CASE /\ attempt' = [attempt EXCEPT ![p] = @ + 1]
             /\ IF attempt[p] + 1 = MAX_ATTEMPTS THEN Goto(p, "done") ELSE UNCHANGED pc
             /\ UNCHANGED <<dir, content, good, left>>
    <2>. USE <1>3 DEF Goto
    <2>1. TypeOK'
      BY <1>0, PublishAssumption DEF TypeOK
    <2>2. OwnFileThere' /\ OwnFileOnly'
      BY <1>0 DEF TypeOK, OwnFileThere, OwnFileOnly, Working, OwnName
    <2>3. FlagExact' /\ LinkedComplete'
      BY <1>0 DEF TypeOK, FlagExact, LinkedComplete
    <2>. QED
      BY <2>1, <2>2, <2>3
  <1>4. CASE Goto(p, "done") /\ UNCHANGED <<dir, content, attempt, good, left>>
    <2>. USE <1>4 DEF Goto
    <2>1. TypeOK'
      BY DEF TypeOK
    <2>2. OwnFileThere' /\ OwnFileOnly'
      BY <1>0 DEF TypeOK, OwnFileThere, OwnFileOnly, Working, OwnName
    <2>3. FlagExact' /\ LinkedComplete'
      BY <1>0 DEF TypeOK, FlagExact, LinkedComplete
    <2>. QED
      BY <2>1, <2>2, <2>3
  <1>. QED
    BY <1>2, <1>3, <1>4 DEF Create

(* Write, Flush and CloseFile touch no name.                               *)
LEMMA StreamIInv ==
    ASSUME IInv, NEW p \in Procs, Write(p) \/ Flush(p) \/ CloseFile(p)
    PROVE  IInv'
  <1>. USE DEF IInv, Goto
  <1>1. CASE Write(p)
    <2>1. TypeOK'
      BY <1>1 DEF TypeOK, Write
    <2>2. OwnFileThere' /\ OwnFileOnly'
      BY <1>1 DEF TypeOK, OwnFileThere, OwnFileOnly, Working, OwnName, Write
    <2>3. FlagExact' /\ LinkedComplete'
      BY <1>1 DEF TypeOK, FlagExact, LinkedComplete, Write
    <2>. QED
      BY <2>1, <2>2, <2>3
  <1>2. CASE Flush(p)
    <2>1. TypeOK'
      BY <1>2 DEF TypeOK, Flush
    <2>2. OwnFileThere' /\ OwnFileOnly'
      BY <1>2 DEF TypeOK, OwnFileThere, OwnFileOnly, Working, OwnName, Flush
    <2>3. FlagExact' /\ LinkedComplete'
      BY <1>2 DEF TypeOK, FlagExact, LinkedComplete, Flush
    <2>. QED
      BY <2>1, <2>2, <2>3
  <1>3. CASE CloseFile(p)
    <2>1. TypeOK'
      BY <1>3 DEF TypeOK, CloseFile
    <2>2. OwnFileThere' /\ OwnFileOnly'
      BY <1>3 DEF TypeOK, OwnFileThere, OwnFileOnly, Working, OwnName, CloseFile
    <2>3. FlagExact' /\ LinkedComplete'
      BY <1>3 DEF TypeOK, FlagExact, LinkedComplete, CloseFile
    <2>. QED
      BY <2>1, <2>2, <2>3
  <1>. QED
    BY <1>1, <1>2, <1>3

(* The temporary file is linked to the output's name.                      *)
LEMMA LinkIInv == ASSUME IInv, NEW p \in Procs, Link(p) PROVE IInv'
  <1>. USE DEF IInv, Goto
  <1>1. pc[p] = "link" /\ pc' = [pc EXCEPT ![p] = "remove"]
        /\ UNCHANGED <<content, attempt, left>> /\ dir[OwnName(p)] = p
    BY DEF Link, OwnFileThere, Working
  <1>2. Output \in Names /\ Absent \notin Procs
    BY PublishAssumption DEF Names
  <1>3. CASE dir[Output] = Absent /\ dir' = [dir EXCEPT ![Output] = p] /\ UNCHANGED good
    <2>1. TypeOK'
      BY <1>1, <1>3 DEF TypeOK
    <2>2. \A n \in Names \ {Output} : dir'[n] = dir[n]
      BY <1>3 DEF TypeOK
    <2>3. ASSUME NEW q \in Procs, pc[q] \in Working PROVE dir'[OwnName(q)] = dir[OwnName(q)]
      BY <2>2, <2>3, OwnNameIsAName DEF Working
    <2>4. OwnFileThere' /\ OwnFileOnly'
      BY <1>1, <2>2, <2>3 DEF TypeOK, OwnFileThere, OwnFileOnly, Working, OwnName
    <2>5. dir'[Output] = p
      BY <1>2, <1>3 DEF TypeOK
    <2>6. FlagExact' /\ LinkedComplete'
      BY <1>1, <1>2, <1>3, <2>5 DEF TypeOK, FlagExact, LinkedComplete
    <2>. QED
      BY <2>1, <2>4, <2>6
  <1>4. CASE good' = [good EXCEPT ![p] = FALSE] /\ UNCHANGED dir
    <2>1. TypeOK'
      BY <1>1, <1>4 DEF TypeOK
    <2>2. OwnFileThere' /\ OwnFileOnly'
      BY <1>1, <1>4 DEF TypeOK, OwnFileThere, OwnFileOnly, Working, OwnName
    <2>3. FlagExact' /\ LinkedComplete'
      BY <1>1, <1>4 DEF TypeOK, FlagExact, LinkedComplete
    <2>. QED
      BY <2>1, <2>2, <2>3
  <1>. QED
    BY <1>1, <1>3, <1>4 DEF Link

(* The temporary file is removed, or stays.                                          *)
LEMMA RemoveIInv == ASSUME IInv, NEW p \in Procs, Remove(p) PROVE IInv'
  <1>. USE DEF IInv, Goto
  <1>1. /\ pc[p] = "remove"
        /\ pc' = [pc EXCEPT ![p] = "done"]
        /\ \/ dir' = [dir EXCEPT ![OwnName(p)] = Absent] /\ left' = left
           \/ dir' = dir /\ left' = left \cup {p}
        /\ UNCHANGED <<content, attempt, good>>
    BY DEF Remove
  <1>2. OwnName(p) \in Names \ {Output} /\ Absent \notin Procs /\ Output \in Names
    BY <1>1, OwnNameIsAName, PublishAssumption DEF Names
  <1>3. dir[OwnName(p)] = p
    BY <1>1 DEF OwnFileThere, Working
  <1>4. TypeOK'
    BY <1>1, <1>2 DEF TypeOK
  <1>5. ASSUME NEW q \in Procs \ {p}, pc[q] \in Working PROVE OwnName(q) # OwnName(p)
    BY <1>3, <1>5 DEF OwnFileThere
  <1>6. /\ \A n \in Names : n # OwnName(p) => dir'[n] = dir[n]
        /\ dir'[OwnName(p)] = Absent \/ p \in left'
        /\ left \subseteq left'
    BY <1>1, <1>2 DEF TypeOK
  <1>7. \A q \in Procs : OwnName(q)' = OwnName(q) /\ pc'[q] = IF q = p THEN "done" ELSE pc[q]
    BY <1>1 DEF OwnName, TypeOK
  <1>8. \A q \in Procs : pc[q] \in Working => OwnName(q) \in Names
    BY OwnNameIsAName DEF Working
  <1>9. OwnFileThere'
    BY <1>5, <1>6, <1>7, <1>8 DEF OwnFileThere, Working
  <1>10. OwnFileOnly'
    <2>. SUFFICES ASSUME NEW q \in Procs, NEW n \in Names \ {Output}, dir'[n] = q
                  PROVE  /\ n = OwnName(q)
                         /\ \/ pc'[q] \in Working \cup {"killed"}
                            \/ pc'[q] = "done" /\ q \in left'
      BY <1>7 DEF OwnFileOnly
    <2>1. CASE n = OwnName(p)
      <3>1. p \in left' /\ dir' = dir
        BY <1>1, <1>2, <2>1 DEF TypeOK
      <3>2. q = p
        BY <1>3, <2>1, <3>1
      <3>. QED
        BY <1>7, <2>1, <3>1, <3>2
    <2>2. CASE n # OwnName(p)
      BY <1>3, <1>6, <1>7, <2>2 DEF OwnFileOnly
    <2>. QED
      BY <2>1, <2>2
  <1>11. FlagExact' /\ LinkedComplete'
    BY <1>1, <1>2, <1>6, <1>7 DEF FlagExact, LinkedComplete, TypeOK
  <1>. QED
    BY <1>4, <1>9, <1>10, <1>11

(* A process is killed wherever it is.                                     *)
LEMMA KilledIInv == ASSUME IInv, NEW p \in Procs, Killed(p) PROVE IInv'
  <1>. USE DEF IInv, Goto, Killed
  <1>1. TypeOK'
    BY DEF TypeOK
  <1>2. OwnFileThere' /\ OwnFileOnly'
    BY DEF TypeOK, OwnFileThere, OwnFileOnly, Working, OwnName
  <1>3. FlagExact' /\ LinkedComplete'
    BY DEF TypeOK, FlagExact, LinkedComplete
  <1>. QED
    BY <1>1, <1>2, <1>3

(* Every step of the publishers keeps the invariant.                       *)
LEMMA NextIInv == IInv /\ [Next]_vars => IInv'
  <1>. SUFFICES ASSUME IInv, [Next]_vars PROVE IInv'
    OBVIOUS
  <1>1. CASE UNCHANGED vars
    BY <1>1 DEF vars, IInv, TypeOK, OwnFileThere, OwnFileOnly, FlagExact, LinkedComplete, OwnName
  <1>2. ASSUME NEW p \in Procs, Publishing(p) PROVE IInv'
    BY <1>2, CreateIInv, StreamIInv, LinkIInv, RemoveIInv DEF Publishing
  <1>3. ASSUME NEW p \in Procs, Killed(p) PROVE IInv'
    BY <1>3, KilledIInv
  <1>. QED
    BY <1>1, <1>2, <1>3 DEF Next

(* In every reachable state every name has the owner IInv says.            *)
THEOREM Invariant == Spec => []IInv
  BY InitIInv, NextIInv, PTL DEF Spec

(* Every reachable state is typed: no run tries a name past the last.      *)
THEOREM Typed == Spec => []TypeOK
  <1>1. IInv => TypeOK
    BY DEF IInv
  <1>. QED
    BY <1>1, Invariant, PTL

(* The destination is never seen incomplete, whoever failed or was killed. *)
THEOREM NeverSeenIncomplete == Spec => []OutputComplete
  <1>1. IInv => OutputComplete
    <2>1. Output \in Names
      BY DEF Names
    <2>. QED
      BY <2>1 DEF IInv, TypeOK, LinkedComplete, OutputComplete
  <1>. QED
    BY <1>1, Invariant, PTL

(* A run is told that it published exactly when its bytes are there.       *)
THEOREM ResultExact == Spec => []SuccessIsMine
  <1>1. IInv => SuccessIsMine
    BY DEF IInv, FlagExact, SuccessIsMine
  <1>. QED
    BY <1>1, Invariant, PTL

(* A run that returns leaves nothing behind but a file it could not remove. *)
THEOREM NothingLeftBehind == Spec => []TemporaryGone
  <1>1. IInv => TemporaryGone
    BY DEF IInv, OwnFileOnly, Working, TemporaryGone
  <1>. QED
    BY <1>1, Invariant, PTL

-----------------------------------------------------------------------------

(* How one step of one run changes the directory.                          *)
LEMMA DirStep ==
    ASSUME IInv, NEW p \in Procs, Publishing(p) \/ Killed(p)
    PROVE  \/ dir' = dir
           \/ /\ pc[p] = "create" /\ dir[OwnName(p)] = Absent
              /\ dir' = [dir EXCEPT ![OwnName(p)] = p]
           \/ /\ pc[p] = "link" /\ dir[Output] = Absent
              /\ dir' = [dir EXCEPT ![Output] = dir[OwnName(p)]]
           \/ /\ pc[p] = "remove" /\ pc' = [pc EXCEPT ![p] = "done"]
              /\ dir[OwnName(p)] = p
              /\ dir' = [dir EXCEPT ![OwnName(p)] = Absent]
  <1>1. CASE Publishing(p)
    BY <1>1 DEF Publishing, Create, Write, Flush, CloseFile, Link, Remove, Goto,
                IInv, OwnFileThere, Working
  <1>2. CASE Killed(p)
    BY <1>2 DEF Killed
  <1>. QED
    BY <1>1, <1>2

(* A published destination stays what it is.                               *)
THEOREM DestinationNeverReplaced == Spec => NeverReplaced
  <1>1. IInv /\ [Next]_vars => [dir[Output] # Absent => dir'[Output] = dir[Output]]_vars
    <2>1. ASSUME IInv, NEW p \in Procs, Publishing(p) \/ Killed(p), dir[Output] # Absent
          PROVE  dir'[Output] = dir[Output]
      <3>1. pc[p] \in {"create", "remove"} => OwnName(p) # Output
        BY <2>1, OwnNameIsAName DEF IInv
      <3>2. Output \in Names
        BY DEF Names
      <3>3. dir \in [Names -> Procs \cup {Absent}]
        BY <2>1 DEF IInv, TypeOK
      <3>4. dir' = dir \/ \E n \in Names \ {Output} : \E v : dir' = [dir EXCEPT ![n] = v]
        BY <2>1, <3>1, DirStep, OwnNameIsAName DEF IInv
      <3>. QED
        BY <3>2, <3>3, <3>4
    <2>. QED
      BY <2>1 DEF Next
  <1>. QED
    BY <1>1, Invariant, PTL DEF Spec, NeverReplaced

(* A file is only ever removed, or its name reused, by its own run.        *)
THEOREM OthersFilesUntouched == Spec => OnlyOwnRemoved
  <1>1. IInv /\ [Next]_vars =>
            [ \A n \in Names : dir[n] # Absent /\ dir'[n] # dir[n] =>
                pc[dir[n]] = "remove" /\ pc'[dir[n]] = "done" ]_vars
    <2>1. ASSUME IInv, NEW p \in Procs, Publishing(p) \/ Killed(p),
                 NEW n \in Names, dir[n] # Absent, dir'[n] # dir[n]
          PROVE  pc[dir[n]] = "remove" /\ pc'[dir[n]] = "done"
      BY <2>1, DirStep DEF IInv, TypeOK
    <2>. QED
      BY <2>1 DEF Next
  <1>. QED
    BY <1>1, Invariant, PTL DEF Spec, OnlyOwnRemoved

-----------------------------------------------------------------------------

(* A publisher's step puts the file, tells the answer, vanishes, or        *)
(* changes nothing the abstract specification sees.                        *)
LEMMA StepImplements ==
    ASSUME IInv, NEW p \in Procs, Publishing(p) \/ Killed(p)
    PROVE  \/ Abstract!Put(p) \/ Abstract!Answer(p) \/ Abstract!Vanish(p)
           \/ UNCHANGED <<dir[Output], Told>>
  <1>. USE DEF Told, Goto, IInv
  <1>1. pc[p] # "done" => OwnName(p) # Output
    BY OwnNameIsAName
  <1>2. Output \in Names
    BY DEF Names
  <1>3. CASE Create(p)
    <2>0. pc[p] = "create" /\ good' = good /\ OwnName(p) # Output
      BY <1>1, <1>3 DEF Create
    <2>4. dir' = dir \/ dir' = [dir EXCEPT ![OwnName(p)] = p]
      BY <1>3 DEF Create
    <2>5. dir'[Output] = dir[Output]
      BY <1>2, <2>0, <2>4 DEF TypeOK
    <2>1. dir'[Output] = dir[Output] /\ dir[Output] # p /\ ~ good[p] /\ good' = good
      BY <2>0, <2>5 DEF FlagExact
    <2>2. CASE pc' = [pc EXCEPT ![p] = "done"]
      <3>1. Abstract!Answer(p)
        BY <1>3, <2>1, <2>2 DEF Abstract!Answer, Create, TypeOK
      <3>. QED
        BY <3>1
    <2>3. CASE pc' = [pc EXCEPT ![p] = "write"] \/ pc' = pc
      BY <1>3, <2>1, <2>3 DEF Create, TypeOK
    <2>. QED
      BY <1>3, <2>2, <2>3 DEF Create
  <1>4. CASE Write(p) \/ Flush(p) \/ CloseFile(p)
    BY <1>4 DEF Write, Flush, CloseFile, TypeOK
  <1>5. CASE Link(p)
    <2>1. Told' = Told
      BY <1>5 DEF Link, TypeOK
    <2>4. dir[OwnName(p)] = p
      BY <1>5 DEF Link, OwnFileThere, Working
    <2>2. dir' = dir \/ dir'[Output] = p
      BY <1>2, <1>5, <2>4 DEF Link, TypeOK
    <2>3. Told[p] = "none"
      BY <1>5 DEF Link
    <2>. QED
      BY <1>5, <2>1, <2>2, <2>3 DEF Link, Abstract!Put
  <1>6. CASE Remove(p)
    <2>1. dir'[Output] = dir[Output]
      <3>1. OwnName(p) # Output
        BY <1>1, <1>6 DEF Remove
      <3>2. dir' = dir \/ dir' = [dir EXCEPT ![OwnName(p)] = Absent]
        BY <1>6 DEF Remove
      <3>. QED
        BY <1>2, <3>1, <3>2 DEF TypeOK
    <2>2. good[p] <=> dir[Output] = p
      BY <1>6 DEF Remove, FlagExact
    <2>3. Abstract!Answer(p)
      BY <1>6, <2>1, <2>2 DEF Remove, Abstract!Answer, TypeOK
    <2>. QED
      BY <2>3
  <1>7. CASE Killed(p)
    <2>1. Abstract!Vanish(p)
      BY <1>7 DEF Killed, Abstract!Vanish, TypeOK
    <2>. QED
      BY <2>1
  <1>. QED
    BY <1>3, <1>4, <1>5, <1>6, <1>7 DEF Publishing

(* The system calls implement one atomic put with an exact answer (the     *)
(* safety part of PutsOnce; that every run is answered is left to TLC).    *)
THEOREM ImplementsPutOnce ==
    Spec => Abstract!Init /\ [][Abstract!Next]_<<dir[Output], Told>>
  <1>1. Init => Abstract!Init
    BY DEF Init, Abstract!Init, Told, Names
  <1>2. IInv /\ [Next]_vars => [Abstract!Next]_<<dir[Output], Told>>
    <2>1. ASSUME IInv, UNCHANGED vars PROVE UNCHANGED <<dir[Output], Told>>
      BY <2>1 DEF vars, Told
    <2>2. ASSUME IInv, NEW p \in Procs, Publishing(p) \/ Killed(p)
          PROVE  [Abstract!Next]_<<dir[Output], Told>>
      BY <2>2, StepImplements DEF Abstract!Next
    <2>. QED
      BY <2>1, <2>2 DEF Next
  <1>. QED
    BY <1>1, <1>2, Invariant, PTL DEF Spec

-----------------------------------------------------------------------------
(* The launcher and the probe, each a machine of its own: a step of MCBuild *)
(* is a step of it or leaves its variables alone.  The definitions of      *)
(* NtBuild and UefiProbe are here twice, as MCBuild has them and as their  *)
(* proofs do, and are the same when they are expanded.                     *)

LauncherProofs == INSTANCE NtBuildProofs WITH pc <- call
ProbeProofs ==
    INSTANCE UefiProbeProofs WITH pc <- label, image <- loaded, code <- failure, exit <- verdict

(* The launcher starts as its own module says.                             *)
LEMMA LauncherInit == Launcher!Init => LauncherProofs!Init
  BY DEF Launcher!Init, LauncherProofs!Init, Launcher!Nothing, LauncherProofs!Nothing

(* A step of the launcher beside the others is a step of its own module.   *)
LEMMA LauncherStep == Launcher!Step => LauncherProofs!Step
  BY DEF Launcher!Step, LauncherProofs!Step, Launcher!Acquiring, LauncherProofs!Acquiring,
     Launcher!Reading, LauncherProofs!Reading, Launcher!Launching, LauncherProofs!Launching,
     Launcher!Ending, LauncherProofs!Ending, Launcher!LoadedImage,
     LauncherProofs!LoadedImage, Launcher!Volume, LauncherProofs!Volume, Launcher!OpenRoot,
     LauncherProofs!OpenRoot, Launcher!AllocateBuffer, LauncherProofs!AllocateBuffer,
     Launcher!OpenFile, LauncherProofs!OpenFile, Launcher!GetInfo, LauncherProofs!GetInfo,
     Launcher!ReadChunk, LauncherProofs!ReadChunk, Launcher!CloseFile,
     LauncherProofs!CloseFile, Launcher!ReadEnds, LauncherProofs!ReadEnds, Launcher!Check,
     LauncherProofs!Check, Launcher!LoadImage, LauncherProofs!LoadImage,
     Launcher!ChildProtocol, LauncherProofs!ChildProtocol, Launcher!StartImage,
     LauncherProofs!StartImage, Launcher!Registry, LauncherProofs!Registry,
     Launcher!UnloadChild, LauncherProofs!UnloadChild, Launcher!FreeBuffer,
     LauncherProofs!FreeBuffer, Launcher!CloseRoot, LauncherProofs!CloseRoot,
     Launcher!Finish, LauncherProofs!Finish, Launcher!Goto, LauncherProofs!Goto,
     Launcher!Acquire, LauncherProofs!Acquire, Launcher!GiveBack, LauncherProofs!GiveBack,
     Launcher!Release, LauncherProofs!Release, Launcher!CleanupStatus,
     LauncherProofs!CleanupStatus, Launcher!LengthOK, LauncherProofs!LengthOK,
     Launcher!Accepted, LauncherProofs!Accepted, Launcher!Refusal, LauncherProofs!Refusal,
     Launcher!NextFile, LauncherProofs!NextFile, Launcher!NextCode, LauncherProofs!NextCode,
     Launcher!Files, LauncherProofs!Files, Launcher!Kinds, LauncherProofs!Kinds,
     Launcher!Statuses, LauncherProofs!Statuses, Launcher!Nothing, LauncherProofs!Nothing,
     Launcher!launcher, LauncherProofs!launcher, Launcher!firmware, LauncherProofs!firmware

(* The probe starts as its own module says.                                *)
LEMMA ProbeInit == Probe!Init => ProbeProofs!Init
  BY DEF Probe!Init, ProbeProofs!Init, Probe!Fresh, ProbeProofs!Fresh

(* A step of the probe beside the others is a step of its own module.      *)
LEMMA ProbeStep == Probe!Step => ProbeProofs!Step
  BY DEF Probe!Step, ProbeProofs!Step, Probe!ChildStep, ProbeProofs!ChildStep, Probe!Ending,
     ProbeProofs!Ending, Probe!LocateSerial, ProbeProofs!LocateSerial, Probe!OpenVolume,
     ProbeProofs!OpenVolume, Probe!ReadOracle, ProbeProofs!ReadOracle, Probe!ReadImage,
     ProbeProofs!ReadImage, Probe!LoadImage, ProbeProofs!LoadImage, Probe!ContextInit,
     ProbeProofs!ContextInit, Probe!ChildAllocates, ProbeProofs!ChildAllocates,
     Probe!ChildReleases, ProbeProofs!ChildReleases, Probe!ChildOpens,
     ProbeProofs!ChildOpens, Probe!ChildCloses, ProbeProofs!ChildCloses, Probe!ChildReturns,
     ProbeProofs!ChildReturns, Probe!DestroyBuffer, ProbeProofs!DestroyBuffer,
     Probe!DestroyStream, ProbeProofs!DestroyStream, Probe!DestroyContext,
     ProbeProofs!DestroyContext, Probe!GiveBack, ProbeProofs!GiveBack, Probe!UnloadChild,
     ProbeProofs!UnloadChild, Probe!CloseRoot, ProbeProofs!CloseRoot, Probe!FreeFiles,
     ProbeProofs!FreeFiles, Probe!Verdict, ProbeProofs!Verdict, Probe!Report,
     ProbeProofs!Report, Probe!Goto,
     ProbeProofs!Goto, Probe!Fails, ProbeProofs!Fails, Probe!Child, ProbeProofs!Child,
     Probe!Pointers, ProbeProofs!Pointers, Probe!Rest, ProbeProofs!Rest, Probe!Refused,
     ProbeProofs!Refused, Probe!Log, ProbeProofs!Log, Probe!Given, ProbeProofs!Given,
     Probe!Malloc, ProbeProofs!Malloc, Probe!Free, ProbeProofs!Free, Probe!Close,
     ProbeProofs!Close, Probe!Opened, ProbeProofs!Opened, Probe!Stream, ProbeProofs!Stream,
     Probe!Named, ProbeProofs!Named, Probe!Fopen, ProbeProofs!Fopen, Probe!Fclose,
     ProbeProofs!Fclose, Probe!Body, ProbeProofs!Body, Probe!Closed, ProbeProofs!Closed,
     Probe!ReadFile, ProbeProofs!ReadFile

(* The launcher's invariant holds of it beside the others.                 *)
LEMMA LauncherInvariant == MCSpec => []LauncherProofs!IInv
  <1>1. MCInit => LauncherProofs!IInv
    BY LauncherInit, LauncherProofs!InitIInv DEF MCInit
  <1>2. [MCNext]_MCVars => [LauncherProofs!Next]_(LauncherProofs!vars)
    <2>1. ASSUME UNCHANGED launcherVars PROVE UNCHANGED LauncherProofs!vars
      BY <2>1 DEF launcherVars, LauncherProofs!vars, LauncherProofs!launcher, LauncherProofs!firmware
    <2>2. CASE Launches
      BY <2>2, LauncherStep DEF Launches, LauncherProofs!Next
    <2>3. [MCNext]_MCVars /\ ~ Launches => UNCHANGED launcherVars
      BY DEF MCNext, Probes, Publishes, Abandons, MCVars
    <2>. QED
      BY <2>1, <2>2, <2>3
  <1>. QED
    BY <1>1, <1>2, LauncherProofs!NextIInv, PTL DEF MCSpec

(* The probe's invariant holds of it beside the others.                    *)
LEMMA ProbeInvariant == MCSpec => []ProbeProofs!IInv
  <1>1. MCInit => ProbeProofs!IInv
    BY ProbeInit, ProbeProofs!InitIInv DEF MCInit
  <1>2. [MCNext]_MCVars => [ProbeProofs!Next]_(ProbeProofs!vars)
    <2>1. ASSUME UNCHANGED probeVars PROVE UNCHANGED ProbeProofs!vars
      BY <2>1 DEF probeVars, ProbeProofs!vars
    <2>2. CASE Probes
      BY <2>2, ProbeStep DEF Probes, ProbeProofs!Next
    <2>3. [MCNext]_MCVars /\ ~ Probes => UNCHANGED probeVars
      BY DEF MCNext, Launches, Publishes, Abandons, MCVars
    <2>. QED
      BY <2>1, <2>2, <2>3
  <1>3. ProbeProofs!NamesAssumption
    BY ProbeAssumption
       DEF Probe!NamesAssumption, ProbeProofs!NamesAssumption, Probe!Own, ProbeProofs!Own,
           Probe!IsFiniteSet, ProbeProofs!IsFiniteSet
  <1>. QED
    BY <1>1, <1>2, <1>3, ProbeProofs!NextKeeps, PTL DEF MCSpec

(* Whatever the firmware answers, the launcher releases nothing twice and  *)
(* nothing it does not hold, and returns holding nothing, unless E917 says *)
(* that nobody knows of the child.                                         *)
THEOREM LauncherReleasesOnce == MCSpec => []ReleasedOnce
  <1>1. LauncherProofs!IInv => ReleasedOnce
    BY LauncherProofs!IInvSafe DEF ReleasedOnce, Launcher!ReleasedOnce, LauncherProofs!ReleasedOnce
  <1>. QED
    BY <1>1, LauncherInvariant, PTL

(* No byte that failed its check, or was not hashed, is ever executed.     *)
THEOREM LauncherVerifies == MCSpec => []OnlyVerifiedBytesRun
  <1>1. LauncherProofs!IInv => OnlyVerifiedBytesRun
    BY LauncherProofs!IInvSafe
       DEF OnlyVerifiedBytesRun, Launcher!OnlyVerifiedBytesRun, LauncherProofs!OnlyVerifiedBytesRun,
           Launcher!Files, LauncherProofs!Files
  <1>. QED
    BY <1>1, LauncherInvariant, PTL

(* The status the launcher returns is the child's, or says truly why not.  *)
THEOREM LauncherFaithful == MCSpec => []ResultFaithful
  <1>1. LauncherProofs!IInv => ResultFaithful
    BY LauncherProofs!IInvSafe DEF ResultFaithful, Launcher!ResultFaithful, LauncherProofs!ResultFaithful
  <1>. QED
    BY <1>1, LauncherInvariant, PTL

(* On every path through its failures, and for any child, the probe gives  *)
(* back what it took, unless the firmware refuses; a verdict of 0 says     *)
(* that it has refused nothing until then, and RESULT_OK that the answer   *)
(* is right and all is back, whatever line of the report is refused.       *)
THEOREM ProbeAccounts == MCSpec => []Accounted
  <1>1. ProbeProofs!IInv => Accounted
    BY ProbeProofs!IInvImpliesAccounted
       DEF Accounted, Probe!Accounted, ProbeProofs!Accounted, Probe!AllBack, ProbeProofs!AllBack
  <1>. QED
    BY <1>1, ProbeInvariant, PTL
=============================================================================
