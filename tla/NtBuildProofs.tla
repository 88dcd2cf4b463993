---------------------------- MODULE NtBuildProofs ----------------------------
(***************************************************************************)
(* Proofs about the launcher NTBUILD, for files of any length and any      *)
(* answer of the firmware.  The strengthening says at each call what is    *)
(* held, what has been verified and what the diagnostic stands for.        *)
(***************************************************************************)
EXTENDS NtBuild, TLAPS

Before == {"loaded_image", "volume", "open_root"}
Read == {"open", "info", "read", "close", "check"}
Run == {"load", "protocol", "start", "registry", "unload"}
End == {"free", "close_root", "finish", "done"}
Labels == Before \cup {"allocate"} \cup Read \cup Run \cup End

Good(f) == [file |-> f, kind |-> "good"]
AllGood == [file : Files, kind : {"good"}]

(* The files that were accepted before this one is read.                   *)
Earlier ==
    [job |-> {}, source |-> {"job"}, core |-> {"job", "source"},
     host |-> {"job", "source", "core"}]
GoodBefore(f) == {Good(g) : g \in Earlier[f]}

FlagsTyped ==
    /\ root \in BOOLEAN /\ pool \in BOOLEAN /\ child \in BOOLEAN /\ ran \in BOOLEAN
    /\ device \in BOOLEAN /\ misuse \in BOOLEAN /\ executed \in BOOLEAN

ValuesTyped ==
    /\ {buffer, image} \subseteq {Nothing} \cup [file : Files, kind : Kinds]
    /\ exit \in Statuses \cup {"none", "aborted"}

TypeOK ==
    /\ pc \in Labels /\ file \in Files
    /\ code \in 910 .. 917
    /\ childStatus \in Statuses /\ cleanup \in Statuses
    /\ held \subseteq Resources
    /\ FlagsTyped /\ ValuesTyped

(* What the flags of the launcher say of the volume and the buffer, and    *)
(* where it has a file or a child.                                         *)
HeldExact ==
    /\ ~ misuse
    /\ "root" \in held <=> root
    /\ "pool" \in held <=> pool
    /\ "file" \in held <=> pc \in {"info", "read", "close"}
    /\ root => pc \notin Before \cup {"finish", "done"}
    /\ pool => pc \notin Before \cup {"allocate", "close_root", "finish", "done"}
    /\ pc \in {"protocol", "start", "unload"} => "child" \in held
    /\ "child" \in held =>
           pc \in Run \ {"load"} \/ (pc \in End /\ code = 917 /\ ~ ran)

(* What has been verified when.                                            *)
VerifiedSoFar ==
    /\ pc \in Before \cup {"allocate"} => file = "job"
    /\ pc \in Before \cup {"allocate"} \cup Read => accepted = GoodBefore(file)
    /\ pc \in {"close", "check"} => buffer \in {Nothing} \cup [file : {file}, kind : Kinds]
    /\ pc = "check" => buffer # Nothing
    /\ pc \in Run => accepted = AllGood /\ buffer = Good("host")
    /\ pc \in {"protocol", "start", "registry"} => image = Good("host")
    /\ pc = "start" => device

(* What a child that ran means, and what is known of it.                   *)
RanVerified ==
    executed =>
        /\ accepted = AllGood /\ image = Good("host") /\ device
        /\ pc \in {"registry", "unload"} \cup End

OutcomeKnown ==
    /\ ran => executed /\ "child" \notin held /\ pc \in End
    /\ pc = "registry" => "child" \in held \/ executed
    /\ pc \notin End => cleanup = "success" /\ code \in 910 .. 915
    /\ pc \in Run => code = 915
    /\ executed => code \in {915, 916, 917}
    /\ code = 916 => childStatus = "success" /\ pc \in End
    /\ ran /\ childStatus = "success" => cleanup = "success"
    /\ pc = "done" => exit = IF ran THEN childStatus ELSE "aborted"

IInv == TypeOK /\ HeldExact /\ VerifiedSoFar /\ RanVerified /\ OutcomeKnown

(* The launcher holds nothing at the start.                                *)
LEMMA InitIInv == Init => IInv
  <1>1. {Good(f) : f \in {}} = {}
    OBVIOUS
  <1>2. Init => accepted = GoodBefore(file)
    BY <1>1 DEF Init, GoodBefore, Earlier
  <1>3. Init => FlagsTyped /\ ValuesTyped
    BY ZenonT(40) DEF Init, FlagsTyped, ValuesTyped
  <1>. QED
    BY <1>2, <1>3 DEF Init, IInv, TypeOK, HeldExact, VerifiedSoFar, RanVerified, OutcomeKnown, Labels,
         Before, Read, Run, End, Files, Statuses, Resources

-----------------------------------------------------------------------------

(* One more file accepted is what the next one, or the launch, asks for.   *)
LEMMA AcceptedNext ==
    ASSUME NEW f \in Files
    PROVE  /\ f # "host" => /\ NextFile[f] \in Files
                           /\ GoodBefore(f) \cup {Good(f)} = GoodBefore(NextFile[f])
           /\ f = "host" => GoodBefore(f) \cup {Good(f)} = AllGood
  <1>. USE DEF GoodBefore, NextFile, Earlier, Files
  <1>0. AllGood = {Good(g) : g \in Files}
    <2>1. ASSUME NEW b \in AllGood PROVE b.file \in Files /\ b = Good(b.file)
      BY <2>1 DEF AllGood, Good
    <2>2. ASSUME NEW g \in Files PROVE Good(g) \in AllGood
      BY DEF AllGood, Good
    <2>. QED
      BY <2>1, <2>2
  <1>1. CASE f = "host"
    BY <1>0, <1>1
  <1>2. CASE f = "job"
    BY <1>2
  <1>3. CASE f = "source"
    BY <1>3
  <1>4. CASE f = "core"
    BY <1>4
  <1>. QED
    BY <1>1, <1>2, <1>3, <1>4

(* A release of something held: it is gone, and a failure turns nothing    *)
(* but the success of a child that ran into E916.                          *)
LEMMA GaveBack ==
    ASSUME ~ misuse, NEW r \in held, GiveBack(r)
    PROVE  misuse' = FALSE /\ held' = held \ {r}
  BY DEF GiveBack

(* What releasing a held thing does, taken or refused by the firmware.     *)
LEMMA Released ==
    ASSUME TypeOK, ~ misuse, NEW r \in held, Release(r)
    PROVE  /\ misuse' = FALSE /\ held' = held \ {r}
           /\ cleanup' \in Statuses /\ ran' \in BOOLEAN
           /\ \/ ran' = ran /\ code' = code /\ (cleanup' = cleanup \/ ~ ran \/ childStatus = "error")
              \/ ran /\ childStatus = "success" /\ ran' = FALSE /\ code' = 916
  <1>1. misuse' = FALSE /\ held' = held \ {r}
    BY GaveBack DEF Release
  <1>2. PICK status \in Statuses : CleanupStatus(status)
    BY DEF Release
  <1>3. CASE status = "success"
    BY <1>1, <1>2, <1>3 DEF CleanupStatus, TypeOK, FlagsTyped
  <1>4. CASE status = "error" /\ ran /\ childStatus = "success"
    BY <1>1, <1>2, <1>4, ZenonT(40) DEF CleanupStatus, Statuses
  <1>5. CASE status = "error" /\ ~ (ran /\ childStatus = "success")
    BY <1>1, <1>2, <1>5 DEF CleanupStatus, Statuses, TypeOK, FlagsTyped
  <1>. QED
    BY <1>3, <1>4, <1>5 DEF Statuses

-----------------------------------------------------------------------------

(* Opening the files, sizing them and taking buffers keep the invariant.   *)
LEMMA AcquiringIInv == ASSUME IInv, Acquiring PROVE IInv'
  <1>. USE DEF IInv, Before, Read, Run, End, Goto, launcher, firmware
  <1>1. CASE LoadedImage
    <2>. USE <1>1 DEF LoadedImage, Acquire, GiveBack, Release, CleanupStatus, ReadEnds
    <2>f. FlagsTyped'
      BY DEF TypeOK, FlagsTyped
    <2>v. ValuesTyped'
      BY DEF TypeOK, ValuesTyped, Files
    <2>1. TypeOK'
      BY <2>f, <2>v DEF TypeOK, Labels, Files, Statuses, Resources
    <2>2. HeldExact'
      BY DEF HeldExact, TypeOK, OutcomeKnown
    <2>3. VerifiedSoFar'
      BY DEF VerifiedSoFar, TypeOK
    <2>4. RanVerified'
      BY DEF RanVerified, VerifiedSoFar, OutcomeKnown
    <2>5. OutcomeKnown'
      BY DEF OutcomeKnown, TypeOK, HeldExact, RanVerified
    <2>. QED
      BY <2>1, <2>2, <2>3, <2>4, <2>5
  <1>2. CASE Volume
    <2>. USE <1>2 DEF Volume, Acquire, GiveBack, Release, CleanupStatus, ReadEnds
    <2>f. FlagsTyped'
      BY DEF TypeOK, FlagsTyped
    <2>v. ValuesTyped'
      BY DEF TypeOK, ValuesTyped, Files
    <2>1. TypeOK'
      BY <2>f, <2>v DEF TypeOK, Labels, Files, Statuses, Resources
    <2>2. HeldExact'
      BY DEF HeldExact, TypeOK, OutcomeKnown
    <2>3. VerifiedSoFar'
      BY DEF VerifiedSoFar, TypeOK
    <2>4. RanVerified'
      BY DEF RanVerified, VerifiedSoFar, OutcomeKnown
    <2>5. OutcomeKnown'
      BY DEF OutcomeKnown, TypeOK, HeldExact, RanVerified
    <2>. QED
      BY <2>1, <2>2, <2>3, <2>4, <2>5
  <1>3. CASE OpenRoot
    <2>. USE <1>3 DEF OpenRoot, Acquire, GiveBack, Release, CleanupStatus, ReadEnds
    <2>f. FlagsTyped'
      BY ZenonT(40) DEF TypeOK, FlagsTyped
    <2>v. ValuesTyped'
      BY DEF TypeOK, ValuesTyped, Files
    <2>1. TypeOK'
      BY <2>f, <2>v, ZenonT(40) DEF TypeOK, Labels, Files, Statuses, Resources
    <2>2. HeldExact'
      BY DEF HeldExact, TypeOK, OutcomeKnown
    <2>3. VerifiedSoFar'
      BY DEF VerifiedSoFar, TypeOK
    <2>4. RanVerified'
      BY DEF RanVerified, VerifiedSoFar, OutcomeKnown
    <2>5. OutcomeKnown'
      BY DEF OutcomeKnown, TypeOK, HeldExact, RanVerified
    <2>. QED
      BY <2>1, <2>2, <2>3, <2>4, <2>5
  <1>4. CASE AllocateBuffer
    <2>. USE <1>4 DEF AllocateBuffer, Acquire, GiveBack, Release, CleanupStatus, ReadEnds
    <2>f. FlagsTyped'
      BY ZenonT(40) DEF TypeOK, FlagsTyped
    <2>v. ValuesTyped'
      BY DEF TypeOK, ValuesTyped, Files
    <2>1. TypeOK'
      BY <2>f, <2>v, ZenonT(40) DEF TypeOK, Labels, Files, Statuses, Resources
    <2>2. HeldExact'
      BY DEF HeldExact, TypeOK, OutcomeKnown
    <2>3. VerifiedSoFar'
      BY DEF VerifiedSoFar, TypeOK
    <2>4. RanVerified'
      BY DEF RanVerified, VerifiedSoFar, OutcomeKnown
    <2>5. OutcomeKnown'
      BY DEF OutcomeKnown, TypeOK, HeldExact, RanVerified
    <2>. QED
      BY <2>1, <2>2, <2>3, <2>4, <2>5
  <1>. QED
    BY <1>1, <1>2, <1>3, <1>4 DEF Acquiring

(* Reading and hashing keep the invariant.                                 *)
LEMMA ReadingIInv == ASSUME IInv, Reading PROVE IInv'
  <1>. USE DEF IInv, Before, Read, Run, End, Goto, launcher, firmware
  <1>1. CASE OpenFile
    <2>. USE <1>1 DEF OpenFile, Acquire, GiveBack, Release, CleanupStatus, ReadEnds
    <2>f. FlagsTyped'
      BY DEF TypeOK, FlagsTyped
    <2>v. ValuesTyped'
      BY DEF TypeOK, ValuesTyped, Files
    <2>1. TypeOK'
      BY <2>f, <2>v, ZenonT(40) DEF TypeOK, Labels, Files, Statuses, Resources
    <2>2. HeldExact'
      BY DEF HeldExact, TypeOK, OutcomeKnown
    <2>3. VerifiedSoFar'
      BY DEF VerifiedSoFar, TypeOK
    <2>4. RanVerified'
      BY DEF RanVerified, VerifiedSoFar, OutcomeKnown
    <2>5. OutcomeKnown'
      BY DEF OutcomeKnown, TypeOK, HeldExact, RanVerified
    <2>. QED
      BY <2>1, <2>2, <2>3, <2>4, <2>5
  <1>2. CASE GetInfo
    <2>. USE <1>2 DEF GetInfo, Acquire, GiveBack, Release, CleanupStatus, ReadEnds
    <2>f. FlagsTyped'
      BY DEF TypeOK, FlagsTyped
    <2>v. ValuesTyped'
      BY DEF TypeOK, ValuesTyped, Files
    <2>1. TypeOK'
      BY <2>f, <2>v DEF TypeOK, Labels, Files, Statuses, Resources
    <2>2. HeldExact'
      BY DEF HeldExact, TypeOK, OutcomeKnown
    <2>3. VerifiedSoFar'
      BY DEF VerifiedSoFar, TypeOK
    <2>4. RanVerified'
      BY DEF RanVerified, VerifiedSoFar, OutcomeKnown
    <2>5. OutcomeKnown'
      BY DEF OutcomeKnown, TypeOK, HeldExact, RanVerified
    <2>. QED
      BY <2>1, <2>2, <2>3, <2>4, <2>5
  <1>3. CASE ReadChunk
    <2>. USE <1>3 DEF ReadChunk, Acquire, GiveBack, Release, CleanupStatus, ReadEnds
    <2>f. FlagsTyped'
      BY DEF TypeOK, FlagsTyped
    <2>v. ValuesTyped'
      BY DEF TypeOK, ValuesTyped, Files
    <2>1. TypeOK'
      BY <2>f, <2>v DEF TypeOK, Labels, Files, Statuses, Resources
    <2>2. HeldExact'
      BY DEF HeldExact, TypeOK, OutcomeKnown
    <2>3. VerifiedSoFar'
      BY DEF VerifiedSoFar, TypeOK
    <2>4. RanVerified'
      BY DEF RanVerified, VerifiedSoFar, OutcomeKnown
    <2>5. OutcomeKnown'
      BY DEF OutcomeKnown, TypeOK, HeldExact, RanVerified
    <2>. QED
      BY <2>1, <2>2, <2>3, <2>4, <2>5
  <1>4. CASE CloseFile
    <2>. USE <1>4 DEF CloseFile
    <2>a. misuse' = FALSE /\ held' = held \ {"file"}
      BY GaveBack DEF HeldExact
    <2>f. FlagsTyped'
      BY <2>a, ZenonT(40) DEF TypeOK, FlagsTyped
    <2>v. ValuesTyped'
      BY DEF TypeOK, ValuesTyped, Files
    <2>1. TypeOK'
      BY <2>f, <2>v, <2>a DEF TypeOK, Labels, Files, Statuses, Resources
    <2>2. HeldExact'
      BY <2>a DEF HeldExact, TypeOK, OutcomeKnown
    <2>3. VerifiedSoFar'
      BY <2>a DEF VerifiedSoFar, TypeOK
    <2>4. RanVerified'
      BY <2>a DEF RanVerified, VerifiedSoFar, OutcomeKnown
    <2>5. OutcomeKnown'
      BY <2>a DEF OutcomeKnown, TypeOK, HeldExact, RanVerified
    <2>. QED
      BY <2>1, <2>2, <2>3, <2>4, <2>5
  <1>. QED
    BY <1>1, <1>2, <1>3, <1>4 DEF Reading

(* Verifying, loading and starting the child keep the invariant.           *)
LEMMA LaunchingIInv == ASSUME IInv, Launching PROVE IInv'
  <1>. USE DEF IInv, Before, Read, Run, End, Goto, launcher, firmware
  <1>1. CASE Check
    <2>. USE <1>1 DEF Check, Acquire, GiveBack, Release, CleanupStatus, ReadEnds
    <2>f. FlagsTyped'
      BY DEF TypeOK, FlagsTyped
    <2>v. ValuesTyped'
      BY DEF TypeOK, ValuesTyped, Files
    <2>1. TypeOK'
      BY <2>f, <2>v DEF TypeOK, Labels, NextCode, NextFile, Refusal, LengthOK, Files, Statuses, Resources
    <2>2. HeldExact'
      BY DEF HeldExact, TypeOK, OutcomeKnown
    <2>3. VerifiedSoFar'
      <3>1. CASE ~ Accepted
        BY <3>1 DEF VerifiedSoFar
      <3>2. CASE Accepted
        <4>1. buffer = Good(file) /\ accepted' = GoodBefore(file) \cup {Good(file)}
          BY <3>2 DEF VerifiedSoFar, Accepted, Good
        <4>. QED
          BY <3>2, <4>1, AcceptedNext DEF VerifiedSoFar, TypeOK
      <3>. QED
        BY <3>1, <3>2
    <2>4. RanVerified'
      BY DEF RanVerified, VerifiedSoFar, OutcomeKnown
    <2>5. OutcomeKnown'
      BY DEF OutcomeKnown, NextCode, Refusal, LengthOK, Files, TypeOK, HeldExact, RanVerified
    <2>. QED
      BY <2>1, <2>2, <2>3, <2>4, <2>5
  <1>2. CASE LoadImage
    <2>. USE <1>2 DEF LoadImage, Acquire, GiveBack, Release, CleanupStatus, ReadEnds
    <2>f. FlagsTyped'
      BY ZenonT(40) DEF TypeOK, FlagsTyped
    <2>v. ValuesTyped'
      BY DEF TypeOK, ValuesTyped, Files
    <2>1. TypeOK'
      BY <2>f, <2>v, ZenonT(40) DEF TypeOK, Labels, Files, Statuses, Resources
    <2>2. HeldExact'
      BY DEF HeldExact, TypeOK, OutcomeKnown
    <2>3. VerifiedSoFar'
      BY DEF VerifiedSoFar, TypeOK
    <2>4. RanVerified'
      BY DEF RanVerified, VerifiedSoFar, OutcomeKnown
    <2>5. OutcomeKnown'
      BY DEF OutcomeKnown, TypeOK, HeldExact, RanVerified
    <2>. QED
      BY <2>1, <2>2, <2>3, <2>4, <2>5
  <1>3. CASE ChildProtocol
    <2>. USE <1>3 DEF ChildProtocol, Acquire, GiveBack, Release, CleanupStatus, ReadEnds
    <2>f. FlagsTyped'
      BY ZenonT(40) DEF TypeOK, FlagsTyped
    <2>v. ValuesTyped'
      BY DEF TypeOK, ValuesTyped, Files
    <2>1. TypeOK'
      BY <2>f, <2>v DEF TypeOK, Labels, Files, Statuses, Resources
    <2>2. HeldExact'
      BY DEF HeldExact, TypeOK, OutcomeKnown
    <2>3. VerifiedSoFar'
      BY DEF VerifiedSoFar, TypeOK
    <2>4. RanVerified'
      BY DEF RanVerified, VerifiedSoFar, OutcomeKnown
    <2>5. OutcomeKnown'
      BY DEF OutcomeKnown, TypeOK, HeldExact, RanVerified
    <2>. QED
      BY <2>1, <2>2, <2>3, <2>4, <2>5
  <1>4. CASE StartImage
    <2>. USE <1>4 DEF StartImage, Acquire, GiveBack, Release, CleanupStatus, ReadEnds
    <2>f. FlagsTyped'
      BY ZenonT(40) DEF TypeOK, FlagsTyped
    <2>v. ValuesTyped'
      BY DEF TypeOK, ValuesTyped, Files
    <2>1. TypeOK'
      BY <2>f, <2>v, ZenonT(40) DEF TypeOK, Labels, Files, Statuses, Resources
    <2>2. HeldExact'
      BY DEF HeldExact, TypeOK, OutcomeKnown
    <2>3. VerifiedSoFar'
      BY DEF VerifiedSoFar, TypeOK
    <2>4. RanVerified'
      BY DEF RanVerified, VerifiedSoFar, OutcomeKnown
    <2>5. OutcomeKnown'
      BY DEF OutcomeKnown, TypeOK, HeldExact, RanVerified
    <2>. QED
      BY <2>1, <2>2, <2>3, <2>4, <2>5
  <1>5. CASE Registry
    <2>. USE <1>5 DEF Registry, Acquire, GiveBack, Release, CleanupStatus, ReadEnds
    <2>f. FlagsTyped'
      <3>1. CASE ran' = TRUE /\ child' = FALSE
        BY <3>1, ZenonT(40) DEF TypeOK, FlagsTyped
      <3>2. CASE UNCHANGED <<child, ran>>
        BY <3>2 DEF TypeOK, FlagsTyped
      <3>. QED
        BY <3>1, <3>2
    <2>v. ValuesTyped'
      BY DEF TypeOK, ValuesTyped, Files
    <2>1. TypeOK'
      BY <2>f, <2>v DEF TypeOK, Labels, Files, Statuses, Resources
    <2>2. HeldExact'
      BY DEF HeldExact, TypeOK, OutcomeKnown
    <2>3. VerifiedSoFar'
      BY DEF VerifiedSoFar, TypeOK
    <2>4. RanVerified'
      BY DEF RanVerified, VerifiedSoFar, OutcomeKnown
    <2>5. OutcomeKnown'
      BY DEF OutcomeKnown, TypeOK, HeldExact, RanVerified
    <2>. QED
      BY <2>1, <2>2, <2>3, <2>4, <2>5
  <1>. QED
    BY <1>1, <1>2, <1>3, <1>4, <1>5 DEF Launching

(* The releases at the end keep the invariant.                             *)
LEMMA EndingIInv == ASSUME IInv, Ending PROVE IInv'
  <1>. USE DEF IInv, Before, Read, Run, End, Goto, launcher, firmware
  <1>1. CASE UnloadChild
    <2>. USE <1>1 DEF UnloadChild
    <2>a. /\ misuse' = FALSE /\ held' = held \ {"child"}
          /\ cleanup' \in Statuses /\ ran' \in BOOLEAN
          /\ \/ ran' = ran /\ code' = code /\ (cleanup' = cleanup \/ ~ ran \/ childStatus = "error")
             \/ ran /\ childStatus = "success" /\ ran' = FALSE /\ code' = 916
      BY Released, ZenonT(40) DEF HeldExact, Resources
    <2>f. FlagsTyped'
      BY <2>a, ZenonT(40) DEF TypeOK, FlagsTyped
    <2>v. ValuesTyped'
      BY DEF TypeOK, ValuesTyped, Files
    <2>1. TypeOK'
      BY <2>f, <2>v, <2>a DEF TypeOK, Labels, Files, Statuses, Resources
    <2>2. HeldExact'
      BY <2>a DEF HeldExact, TypeOK, OutcomeKnown
    <2>3. VerifiedSoFar'
      BY <2>a DEF VerifiedSoFar, TypeOK
    <2>4. RanVerified'
      BY <2>a DEF RanVerified, VerifiedSoFar, OutcomeKnown
    <2>5. OutcomeKnown'
      BY <2>a DEF OutcomeKnown, TypeOK, HeldExact, RanVerified
    <2>. QED
      BY <2>1, <2>2, <2>3, <2>4, <2>5
  <1>2. CASE FreeBuffer
    <2>. USE <1>2 DEF FreeBuffer
    <2>a. /\ misuse' = FALSE /\ held' = held \ {"pool"}
          /\ cleanup' \in Statuses /\ ran' \in BOOLEAN
          /\ \/ ran' = ran /\ code' = code /\ (cleanup' = cleanup \/ ~ ran \/ childStatus = "error")
             \/ ran /\ childStatus = "success" /\ ran' = FALSE /\ code' = 916
      <3>1. CASE pool
        BY <3>1, Released, ZenonT(40) DEF HeldExact
      <3>2. CASE ~ pool
        BY <3>2 DEF HeldExact, TypeOK, FlagsTyped
      <3>. QED
        BY <3>1, <3>2
    <2>f. FlagsTyped'
      BY <2>a, ZenonT(40) DEF TypeOK, FlagsTyped
    <2>v. ValuesTyped'
      BY DEF TypeOK, ValuesTyped, Files
    <2>1. TypeOK'
      BY <2>f, <2>v, <2>a DEF TypeOK, Labels, Files, Statuses, Resources
    <2>2. HeldExact'
      BY <2>a DEF HeldExact, TypeOK, OutcomeKnown
    <2>3. VerifiedSoFar'
      BY <2>a DEF VerifiedSoFar, TypeOK
    <2>4. RanVerified'
      BY <2>a DEF RanVerified, VerifiedSoFar, OutcomeKnown
    <2>5. OutcomeKnown'
      BY <2>a DEF OutcomeKnown, TypeOK, HeldExact, RanVerified
    <2>. QED
      BY <2>1, <2>2, <2>3, <2>4, <2>5
  <1>3. CASE CloseRoot
    <2>. USE <1>3 DEF CloseRoot
    <2>a. /\ misuse' = FALSE /\ held' = held \ {"root"}
          /\ cleanup' \in Statuses /\ ran' \in BOOLEAN
          /\ \/ ran' = ran /\ code' = code /\ (cleanup' = cleanup \/ ~ ran \/ childStatus = "error")
             \/ ran /\ childStatus = "success" /\ ran' = FALSE /\ code' = 916
      <3>1. CASE root
        BY <3>1, Released, ZenonT(40) DEF HeldExact
      <3>2. CASE ~ root
        BY <3>2 DEF HeldExact, TypeOK, FlagsTyped
      <3>. QED
        BY <3>1, <3>2
    <2>f. FlagsTyped'
      BY <2>a, ZenonT(40) DEF TypeOK, FlagsTyped
    <2>v. ValuesTyped'
      BY DEF TypeOK, ValuesTyped, Files
    <2>1. TypeOK'
      BY <2>f, <2>v, <2>a DEF TypeOK, Labels, Files, Statuses, Resources
    <2>2. HeldExact'
      BY <2>a DEF HeldExact, TypeOK, OutcomeKnown
    <2>3. VerifiedSoFar'
      BY <2>a DEF VerifiedSoFar, TypeOK
    <2>4. RanVerified'
      BY <2>a DEF RanVerified, VerifiedSoFar, OutcomeKnown
    <2>5. OutcomeKnown'
      BY <2>a DEF OutcomeKnown, TypeOK, HeldExact, RanVerified
    <2>. QED
      BY <2>1, <2>2, <2>3, <2>4, <2>5
  <1>4. CASE Finish
    <2>. USE <1>4 DEF Finish, Acquire, GiveBack, Release, CleanupStatus, ReadEnds
    <2>f. FlagsTyped'
      BY DEF TypeOK, FlagsTyped
    <2>v. ValuesTyped'
      BY DEF TypeOK, ValuesTyped, Files
    <2>1. TypeOK'
      BY <2>f, <2>v DEF TypeOK, Labels, Files, Statuses, Resources
    <2>2. HeldExact'
      BY DEF HeldExact, TypeOK, OutcomeKnown
    <2>3. VerifiedSoFar'
      BY DEF VerifiedSoFar, TypeOK
    <2>4. RanVerified'
      BY DEF RanVerified, VerifiedSoFar, OutcomeKnown
    <2>5. OutcomeKnown'
      BY DEF OutcomeKnown, TypeOK, HeldExact, RanVerified
    <2>. QED
      BY <2>1, <2>2, <2>3, <2>4, <2>5
  <1>. QED
    BY <1>1, <1>2, <1>3, <1>4 DEF Ending

-----------------------------------------------------------------------------

(* Every step keeps the invariant.                                         *)
LEMMA NextIInv == IInv /\ [Next]_vars => IInv'
  <1>. SUFFICES ASSUME IInv, [Next]_vars PROVE IInv'
    OBVIOUS
  <1>1. CASE Step
    BY <1>1, AcquiringIInv, ReadingIInv, LaunchingIInv, EndingIInv DEF Step
  <1>2. CASE UNCHANGED vars
    BY <1>2 DEF vars, launcher, firmware, IInv, TypeOK, FlagsTyped, ValuesTyped, HeldExact, VerifiedSoFar,
                RanVerified, OutcomeKnown
  <1>. QED
    BY <1>1, <1>2 DEF Next, Done

(* The invariant the launcher's theorems rest on holds for ever.           *)
LEMMA Invariant == Spec => []IInv
  BY InitIInv, NextIInv, PTL DEF Spec

(* The invariant gives the three properties of the launcher.               *)
LEMMA IInvSafe == IInv => ReleasedOnce /\ OnlyVerifiedBytesRun /\ ResultFaithful
  <1>1. IInv => ReleasedOnce
    BY DEF IInv, TypeOK, HeldExact, ReleasedOnce, Resources, End, Run
  <1>2. IInv => OnlyVerifiedBytesRun
    BY DEF IInv, RanVerified, OnlyVerifiedBytesRun, AllGood, Good
  <1>3. IInv => ResultFaithful
    BY DEF IInv, TypeOK, Statuses, OutcomeKnown, ResultFaithful, End
  <1>. QED
    BY <1>1, <1>2, <1>3

(* Every variable keeps to the values the launcher's code gives it.        *)
THEOREM Typed == Spec => []TypeOK
  <1>1. IInv => TypeOK
    BY DEF IInv
  <1>. QED
    BY <1>1, Invariant, PTL

(* Whatever the firmware answers, nothing is released twice or without     *)
(* being held, and a launcher that returned holds nothing, unless E917     *)
(* says that nobody knows of the child.                                    *)
THEOREM NothingReleasedTwice == Spec => []ReleasedOnce
  BY IInvSafe, Invariant, PTL

(* No byte that failed its check, or was not hashed, is ever executed.     *)
THEOREM ChildVerified == Spec => []OnlyVerifiedBytesRun
  BY IInvSafe, Invariant, PTL

(* The status that is returned is the child's, or says truly why not.      *)
THEOREM StatusFaithful == Spec => []ResultFaithful
  BY IInvSafe, Invariant, PTL

-----------------------------------------------------------------------------
(* The read loop and its buffer.                                           *)

InsideBuffer ==
    /\ pos \in 0 .. CAPACITY /\ size \in 0 .. CAPACITY
    /\ pc = "info" => pos = 0
    /\ pc = "read" => pos <= Limit[file]

(* No read goes past the buffer, however the firmware slices it.           *)
LEMMA ReadingInside ==
    ASSUME LimitAssumption, TypeOK, InsideBuffer, Reading
    PROVE  InsideBuffer'
  <1>. USE DEF LimitAssumption, InsideBuffer, TypeOK, Goto
  <1>0. Limit[file] \in Nat /\ Limit[file] < CAPACITY
    OBVIOUS
  <1>1. CASE OpenFile
    BY <1>1 DEF OpenFile
  <1>2. CASE GetInfo
    BY <1>0, <1>2 DEF GetInfo, ReadEnds
  <1>3. CASE ReadChunk
    BY <1>0, <1>3 DEF ReadChunk, ReadEnds
  <1>4. CASE CloseFile
    BY <1>4 DEF CloseFile, launcher
  <1>. QED
    BY <1>1, <1>2, <1>3, <1>4 DEF Reading

(* However the file system slices a file and whatever length it announces, *)
(* no byte is read past the buffer, the one more than the limit included.  *)
THEOREM ReadsInsideBuffer == LimitAssumption => (Spec => []InsideBuffer)
  <1>. SUFFICES ASSUME LimitAssumption PROVE Spec => []InsideBuffer
    OBVIOUS
  <1>1. Init => InsideBuffer
    BY DEF LimitAssumption, Init, InsideBuffer
  <1>2. TypeOK /\ InsideBuffer /\ [Next]_vars => InsideBuffer'
    <2>. SUFFICES ASSUME TypeOK, InsideBuffer, [Next]_vars PROVE InsideBuffer'
      OBVIOUS
    <2>1. CASE Reading
      BY <2>1, ReadingInside
    <2>2. CASE Acquiring \/ Launching \/ Ending
      BY <2>2 DEF Acquiring, LoadedImage, Volume, OpenRoot, AllocateBuffer, Launching, Check,
                  LoadImage, ChildProtocol, StartImage, Registry, Ending, UnloadChild, FreeBuffer,
                  CloseRoot, Finish, Goto, launcher, InsideBuffer
    <2>3. CASE UNCHANGED vars
      BY <2>3 DEF vars, launcher, InsideBuffer
    <2>. QED
      BY <2>1, <2>2, <2>3 DEF Next, Step, Done
  <1>. QED
    BY <1>1, <1>2, Typed, PTL DEF Spec
=============================================================================
