------------------------------- MODULE NtBuild -------------------------------
(***************************************************************************)
(* The closed launcher NTBUILD (toolchain/native-build/ntbuild.ntasm): a   *)
(* UEFI application that reads a recipe, a source and two pinned producer  *)
(* images, checks their digests, loads the producer host from the very     *)
(* bytes it hashed, starts it, and cleans up.  Every action is one         *)
(* firmware call with the code up to the next one; every call may fail.    *)
(* The firmware is outside the repository: its side (what it holds for the *)
(* launcher, what it answers) is chosen nondeterministically.              *)
(***************************************************************************)
EXTENDS Integers, FiniteSets

CONSTANTS
    Limit,        \* largest length accepted for each file (the RDX of read_file)
    JOB_LENGTH,   \* exact length of a recipe (153)
    CAPACITY      \* bytes of the pool buffer (65664)

Files == {"job", "source", "core", "host"}

LimitAssumption ==
    /\ Limit \in [Files -> Nat] /\ CAPACITY \in Nat /\ JOB_LENGTH \in Nat
    /\ \A f \in Files : Limit[f] < CAPACITY

VARIABLES
    pc,           \* the next firmware call
    code,         \* state+0: the diagnostic NG_NTASM_MODULE_E91x
    file,         \* the file read_file is reading
    size,         \* state+64: its length according to GetInfo
    pos,          \* rdi: bytes read so far
    root,         \* state+32: the root directory is to be closed
    pool,         \* state+48: the buffer is to be freed
    child,        \* state+88: the child handle, when not 0
    ran,          \* state+112: the child ran and is gone
    childStatus,  \* state+104: what StartImage returned
    cleanup,      \* state+120: the first cleanup failure
    buffer,       \* whose bytes the pool holds, and what they are
    image,        \* the bytes LoadImage was given and did not refuse
    device,       \* the child's DeviceHandle is the launcher's volume
    exit,         \* EFI_STATUS returned
    held,         \* firmware: what the launcher has acquired and not released
    misuse,       \* firmware: something not held was released
    executed,     \* firmware: the child's entry point was called
    accepted      \* history: the bytes that passed their check

launcher == <<code, file, size, pos, root, pool, child, ran, childStatus,
              cleanup, buffer, image, device, exit>>
firmware == <<held, misuse, executed>>
vars == <<pc, launcher, firmware, accepted>>

Resources == {"root", "pool", "file", "child"}
Statuses == {"success", "error"}
Kinds == {"good", "version", "profile", "bad"}
Nothing == [file |-> "none", kind |-> "bad"]

Init ==
    /\ pc = "loaded_image"
    /\ code = 910
    /\ file = "job" /\ size = 0 /\ pos = 0
    /\ root = FALSE /\ pool = FALSE /\ child = FALSE
    /\ ran = FALSE /\ childStatus = "success" /\ cleanup = "success"
    /\ buffer = Nothing /\ image = Nothing
    /\ device = FALSE
    /\ exit = "none"
    /\ held = {} /\ misuse = FALSE /\ executed = FALSE
    /\ accepted = {}

Goto(label) == pc' = label
Acquire(r) == held' = held \cup {r}
GiveBack(r) == held' = held \ {r} /\ misuse' = (misuse \/ r \notin held)

-----------------------------------------------------------------------------
(* Acquiring the volume and the buffer (start).                            *)

(* HandleProtocol twice on the launcher's own image, then OpenVolume: a    *)
(* failure there leaves nothing to clean up.                               *)
LoadedImage ==
    /\ pc = "loaded_image"
    /\ Goto("volume") \/ Goto("finish")
    /\ UNCHANGED <<launcher, firmware, accepted>>

Volume ==
    /\ pc = "volume"
    /\ Goto("open_root") \/ Goto("finish")
    /\ UNCHANGED <<launcher, firmware, accepted>>

OpenRoot ==
    /\ pc = "open_root"
    /\ \/ Goto("allocate") /\ root' = TRUE /\ Acquire("root")
       \/ Goto("finish") /\ UNCHANGED <<root, held>>
    /\ UNCHANGED <<code, file, size, pos, pool, child, ran, childStatus,
                   cleanup, buffer, image, device, exit, misuse, executed,
                   accepted>>

AllocateBuffer ==
    /\ pc = "allocate"
    /\ \/ Goto("open") /\ pool' = TRUE /\ Acquire("pool")
       \/ Goto("free") /\ UNCHANGED <<pool, held>>
    /\ UNCHANGED <<code, file, size, pos, root, child, ran, childStatus,
                   cleanup, buffer, image, device, exit, misuse, executed,
                   accepted>>

-----------------------------------------------------------------------------
(* read_file.                                                              *)

OpenFile ==
    /\ pc = "open"
    /\ \/ Goto("info") /\ Acquire("file")
       \/ Goto("free") /\ UNCHANGED held
    /\ pos' = 0
    /\ UNCHANGED <<code, file, size, root, pool, child, ran, childStatus,
                   cleanup, buffer, image, device, exit, misuse, executed,
                   accepted>>

(* Leaving the read loop for the Close: the bytes are all there only when  *)
(* EOF came after exactly the announced length.                            *)
ReadEnds(complete) ==
    /\ Goto("close")
    /\ \E kind \in Kinds :
         buffer' = IF complete THEN [file |-> file, kind |-> kind] ELSE Nothing

(* GetInfo: a directory, a malformed answer or too long a file is refused. *)
GetInfo ==
    /\ pc = "info"
    /\ \/ ReadEnds(FALSE) /\ UNCHANGED size
       \/ \E n \in 0 .. CAPACITY :
            IF n > Limit[file] THEN ReadEnds(FALSE) /\ UNCHANGED size
            ELSE Goto("read") /\ size' = n /\ UNCHANGED buffer
    /\ UNCHANGED <<code, file, pos, root, pool, child, ran, childStatus,
                   cleanup, image, device, exit, firmware, accepted>>

(* Mutant: an empty read starts the file over instead of ending it.        *)
ReadChunk_Restarts ==
    /\ pc = "read"
    /\ \E n \in 0 .. (Limit[file] + 1) - pos :
         /\ pos' = IF n = 0 THEN 0 ELSE pos + n
         /\ IF pos' > Limit[file] THEN ReadEnds(FALSE)
            ELSE Goto("read") /\ UNCHANGED buffer
    /\ UNCHANGED <<code, file, size, root, pool, child, ran, childStatus,
                   cleanup, image, device, exit, firmware, accepted>>

(* Read of what is left up to the limit and one byte more, so that a file  *)
(* longer than announced shows.  The answer may claim more than was asked. *)
ReadChunk ==
    /\ pc = "read"
    /\ \/ ReadEnds(FALSE) /\ UNCHANGED pos
       \/ LET asked == Limit[file] + 1 - pos
          IN  \E n \in 0 .. asked + 1 :
                IF n > asked THEN ReadEnds(FALSE) /\ UNCHANGED pos
                ELSE IF n = 0 THEN ReadEnds(pos = size) /\ UNCHANGED pos
                ELSE /\ pos' = pos + n
                     /\ IF pos + n > Limit[file] THEN ReadEnds(FALSE)
                        ELSE Goto("read") /\ UNCHANGED buffer
    /\ UNCHANGED <<code, file, size, root, pool, child, ran, childStatus,
                   cleanup, image, device, exit, firmware, accepted>>

(* Close, always; its failure fails the whole read.                        *)
CloseFile ==
    /\ pc = "close"
    /\ GiveBack("file")
    /\ \/ Goto(IF buffer = Nothing THEN "free" ELSE "check")
       \/ Goto("free")
    /\ UNCHANGED <<launcher, executed, accepted>>

-----------------------------------------------------------------------------
(* What the bytes must be.                                                 *)

LengthOK ==
    CASE file = "job" -> pos = JOB_LENGTH
      [] file = "source" -> pos # 0
      [] OTHER -> pos = Limit[file]

Accepted == LengthOK /\ buffer.kind = "good"

(* The diagnostic of a refused file; the recipe has one more for a wrong   *)
(* profile.                                                                *)
Refusal ==
    CASE file = "job" /\ LengthOK /\ buffer.kind = "profile" -> 911
      [] OTHER -> code

NextFile == [job |-> "source", source |-> "core", core |-> "host"]
NextCode == [job |-> 912, source |-> 913, core |-> 914, host |-> 915]

Check ==
    /\ pc = "check"
    /\ IF ~Accepted
       THEN Goto("free") /\ code' = Refusal /\ UNCHANGED <<file, accepted>>
       ELSE /\ code' = NextCode[file]
            /\ accepted' = accepted \cup {buffer}
            /\ IF file = "host" THEN Goto("load") /\ UNCHANGED file
               ELSE Goto("open") /\ file' = NextFile[file]
    /\ UNCHANGED <<size, pos, root, pool, child, ran, childStatus, cleanup,
                   buffer, image, device, exit, firmware>>

-----------------------------------------------------------------------------
(* The child.                                                              *)

(* Mutant: a handle is taken for a loaded image, whatever the status.      *)
LoadImage_HandleIsEnough ==
    /\ pc = "load"
    /\ \/ /\ image' \in {buffer, image}
          /\ Goto("protocol") /\ child' = TRUE /\ Acquire("child")
       \/ Goto("free") /\ UNCHANGED <<image, child, held>>
    /\ UNCHANGED <<code, file, size, pos, root, pool, ran, childStatus,
                   cleanup, buffer, device, exit, misuse, executed, accepted>>

(* LoadImage from the buffer.  SECURITY_VIOLATION may come with a loaded   *)
(* image that must not be started, only unloaded.                          *)
LoadImage ==
    /\ pc = "load"
    /\ \/ Goto("protocol") /\ image' = buffer /\ child' = TRUE /\ Acquire("child")
       \/ Goto("unload") /\ UNCHANGED image /\ child' = TRUE /\ Acquire("child")
       \/ Goto("free") /\ UNCHANGED <<image, child, held>>
    /\ UNCHANGED <<code, file, size, pos, root, pool, ran, childStatus,
                   cleanup, buffer, device, exit, misuse, executed, accepted>>

(* HandleProtocol on the child; its DeviceHandle becomes the launcher's.   *)
ChildProtocol ==
    /\ pc = "protocol"
    /\ \/ Goto("start") /\ device' = TRUE
       \/ Goto("unload") /\ UNCHANGED device
    /\ UNCHANGED <<code, file, size, pos, root, pool, child, ran, childStatus,
                   cleanup, buffer, image, exit, firmware, accepted>>

(* StartImage: the child runs and returns any status, its image then gone  *)
(* or (for another kind of image) still resident; or it is not run at all. *)
StartImage ==
    /\ pc = "start"
    /\ Goto("registry")
    /\ childStatus' \in Statuses
    /\ \/ executed' = TRUE /\ held' \in {held, held \ {"child"}}
       \/ childStatus' = "error" /\ UNCHANGED <<executed, held>>
    /\ UNCHANGED <<code, file, size, pos, root, pool, child, ran, cleanup,
                   buffer, image, device, exit, misuse, accepted>>

(* Mutant: unload whenever the registry could not be read.                 *)
Registry_UnloadAnyway ==
    /\ pc = "registry"
    /\ \/ Goto("unload") /\ UNCHANGED <<code, child, ran>>
       \/ /\ "child" \notin held
          /\ Goto("free") /\ ran' = TRUE /\ child' = FALSE /\ UNCHANGED code
    /\ UNCHANGED <<file, size, pos, root, pool, childStatus, cleanup, buffer,
                   image, device, exit, firmware, accepted>>

(* LocateHandle tells whether the child is still resident.  When it fails, *)
(* or answers nonsense, nobody knows: the handle is left alone.            *)
Registry ==
    /\ pc = "registry"
    /\ \/ Goto("free") /\ code' = 917 /\ UNCHANGED <<child, ran>>
       \/ /\ "child" \in held
          /\ Goto("unload") /\ UNCHANGED <<code, child, ran>>
       \/ /\ "child" \notin held
          /\ Goto("free") /\ ran' = TRUE /\ child' = FALSE /\ UNCHANGED code
    /\ UNCHANGED <<file, size, pos, root, pool, childStatus, cleanup, buffer,
                   image, device, exit, firmware, accepted>>

-----------------------------------------------------------------------------
(* Cleaning up.                                                            *)

(* Mutant: a cleanup failure also replaces the status of a failed child.   *)
CleanupStatus_Masks(status) ==
    IF status = "success" THEN UNCHANGED <<cleanup, ran, code>>
    ELSE /\ cleanup' = "error"
         /\ IF ran THEN ran' = FALSE /\ code' = 916
            ELSE UNCHANGED <<ran, code>>

(* cleanup_status: the first failure is recorded, and turns the success of *)
(* a child into E916; any earlier failure keeps priority.                  *)
CleanupStatus(status) ==
    IF status = "success" THEN UNCHANGED <<cleanup, ran, code>>
    ELSE /\ cleanup' = "error"
         /\ IF ran /\ childStatus = "success" THEN ran' = FALSE /\ code' = 916
            ELSE UNCHANGED <<ran, code>>

(* A release call: attempted once, whatever it returns.                    *)
Release(r) ==
    /\ GiveBack(r)
    /\ \E status \in Statuses : CleanupStatus(status)

UnloadChild ==
    /\ pc = "unload"
    /\ Release("child")
    /\ child' = FALSE
    /\ Goto("free")
    /\ UNCHANGED <<file, size, pos, root, pool, childStatus, buffer, image,
                   device, exit, executed, accepted>>

FreeBuffer ==
    /\ pc = "free"
    /\ Goto("close_root")
    /\ pool' = FALSE
    /\ IF pool THEN Release("pool")
       ELSE UNCHANGED <<held, misuse, cleanup, ran, code>>
    /\ UNCHANGED <<file, size, pos, root, child, childStatus, buffer, image,
                   device, exit, executed, accepted>>

CloseRoot ==
    /\ pc = "close_root"
    /\ Goto("finish")
    /\ root' = FALSE
    /\ IF root THEN Release("root")
       ELSE UNCHANGED <<held, misuse, cleanup, ran, code>>
    /\ UNCHANGED <<file, size, pos, pool, child, childStatus, buffer, image,
                   device, exit, executed, accepted>>

(* finish: the child's own status, or one diagnostic and EFI_ABORTED.      *)
Finish ==
    /\ pc = "finish"
    /\ Goto("done")
    /\ exit' = IF ran THEN childStatus ELSE "aborted"
    /\ UNCHANGED <<code, file, size, pos, root, pool, child, ran, childStatus,
                   cleanup, buffer, image, device, firmware, accepted>>

Done == pc = "done" /\ UNCHANGED vars

-----------------------------------------------------------------------------

Acquiring == LoadedImage \/ Volume \/ OpenRoot \/ AllocateBuffer
Reading == OpenFile \/ GetInfo \/ ReadChunk \/ CloseFile
Launching == Check \/ LoadImage \/ ChildProtocol \/ StartImage \/ Registry
Ending == UnloadChild \/ FreeBuffer \/ CloseRoot \/ Finish

Step == Acquiring \/ Reading \/ Launching \/ Ending
Next == Step \/ Done

(* Firmware calls return, the child included.                              *)
Spec == Init /\ [][Next]_vars /\ WF_vars(Step)

-----------------------------------------------------------------------------
(* Properties.                                                             *)

(* No firmware object is released twice, and none that is not held: above  *)
(* all, a handle not proved resident is never unloaded.  And when the      *)
(* launcher returns it has released everything it acquired, the child      *)
(* excepted when the registry could not tell (E917).                       *)
ReleasedOnce ==
    /\ ~misuse
    /\ pc = "done" => held \subseteq (IF code = 917 THEN {"child"} ELSE {})

(* The child's entry point is only called after all four files were read   *)
(* completely and accepted, from the bytes of the host that were hashed,   *)
(* when LoadImage did not refuse them (a refused image may be there all    *)
(* the same), with the launcher's volume as its device.                    *)
OnlyVerifiedBytesRun ==
    executed => /\ accepted = [file : Files, kind : {"good"}]
                /\ image = [file |-> "host", kind |-> "good"]
                /\ device

(* The launcher returns the child's status only if the child ran and is    *)
(* gone.  It never reports success after a failed cleanup, and never       *)
(* replaces the failure of a child that ran and is known gone.             *)
ResultFaithful ==
    pc = "done" =>
    /\ exit # "aborted" => executed /\ "child" \notin held /\ exit = childStatus
    /\ exit = "success" => cleanup = "success"
    /\ (exit = "aborted" /\ code = 916) => childStatus = "success"
    /\ (executed /\ childStatus = "error" /\ exit = "aborted") =>
            code \in {915, 917}

(* The launcher always returns: no answer of the file system, however it   *)
(* slices the reads, keeps it in the read loop.                            *)
Terminates == <>(pc = "done")
=============================================================================
