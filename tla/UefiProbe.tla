------------------------------ MODULE UefiProbe ------------------------------
(***************************************************************************)
(* The UEFI consumer of a compiled Nova program (nova/uefi_probe.c) over   *)
(* the C library that nova/uefi_platform.c makes of firmware services:     *)
(* pool memory with a header, files, a log on the serial line, and         *)
(* counters of what is out.  Any firmware call may fail.  A library call   *)
(* is the set of its outcomes; between them the platform's state is one    *)
(* record.                                                                 *)
(***************************************************************************)
EXTENDS Integers, FiniteSets

CONSTANTS
    Buffers,  \* what the child may allocate
    Streams,  \* what it may open
    REFUSALS  \* bound: what the firmware refuses in a run

(* Pool blocks and file handles go by name; a stream's FILE has its name,  *)
(* and "existing" is the handle of a file that fopen must not overwrite.   *)
Own == {"name", "reader", "oracle", "image", "runtime", "state", "copy", "existing"}

NamesAssumption ==
    /\ IsFiniteSet(Buffers) /\ IsFiniteSet(Streams) /\ REFUSALS \in Nat
    /\ Buffers \cap Streams = {} /\ (Buffers \cup Streams) \cap Own = {}

VARIABLES
    pc,
    platform,          \* the record below
    objects,           \* firmware: the root directory and the child's image
    oracle, image,     \* the buffers of both files, FALSE when NULL
    context,           \* context.runtime is not NULL
    buffers, streams,  \* what the runtime's tables own
    stopped,           \* context.error
    answer,            \* the child's result and error against those expected
    code, exit

vars == <<pc, platform, objects, oracle, image, context, buffers, streams, stopped, answer, code, exit>>

(* blocks and handles: what the firmware has given out; valid: the blocks  *)
(* whose header has its magic number; pools, files, error: the platform's  *)
(* counters and nova_uefi_platform_error; refused: history, how often the  *)
(* firmware did not take something back or did not write the log.          *)
Fresh ==
    [blocks |-> {}, valid |-> {}, handles |-> {}, pools |-> 0, files |-> 0,
     error |-> FALSE, refused |-> 0]

Init ==
    /\ pc = "serial" /\ platform = Fresh /\ objects = {}
    /\ oracle = FALSE /\ image = FALSE /\ context = FALSE
    /\ buffers = {} /\ streams = {} /\ stopped = FALSE
    /\ answer = "none" /\ code = 0 /\ exit = "none"

-----------------------------------------------------------------------------
(* The library.                                                            *)

(* What the firmware may do instead of what it is asked to.                *)
Refused(p) ==
    IF p.refused < REFUSALS THEN {[p EXCEPT !.error = TRUE, !.refused = @ + 1]} ELSE {}

(* nova_uefi_log: a serial line that does not take a byte is an error.     *)
Log(p) == {p} \cup Refused(p)

Given(p, b) == [p EXCEPT !.blocks = @ \cup {b}, !.valid = @ \cup {b}, !.pools = @ + 1]

Malloc(p, b) == {[ok |-> FALSE, p |-> p], [ok |-> TRUE, p |-> Given(p, b)]}

(* The magic number goes first: what is freed twice is an error.           *)
Free(p, b) ==
    IF b \notin p.valid THEN {[p EXCEPT !.error = TRUE]}
    ELSE {[p EXCEPT !.valid = @ \ {b}, !.blocks = @ \ {b}, !.pools = @ - 1]}
         \cup Refused([p EXCEPT !.valid = @ \ {b}])

Close(p, h) == {[p EXCEPT !.handles = @ \ {h}]} \cup Refused(p)

Opened(p, h) == [p EXCEPT !.handles = @ \cup {h}]

(* Mutant: without memory for the FILE the handle is forgotten.            *)
Stream_Forgotten(p, f) ==
    {[ok |-> FALSE, p |-> p], [ok |-> TRUE, p |-> [Given(p, f) EXCEPT !.files = @ + 1]]}

(* The handle is there: its FILE, or the handle goes back.                 *)
Stream(p, f) ==
    {[ok |-> FALSE, p |-> q] : q \in Close(p, f)}
    \cup {[ok |-> TRUE, p |-> [Given(p, f) EXCEPT !.files = @ + 1]]}

(* fopen once the path is converted.  For "w" a file that can be opened    *)
(* for reading is not overwritten.                                         *)
Named(p, f, new) ==
    {[ok |-> FALSE, p |-> q] : q \in Free(p, "name")}
    \cup (UNION {Stream(q, f) : q \in Free(Opened(p, f), "name")})
    \cup (IF new
          THEN {[ok |-> FALSE, p |-> r] :
                   r \in UNION {Free(q, "name") : q \in Close(Opened(p, "existing"), "existing")}}
          ELSE {})

Fopen(p, f, new) == {[ok |-> FALSE, p |-> p]} \cup Named(Given(p, "name"), f, new)

Fclose(p, f) ==
    {[ok |-> TRUE, p |-> q] :
        q \in Free([p EXCEPT !.handles = @ \ {f}, !.files = @ - 1], f)}
    \cup {[ok |-> FALSE, p |-> q] : q \in UNION {Free(r, f) : r \in Refused(p)}}

(* read_file of the probe once the file is open: any of fseek, ftell,      *)
(* malloc and fread may fail, and the length may not suit.                 *)
Body(p, b) ==
    {[ok |-> FALSE, p |-> p]}
    \cup {[ok |-> FALSE, p |-> q] : q \in Free(Given(p, b), b)}
    \cup {[ok |-> TRUE, p |-> Given(p, b)]}

(* Then the file is closed, and without that there is no result.           *)
Closed(o, b) ==
    UNION {IF c.ok THEN {[ok |-> o.ok, p |-> c.p]}
           ELSE IF o.ok THEN {[ok |-> FALSE, p |-> q] : q \in Free(c.p, b)}
           ELSE {[ok |-> FALSE, p |-> c.p]} : c \in Fclose(o.p, "reader")}

ReadFile(p, b) ==
    UNION {IF o.ok THEN UNION {Closed(r, b) : r \in Body(o.p, b)} ELSE {o} :
           o \in Fopen(p, "reader", FALSE)}

-----------------------------------------------------------------------------
(* efi_main.                                                               *)

Goto(label) == pc' = label
Fails(n) == pc' = "destroy" /\ code' = n

Child == <<context, buffers, streams, stopped, answer>>
Pointers == <<oracle, image>>

(* Without a serial line there is nobody to tell.                          *)
LocateSerial ==
    /\ pc = "serial"
    /\ \/ Goto("done") /\ exit' = "failure" /\ UNCHANGED platform
       \/ Goto("volume") /\ platform' \in Log(platform) /\ UNCHANGED exit
    /\ UNCHANGED <<objects, Pointers, Child, code>>

(* The protocols of the probe's own image, then its volume.                *)
OpenVolume ==
    /\ pc = "volume"
    /\ \/ \E n \in 1 .. 3 : Fails(n) /\ UNCHANGED objects
       \/ Goto("oracle") /\ objects' = objects \cup {"root"} /\ UNCHANGED code
    /\ UNCHANGED <<platform, Pointers, Child, exit>>

(* EXPECT.BIN: read, but it may not be 16 bytes long.                      *)
ReadOracle ==
    /\ pc = "oracle"
    /\ \E o \in ReadFile(platform, "oracle") :
          /\ platform' = o.p /\ oracle' = o.ok
          /\ Fails(10) \/ (o.ok /\ Goto("image") /\ UNCHANGED code)
    /\ UNCHANGED <<objects, image, Child, exit>>

(* NTRESULT.EFI, and ng_pe_validate, one of its seven errors.              *)
ReadImage ==
    /\ pc = "image"
    /\ \E o \in ReadFile(platform, "image") :
          /\ platform' = o.p /\ image' = o.ok
          /\ IF o.ok
             THEN (\E n \in 21 .. 27 : Fails(n)) \/ (Goto("load") /\ UNCHANGED code)
             ELSE Fails(11)
    /\ UNCHANGED <<objects, oracle, Child, exit>>

(* LoadImage may fail and yet give a handle; then the protocol of the      *)
(* child, and its validation where it was loaded.                          *)
LoadImage ==
    /\ pc = "load"
    /\ \/ Fails(30) /\ objects' \in {objects, objects \cup {"child"}}
       \/ /\ objects' = objects \cup {"child"}
          /\ (\E n \in {31} \cup 41 .. 47 : Fails(n)) \/ (Goto("context") /\ UNCHANGED code)
    /\ UNCHANGED <<platform, Pointers, Child, exit>>

(* nova_context_init_v2 asks for both blocks before it looks at either.    *)
ContextInit ==
    /\ pc = "context"
    /\ \/ Fails(48) /\ UNCHANGED context
          /\ platform' \in {platform} \cup Free(Given(platform, "runtime"), "runtime")
                           \cup Free(Given(platform, "state"), "state")
       \/ /\ platform' \in Log(Given(Given(platform, "runtime"), "state"))
          /\ Goto("child") /\ context' = TRUE /\ UNCHANGED code
    /\ UNCHANGED <<objects, Pointers, buffers, streams, stopped, answer, exit>>

-----------------------------------------------------------------------------
(* The child, through its runtime (runtime_v2.c): after an error no call   *)
(* does anything.                                                          *)

Rest == <<pc, objects, Pointers, context, answer, code, exit>>

(* A block without a slot goes back.                                       *)
ChildAllocates(b) ==
    /\ pc = "child" /\ ~ stopped /\ b \notin buffers
    /\ \/ platform' \in {platform} \cup Free(Given(platform, b), b)
          /\ stopped' = TRUE /\ UNCHANGED buffers
       \/ platform' = Given(platform, b) /\ buffers' = buffers \cup {b} /\ UNCHANGED stopped
    /\ UNCHANGED <<Rest, streams>>

ChildReleases(b) ==
    /\ pc = "child" /\ ~ stopped /\ b \in buffers
    /\ platform' \in Free(platform, b) /\ buffers' = buffers \ {b}
    /\ UNCHANGED <<Rest, streams, stopped>>

(* The path is copied, and the copy freed whatever fopen says.             *)
ChildOpens(f, new) ==
    /\ pc = "child" /\ ~ stopped /\ f \notin streams
    /\ \/ stopped' = TRUE /\ UNCHANGED <<platform, streams>>
       \/ \E o \in Fopen(Given(platform, "copy"), f, new) :
             /\ platform' \in Free(o.p, "copy")
             /\ stopped' = ~ o.ok
             /\ streams' = IF o.ok THEN streams \cup {f} ELSE streams
    /\ UNCHANGED <<Rest, buffers>>

ChildCloses(f) ==
    /\ pc = "child" /\ ~ stopped /\ f \in streams
    /\ \E o \in Fclose(platform, f) : platform' = o.p /\ stopped' = ~ o.ok
    /\ streams' = streams \ {f}
    /\ UNCHANGED <<Rest, buffers>>

(* It returns with whatever it has not given back.                         *)
ChildReturns ==
    /\ pc = "child" /\ Goto("destroy")
    /\ answer' \in {"expected", "value", "error"}
    /\ code' = CASE answer' = "value" -> 50 [] answer' = "error" -> 51 [] OTHER -> code
    /\ platform' \in Log(platform)
    /\ UNCHANGED <<objects, Pointers, context, buffers, streams, stopped, exit>>

-----------------------------------------------------------------------------
(* done: everything back, the verdict, the report.                         *)

(* nova_context_destroy_v2, one buffer, one stream, at last its own blocks. *)
DestroyBuffer ==
    /\ pc = "destroy" /\ context
    /\ \E b \in buffers : platform' \in Free(platform, b) /\ buffers' = buffers \ {b}
    /\ UNCHANGED <<Rest, streams, stopped>>

DestroyStream ==
    /\ pc = "destroy" /\ context /\ buffers = {}
    /\ \E f \in streams : \E o \in Fclose(platform, f) :
          platform' = o.p /\ streams' = streams \ {f} /\ code' = IF o.ok THEN code ELSE 60
    /\ UNCHANGED <<pc, objects, Pointers, context, buffers, stopped, answer, exit>>

DestroyContext ==
    /\ pc = "destroy" /\ buffers = {} /\ streams = {}
    /\ platform' \in IF context THEN UNION {Free(q, "runtime") : q \in Free(platform, "state")}
                     ELSE {platform}
    /\ context' = FALSE /\ Goto("unload")
    /\ UNCHANGED <<objects, Pointers, buffers, streams, stopped, answer, code, exit>>

(* UnloadImage and the Close of the root directory, which may be refused.  *)
GiveBack(label, object, then) ==
    /\ pc = label /\ Goto(then)
    /\ \/ objects' = objects \ {object} /\ UNCHANGED <<platform, code>>
       \/ /\ object \in objects /\ code' = 60 /\ UNCHANGED objects
          /\ platform.refused < REFUSALS
          /\ platform' = [platform EXCEPT !.refused = @ + 1]
    /\ UNCHANGED <<Pointers, Child, exit>>

UnloadChild == GiveBack("unload", "child", "free")
CloseRoot == GiveBack("close_root", "root", "verdict")

FreeFiles ==
    /\ pc = "free" /\ Goto("close_root")
    /\ \E p \in IF image THEN Free(platform, "image") ELSE {platform} :
          platform' \in IF oracle THEN Free(p, "oracle") ELSE {p}
    /\ oracle' = FALSE /\ image' = FALSE
    /\ UNCHANGED <<objects, Child, code, exit>>

Verdict ==
    /\ pc = "verdict" /\ Goto("report")
    /\ code' = IF platform.error \/ platform.pools # 0 \/ platform.files # 0 THEN 60 ELSE code
    /\ UNCHANGED <<platform, objects, Pointers, Child, exit>>

(* The lines of the report are written after the last look at the error:   *)
(* one that is refused changes neither the code nor what is returned.      *)
Report ==
    /\ pc = "report" /\ Goto("done")
    /\ platform' \in Log(platform)
    /\ exit' = IF code = 0 THEN "ok" ELSE "failure"
    /\ UNCHANGED <<objects, Pointers, Child, code>>

ChildStep ==
    \/ \E b \in Buffers : ChildAllocates(b) \/ ChildReleases(b)
    \/ \E f \in Streams : ChildOpens(f, TRUE) \/ ChildOpens(f, FALSE) \/ ChildCloses(f)
    \/ ChildReturns

Ending == \/ DestroyBuffer \/ DestroyStream \/ DestroyContext
          \/ UnloadChild \/ FreeFiles \/ CloseRoot \/ Verdict \/ Report

Step == \/ LocateSerial \/ OpenVolume \/ ReadOracle \/ ReadImage \/ LoadImage \/ ContextInit
        \/ ChildStep \/ Ending

Done == pc = "done" /\ UNCHANGED vars
Next == Step \/ Done

Spec == Init /\ [][Next]_vars

-----------------------------------------------------------------------------

AllBack == platform.blocks = {} /\ platform.handles = {} /\ objects = {}

(* Whatever allocation, file or image call fails, and whatever the child   *)
(* leaves behind, all goes back unless the firmware refuses to take it or  *)
(* to write the log, and only then is the code 60.  When the verdict is 0  *)
(* the answer was the expected one and nothing has been refused; then what *)
(* may still be refused is a line of the report, so RESULT_OK says that    *)
(* the answer was right and everything is back.  What tells of refusals    *)
(* are two counters and a flag that every path has to keep.                *)
Accounted ==
    /\ pc = "report" /\ code = 0 => answer = "expected" /\ platform.refused = 0
    /\ pc = "done" =>
          /\ platform.refused = 0 => AllBack /\ code # 60
          /\ exit = "ok" => answer = "expected" /\ AllBack
=============================================================================
