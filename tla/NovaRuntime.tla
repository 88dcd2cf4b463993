------------------------------ MODULE NovaRuntime ------------------------------
(***************************************************************************)
(* The handle runtime of the Nova execution ABI 2                          *)
(* (bootstrap/quarantine/c/nova/runtime_v2.c).  Compiled Nova code never   *)
(* holds a pointer: it holds 64-bit handles, a generation in the high half *)
(* and a slot number in the low half, and every access goes through the    *)
(* callbacks modelled here.  One context is single-threaded, so every      *)
(* callback is one atomic step.  The guest may pass any handle, offset and *)
(* length: they are all quantified over in Next.                           *)
(***************************************************************************)
EXTENDS Integers, FiniteSets, FiniteSetsExt

CONSTANTS
    BUFFER_MAX,      \* slots of the buffer table (65536 in the code)
    FILE_MAX,        \* slots of the file table (128)
    BYTES_MAX,       \* longest buffer (64 MiB)
    ALLOC_FACTOR,    \* total allocation is ALLOC_FACTOR * BYTES_MAX (4)
    PATH_MAX,        \* longest path name (4096)
    GEN_MAX,         \* last generation (UINT32_MAX)
    U64_MAX,         \* largest offset or length a caller can pass (UINT64_MAX)
    Blocks,          \* addresses calloc can return; a freed one may come back
    Streams,         \* FILE objects fopen can return; reused likewise
    HostMemory,      \* memory of the embedder, registered by nova_borrow_v2
    Null             \* the NULL pointer

ASSUME SizesAssumption ==
    /\ BUFFER_MAX \in Nat \ {0} /\ FILE_MAX \in Nat \ {0}
    /\ BYTES_MAX \in Nat /\ ALLOC_FACTOR \in Nat \ {0} /\ PATH_MAX \in Nat
    /\ GEN_MAX \in Nat
    /\ U64_MAX \in Nat /\ BYTES_MAX <= U64_MAX

ASSUME PointersAssumption ==
    /\ HostMemory \notin Blocks /\ Null \notin Blocks /\ Null # HostMemory
    /\ Null \notin Streams

VARIABLES
    buffers,         \* State.buffers: slot -> Buffer
    files,           \* State.files: slot -> File
    generation,      \* State.generation, shared by buffers and files
    allocated,       \* State.allocated, bytes of live owned buffers
    next_buffer,     \* State.next_buffer, where the slot scan starts
    error,           \* NovaContextV2.error, sticky
    heap,            \* the C heap: blocks handed out and not yet freed
    streams,         \* C streams open and not yet closed
    context          \* "ready" between nova_context_init_v2 and _destroy_v2

tables == <<buffers, files, generation, allocated, next_buffer>>
external == <<heap, streams>>
vars == <<tables, error, external, context>>

-----------------------------------------------------------------------------
(* Handles, table entries and error codes.                                 *)

BufferSlots == 0 .. BUFFER_MAX - 1
FileSlots == 0 .. FILE_MAX - 1
Sizes == 0 .. U64_MAX

(* A handle is (generation << 32) | (slot + 1); the number 0 is no handle. *)
Handle == [slot : Nat, gen : 0 .. GEN_MAX]
NoHandle == [slot |-> 0, gen |-> 0]
MakeHandle(slot, gen) == [slot |-> slot + 1, gen |-> gen]

(* What a caller can put in a handle argument: any slot with any           *)
(* generation, or no handle at all (slot numbers past a table are refused  *)
(* like 0).                                                                *)
HandleArg == [slot : 1 .. BUFFER_MAX, gen : 1 .. GEN_MAX] \cup {NoHandle}
FileArg == [slot : 1 .. FILE_MAX, gen : 1 .. GEN_MAX] \cup {NoHandle}

NoError == "none"
Codes == {"NV2_BOUNDS", "NV2_RUNTIME", "NV2_LIFETIME", "NV2_IO",
          "NV2_READONLY", "NV2_ARGUMENT"}

Buffer == [base : Blocks \cup {HostMemory, Null}, length : Sizes,
           offset : Sizes, generation : 0 .. GEN_MAX, parent : Handle,
           live : BOOLEAN, owned : BOOLEAN, writable : BOOLEAN]
Entry(base, length, offset, parent, owned, writable) ==
    [base |-> base, length |-> length, offset |-> offset, generation |-> 0,
     parent |-> parent, live |-> FALSE, owned |-> owned, writable |-> writable]
EmptyBuffer == Entry(Null, 0, 0, NoHandle, FALSE, FALSE)
Root(base, length, owned, writable) ==
    Entry(base, length, 0, NoHandle, owned, writable)
View(parent, offset, length, writable) ==
    Entry(Null, length, offset, parent, FALSE, writable)

File == [file : Streams \cup {Null}, generation : 0 .. GEN_MAX,
         writable : BOOLEAN]
EmptyFile == [file |-> Null, generation |-> 0, writable |-> FALSE]

(* The types of the tables and of the resources behind them.               *)
TablesOK ==
    /\ buffers \in [BufferSlots -> Buffer]
    /\ files \in [FileSlots -> File]
    /\ generation \in 0 .. GEN_MAX
    /\ allocated \in Int
    /\ next_buffer \in BufferSlots
    /\ heap \in SUBSET Blocks
    /\ streams \in SUBSET Streams
    /\ context \in {"ready", "none"}

(* The type invariant: the cursor of the slot scan stays inside the table. *)
TypeOK == TablesOK /\ error \in Codes \cup {NoError}

-----------------------------------------------------------------------------
(* Looking a handle up.                                                    *)

(* Mutant: the generation is not compared.                                 *)
Live_SlotOnly(h) == h.slot \in 1 .. BUFFER_MAX /\ buffers[h.slot - 1].live

(* buffer(): the slot exists, is in use, and is of the same generation.    *)
Live(h) ==
    /\ h.slot \in 1 .. BUFFER_MAX
    /\ buffers[h.slot - 1].live
    /\ buffers[h.slot - 1].generation = h.gen

At(h) == buffers[h.slot - 1]

(* file(): likewise for the file table.                                    *)
Open(h) ==
    /\ h.slot \in 1 .. FILE_MAX
    /\ files[h.slot - 1].file # Null
    /\ files[h.slot - 1].generation = h.gen

Fault(code) == [base |-> Null, at |-> 0, err |-> code]
Pointer(base, at) == [base |-> base, at |-> at, err |-> NoError]

(* Mutant: the natural test, whose sum wraps around.                       *)
OutOfBounds_Wraps(at, n, length) == (at + n) % (U64_MAX + 1) > length

(* at > length || n > length - at, written so that at + n cannot wrap.     *)
OutOfBounds(at, n, length) == at > length \/ n > length - at

(* The locals of the loop of resolve(), and their values for the parent.   *)
Walk == [depth : 0 .. BUFFER_MAX, handle : Handle, at : Nat]
Up(c) == [depth |-> c.depth + 1, handle |-> At(c.handle).parent,
          at |-> c.at + At(c.handle).offset]

(* One round of the loop: the checks of one level; above is what the loop  *)
(* gives once it has gone on to the parent.                                *)
Level(c, n, write, above) ==
    LET h == c.handle
    IN  IF ~Live(h) THEN Fault("NV2_LIFETIME")
        ELSE IF OutOfBounds(c.at, n, At(h).length) THEN Fault("NV2_BOUNDS")
        ELSE IF write /\ ~At(h).writable THEN Fault("NV2_READONLY")
        ELSE IF At(h).parent = NoHandle
             THEN IF At(h).base = Null THEN Fault(NoError)
                  ELSE Pointer(At(h).base, c.at)
        ELSE IF c.at > U64_MAX - At(h).offset THEN Fault("NV2_BOUNDS")
        ELSE above

(* resolve(): from a handle up the parents to the root buffer, checking    *)
(* every level; the loop gives up after BUFFER_MAX levels.                 *)
Resolve(handle, start, n, write) ==
    LET loop[c \in Walk] ==
        IF c.depth = BUFFER_MAX THEN Fault("NV2_LIFETIME")
        ELSE Level(c, n, write, loop[Up(c)])
    IN  loop[[depth |-> 0, handle |-> handle, at |-> start]]

Failed(result) == result.base = Null

-----------------------------------------------------------------------------
(* Outcomes of a callback.                                                 *)

(* error(): the first error sticks; NoError stands for not calling it.     *)
Raise(code) == error' = IF error = NoError THEN code ELSE error

(* The callback returns with no effect but the error it may have raised.   *)
Return(code) == Raise(code) /\ UNCHANGED <<tables, external, context>>

(* Every callback starts with: if (c->error) return 0.                     *)
Callable == context = "ready" /\ error = NoError

(* The slot add_buffer picks: the first free one from next_buffer on.      *)
FreeSlots == {i \in BufferSlots : ~buffers[i].live}
ScanDistance(i) == IF i >= next_buffer THEN i - next_buffer
                                       ELSE i + BUFFER_MAX - next_buffer
NextFreeSlot ==
    CHOOSE i \in FreeSlots : \A j \in FreeSlots : ScanDistance(i) <= ScanDistance(j)

CanAddBuffer == generation < GEN_MAX /\ FreeSlots # {}

(* Mutant: the cursor does not wrap.                                       *)
AddBuffer_NoWrap(value) ==
    LET i == NextFreeSlot
    IN  /\ generation' = generation + 1
        /\ buffers' = [buffers EXCEPT ![i] =
                [value EXCEPT !.live = TRUE, !.generation = generation + 1]]
        /\ next_buffer' = i + 1

(* add_buffer() when CanAddBuffer: generation, slot and cursor advance.    *)
AddBuffer(value) ==
    LET i == NextFreeSlot
    IN  /\ generation' = generation + 1
        /\ buffers' = [buffers EXCEPT ![i] =
                [value EXCEPT !.live = TRUE, !.generation = generation + 1]]
        /\ next_buffer' = (i + 1) % BUFFER_MAX

-----------------------------------------------------------------------------
(* Buffer callbacks.                                                       *)

(* nova_borrow_v2: the host registers its own memory.                      *)
Borrow(p, n, writable) ==
    /\ Callable
    /\ IF p = Null /\ n > 0 THEN Return("NV2_ARGUMENT")
       ELSE IF n > BYTES_MAX THEN Return("NV2_BOUNDS")
       ELSE IF ~CanAddBuffer THEN Return("NV2_RUNTIME")
       ELSE /\ AddBuffer(Root(p, n, FALSE, writable))
            /\ UNCHANGED <<files, allocated, error, external, context>>

(* allocate_v2.  calloc may fail; when add_buffer then finds no slot the   *)
(* block is freed again and the total is not touched.                      *)
Allocate(n, writable) ==
    IF n > BYTES_MAX \/ allocated > ALLOC_FACTOR * BYTES_MAX - n
    THEN Return("NV2_BOUNDS")
    ELSE \/ Return("NV2_RUNTIME")
         \/ /\ CanAddBuffer
            /\ \E p \in Blocks \ heap :
                 /\ AddBuffer(Root(p, n, TRUE, writable))
                 /\ heap' = heap \cup {p}
            /\ allocated' = allocated + n
            /\ UNCHANGED <<files, error, streams, context>>

Alloc(n) == Callable /\ Allocate(n, TRUE)

(* literal_v2: allocate, fill, then restrict to the literal's permission.  *)
Literal(p, n, writable) ==
    /\ Callable
    /\ IF p = Null /\ n > 0 THEN Return("NV2_ARGUMENT")
       ELSE Allocate(n, writable)

(* Mutant: releasing leaves the entry in use.                              *)
Release_StillLive(h, n) ==
    /\ Callable
    /\ IF ~Live(h) THEN Return("NV2_LIFETIME")
       ELSE IF n # At(h).length THEN Return("NV2_BOUNDS")
       ELSE /\ IF At(h).owned
               THEN /\ allocated' = allocated - At(h).length
                    /\ heap' = heap \ {At(h).base}
               ELSE UNCHANGED <<allocated, heap>>
            /\ buffers' = [buffers EXCEPT ![h.slot - 1].base = Null]
            /\ UNCHANGED <<files, generation, next_buffer, error, streams, context>>

(* Mutant: the bytes released are not given back to the quota.             *)
Release_NoRefund(h, n) ==
    /\ Callable
    /\ IF ~Live(h) THEN Return("NV2_LIFETIME")
       ELSE IF n # At(h).length THEN Return("NV2_BOUNDS")
       ELSE /\ heap' = heap \ {At(h).base}
            /\ buffers' = [buffers EXCEPT ![h.slot - 1].live = FALSE,
                                          ![h.slot - 1].base = Null]
            /\ UNCHANGED <<files, generation, allocated, next_buffer, error,
                           streams, context>>

(* release_v2: the length given must be the length of the buffer.  Slices  *)
(* and borrowed memory only lose their entry.                              *)
Release(h, n) ==
    /\ Callable
    /\ IF ~Live(h) THEN Return("NV2_LIFETIME")
       ELSE IF n # At(h).length THEN Return("NV2_BOUNDS")
       ELSE /\ IF At(h).owned
               THEN /\ allocated' = allocated - At(h).length
                    /\ heap' = heap \ {At(h).base}
               ELSE UNCHANGED <<allocated, heap>>
            /\ buffers' = [buffers EXCEPT ![h.slot - 1].live = FALSE,
                                          ![h.slot - 1].base = Null]
            /\ UNCHANGED <<files, generation, next_buffer, error, streams, context>>

(* slice_v2.  A failed resolution stops the call only when n # 0: an empty *)
(* slice of a view whose root is gone raises the error and still takes a   *)
(* slot and a generation.                                                  *)
Slice(h, at, n) ==
    /\ Callable
    /\ IF ~Live(h) THEN Return("NV2_LIFETIME")
       ELSE IF OutOfBounds(at, n, At(h).length) THEN Return("NV2_BOUNDS")
       ELSE LET r == Resolve(h, at, n, FALSE)
            IN  IF Failed(r) /\ n > 0 THEN Return(r.err)
                ELSE IF ~CanAddBuffer
                THEN Return(IF r.err = NoError THEN "NV2_RUNTIME" ELSE r.err)
                ELSE /\ AddBuffer(View(h, at, n, At(h).writable))
                     /\ Raise(r.err)
                     /\ UNCHANGED <<files, allocated, external, context>>

(* resolve_v2, length_v2: they only raise what the resolution raises.      *)
ResolveCall(h, at, n, write) ==
    Callable /\ Return(Resolve(h, at, n, write).err)

Length(h) == Callable /\ Return(Resolve(h, 0, 0, FALSE).err)

(* copy_bytes_v2: destination first, and the source only if that is fine.  *)
CopyBytes(destination, source, n) ==
    /\ Callable
    /\ LET d == Resolve(destination, 0, n, TRUE)
       IN  Return(IF d.err # NoError THEN d.err
                  ELSE Resolve(source, 0, n, FALSE).err)

(* diag_v2: fwrite to stderr may fail.                                     *)
Diag(h, n) ==
    /\ Callable
    /\ LET r == Resolve(h, 0, n, FALSE)
       IN  IF Failed(r) /\ n > 0 THEN Return(r.err)
           ELSE \E code \in {r.err, "NV2_IO"} :
                  Return(IF r.err = NoError THEN code ELSE r.err)

-----------------------------------------------------------------------------
(* File callbacks.                                                         *)

FreeFileSlots == {i \in FileSlots : files[i].file = Null}

(* path(): what can come of copying a path name out of a buffer.  A zero   *)
(* byte in it, or malloc, may refuse it; Null is the name obtained or not. *)
PathErrors(h, n) ==
    IF n = 0 \/ n > PATH_MAX THEN {"NV2_ARGUMENT"}
    ELSE LET r == Resolve(h, 0, n, FALSE)
         IN  IF Failed(r) THEN {r.err}
             ELSE {NoError, "NV2_ARGUMENT", "NV2_RUNTIME"}

(* Mutant: the file is tagged without advancing the generation.            *)
OpenFile_NoAdvance(h, n, writable) ==
    /\ Callable
    /\ IF generation = GEN_MAX \/ FreeFileSlots = {} THEN Return("NV2_RUNTIME")
       ELSE \E code \in PathErrors(h, n) :
              IF code # NoError THEN Return(code)
              ELSE \E f \in Streams \ streams :
                     /\ streams' = streams \cup {f}
                     /\ files' = [files EXCEPT ![Min(FreeFileSlots)] =
                           [file |-> f, generation |-> generation,
                            writable |-> writable]]
                     /\ UNCHANGED <<buffers, generation, allocated, next_buffer,
                                    error, heap, context>>

(* open_file, for open_read_v2 and open_new_v2.  The first free slot is    *)
(* taken, and a generation only once fopen has succeeded.                  *)
OpenFile(h, n, writable) ==
    /\ Callable
    /\ IF generation = GEN_MAX \/ FreeFileSlots = {} THEN Return("NV2_RUNTIME")
       ELSE \E code \in PathErrors(h, n) :
              IF code # NoError THEN Return(code)
              ELSE \/ Return("NV2_IO")
                   \/ \E f \in Streams \ streams :
                        /\ streams' = streams \cup {f}
                        /\ generation' = generation + 1
                        /\ files' = [files EXCEPT ![Min(FreeFileSlots)] =
                              [file |-> f, generation |-> generation + 1,
                               writable |-> writable]]
                        /\ UNCHANGED <<buffers, allocated, next_buffer, error,
                                       heap, context>>

(* read_v2 and write_v2: the file, then its direction, then the buffer;    *)
(* the transfer itself may fail.                                           *)
Transfer(h, buf, n, writing) ==
    /\ Callable
    /\ IF ~Open(h) THEN Return("NV2_LIFETIME")
       ELSE IF files[h.slot - 1].writable # writing THEN Return("NV2_IO")
       ELSE LET r == Resolve(buf, 0, n, ~writing)
            IN  IF Failed(r) /\ n > 0 THEN Return(r.err)
                ELSE \E code \in {r.err, "NV2_IO"} :
                       Return(IF r.err = NoError THEN code ELSE r.err)

Read(h, buf, n) == Transfer(h, buf, n, FALSE)
Write(h, buf, n) == Transfer(h, buf, n, TRUE)

(* Mutant: the entry is cleared only when fclose succeeds.                 *)
Close_KeepOnError(h) ==
    /\ Callable
    /\ IF ~Open(h) THEN Return("NV2_LIFETIME")
       ELSE /\ streams' = streams \ {files[h.slot - 1].file}
            /\ \/ files' = [files EXCEPT ![h.slot - 1].file = Null] /\ Raise(NoError)
               \/ files' = files /\ Raise("NV2_IO")
            /\ UNCHANGED <<buffers, generation, allocated, next_buffer, heap,
                           context>>

(* close_v2: the entry is cleared before fclose, which releases the stream *)
(* whether or not it reports an error.                                     *)
Close(h) ==
    /\ Callable
    /\ IF ~Open(h) THEN Return("NV2_LIFETIME")
       ELSE /\ files' = [files EXCEPT ![h.slot - 1].file = Null]
            /\ streams' = streams \ {files[h.slot - 1].file}
            /\ \E code \in {NoError, "NV2_IO"} : Raise(code)
            /\ UNCHANGED <<buffers, generation, allocated, next_buffer, heap,
                           context>>

-----------------------------------------------------------------------------
(* The embedder's calls.                                                   *)

(* nova_error_clear_v2.                                                    *)
ErrorClear ==
    /\ context = "ready"
    /\ error' = NoError
    /\ UNCHANGED <<tables, external, context>>

(* A calloc'ed State; no tables at all look the same.                     *)
NoBuffers == [i \in BufferSlots |-> EmptyBuffer]
NoFiles == [i \in FileSlots |-> EmptyFile]
ResetTables ==
    /\ buffers' = NoBuffers /\ files' = NoFiles
    /\ generation' = 0 /\ allocated' = 0 /\ next_buffer' = 0

(* nova_context_init_v2 when its two callocs succeed.                      *)
ContextInit ==
    /\ context = "none"
    /\ ResetTables
    /\ error' = NoError
    /\ context' = "ready"
    /\ UNCHANGED external

(* nova_context_destroy_v2: the live owned blocks are freed, the open      *)
(* streams closed, in any state, error or not; then the tables are gone.   *)
ContextDestroy ==
    /\ context = "ready"
    /\ heap' = heap \ {buffers[i].base : i \in {j \in BufferSlots :
                                  buffers[j].live /\ buffers[j].owned}}
    /\ streams' = streams \ {files[i].file : i \in FileSlots}
    /\ ResetTables
    /\ error' = NoError
    /\ context' = "none"

-----------------------------------------------------------------------------

Init ==
    /\ buffers = NoBuffers /\ files = NoFiles
    /\ generation = 0 /\ allocated = 0 /\ next_buffer = 0
    /\ error = NoError
    /\ heap = {} /\ streams = {}
    /\ context = "none"

BufferCall ==
    \/ \E n \in Sizes : Alloc(n)
    \/ \E p \in {HostMemory, Null}, n \in Sizes, w \in BOOLEAN :
          Borrow(p, n, w) \/ Literal(p, n, w)
    \/ \E h \in HandleArg, n \in Sizes : Release(h, n)
    \/ \E h \in HandleArg, at, n \in Sizes : Slice(h, at, n)

AccessCall ==
    \/ \E h \in HandleArg, at, n \in Sizes, w \in BOOLEAN : ResolveCall(h, at, n, w)
    \/ \E h \in HandleArg : Length(h)
    \/ \E d, s \in HandleArg, n \in Sizes : CopyBytes(d, s, n)
    \/ \E h \in HandleArg, n \in Sizes : Diag(h, n)

FileCall ==
    \/ \E h \in HandleArg, n \in Sizes, w \in BOOLEAN : OpenFile(h, n, w)
    \/ \E h \in FileArg, buf \in HandleArg, n \in Sizes :
          Read(h, buf, n) \/ Write(h, buf, n)
    \/ \E h \in FileArg : Close(h)

Next == BufferCall \/ AccessCall \/ FileCall \/ ErrorClear
        \/ ContextInit \/ ContextDestroy

Spec == Init /\ [][Next]_vars

-----------------------------------------------------------------------------
(* Safety.                                                                 *)

LiveSlots == {i \in BufferSlots : buffers[i].live}
OwnedSlots == {i \in LiveSlots : buffers[i].owned}
OpenSlots == {i \in FileSlots : files[i].file # Null}

(* Every entry in use, of either table, has a generation of its own that   *)
(* has been issued: a file handle is never accepted where a buffer handle  *)
(* of the same slot is expected, nor the reverse.                          *)
GenerationsDistinct ==
    context = "ready" =>
    /\ \A i, j \in LiveSlots :
          buffers[i].generation = buffers[j].generation => i = j
    /\ \A i, j \in OpenSlots :
          files[i].generation = files[j].generation => i = j
    /\ \A i \in LiveSlots, j \in OpenSlots :
          buffers[i].generation # files[j].generation
    /\ \A i \in LiveSlots : buffers[i].generation \in 1 .. generation
    /\ \A i \in OpenSlots : files[i].generation \in 1 .. generation

(* The heap holds exactly the blocks of the live owned buffers, each owned *)
(* by one of them: nothing leaks when a call fails half way, nothing is    *)
(* freed twice, and memory the host registered is never freed.  After      *)
(* nova_context_destroy_v2 nothing is left.                                *)
HeapOwnedOnce ==
    /\ context = "none" => heap = {}
    /\ context = "ready" =>
        /\ heap = {buffers[i].base : i \in OwnedSlots}
        /\ \A i, j \in OwnedSlots : buffers[i].base = buffers[j].base => i = j

(* Likewise for the C streams and the file table, through failing fclose.  *)
StreamsOwnedOnce ==
    /\ context = "none" => streams = {}
    /\ context = "ready" =>
        /\ streams = {files[i].file : i \in OpenSlots}
        /\ \A i, j \in OpenSlots : files[i].file = files[j].file => i = j

(* Through every failing call nothing is leaked and nothing freed or       *)
(* closed twice.                                                           *)
ResourcesOwnedOnce == HeapOwnedOnce /\ StreamsOwnedOnce

(* State.allocated is the number of bytes of the live owned buffers, and   *)
(* stays within the quota.                                                 *)
AllocatedExact ==
    context = "ready" =>
    /\ allocated = MapThenSumSet(LAMBDA i : buffers[i].length, OwnedSlots)
    /\ allocated <= ALLOC_FACTOR * BYTES_MAX

(* A slice whose parent is still there lies inside it, may be written only *)
(* if the parent may, and is younger: chains of parents never close into a *)
(* cycle, whatever slots are reused.                                       *)
SliceWithinParent ==
    context = "ready" =>
    \A i \in LiveSlots :
        LET b == buffers[i]
        IN  b.parent # NoHandle =>
            /\ b.parent.gen < b.generation
            /\ Live(b.parent) =>
                /\ b.offset + b.length <= At(b.parent).length
                /\ b.writable => At(b.parent).writable

(* The bytes asked for lie inside the buffer or slice of the handle, which *)
(* is in use and may be written if they are.                               *)
Inside(h, at, n, w) ==
    Live(h) /\ at + n <= At(h).length /\ (w => At(h).writable)

(* ... and inside live memory of a root buffer.                            *)
InRoot(r, n, w) ==
    \E i \in LiveSlots :
        /\ buffers[i].parent = NoHandle
        /\ buffers[i].base = r.base
        /\ r.base \in heap \cup {HostMemory}
        /\ r.at + n <= buffers[i].length
        /\ w => buffers[i].writable

(* No call fails silently: when resolve gives no pointer for a non-empty   *)
(* range it has an error to raise.  The pointer it gives for one is inside *)
(* what the handle names and inside live memory of the root; and it is the *)
(* pointer that asking the parent for the same bytes gives, so that it is  *)
(* inside every slice on the way up as well.                               *)
AccessSound ==
    (context = "ready" /\ error = NoError) =>
    \A h \in HandleArg, at, n \in Sizes, w \in BOOLEAN :
        LET r == Resolve(h, at, n, w)
        IN  n > 0 => IF Failed(r) THEN r.err # NoError
                     ELSE /\ Inside(h, at, n, w) /\ InRoot(r, n, w)
                          /\ At(h).parent # NoHandle =>
                                r = Resolve(At(h).parent, at + At(h).offset, n, w)

(* A handle that did not resolve never starts to: a released handle stays  *)
(* dead when its slot is taken again, and so does a view of it.  Only a    *)
(* handle of a generation not issued before can become valid.              *)
Issued(handles) == {h \in handles : h.gen <= generation}
Usable(h) == Resolve(h, 0, 0, FALSE).err = NoError
NoResurrection ==
    [][ (context = "ready" /\ context' = "ready" /\ tables' # tables) =>
        /\ \A h \in Issued(HandleArg) :
            /\ Live(h)' => Live(h)
            /\ Usable(h)' => Usable(h)
        /\ \A h \in Issued(FileArg) : Open(h)' => Open(h) ]_tables

=============================================================================
