-------------------------- MODULE NovaRuntimeProofs --------------------------
(***************************************************************************)
(* Proofs about NovaRuntime for every size of the tables, every quota and  *)
(* every last generation.  The inductive invariant is IInv; its conjuncts  *)
(* are the invariants the runs check, and each needs the others: a fresh   *)
(* generation (GenerationsDistinct) is what keeps a reused slot from       *)
(* becoming the parent of an old slice (SliceWithinParent).                *)
(***************************************************************************)
EXTENDS NovaRuntime, NaturalsInduction, FiniteSetTheorems, TLAPS

(* The conjuncts that stand on their own, and the invariant of the proof.  *)
InsideParent(b) ==
    /\ b.offset + b.length <= At(b.parent).length
    /\ b.writable => At(b.parent).writable

(* A root entry points to something unless it is empty, and to a block of  *)
(* the heap only if it owns it.                                            *)
Backed(b) == b.parent = NoHandle =>
    /\ b.base = Null => b.length = 0
    /\ b.base \in Blocks => b.owned
RootsBacked == context = "ready" => \A i \in LiveSlots : Backed(buffers[i])

IInv == /\ TablesOK /\ GenerationsDistinct /\ ResourcesOwnedOnce
        /\ SliceWithinParent /\ RootsBacked

-----------------------------------------------------------------------------
(* Every non-empty set of naturals has a least element.                    *)
LEMMA LeastNatural ==
    ASSUME NEW T \in SUBSET Nat, T # {}
    PROVE  \E x \in T : \A y \in T : x <= y
<1>1. IsWellFoundedOn(OpToRel(<, Nat), Nat)
  BY NatLessThanWellFounded
<1>2. PICK x \in T : \A y \in T : ~ (<<y, x>> \in OpToRel(<, Nat))
  BY <1>1, WFMin
<1>3. \A y \in T : ~(y < x)
  BY <1>2 DEF OpToRel
<1> QED
  BY <1>3

(* The slot scan of add_buffer ends on a free slot of the table.           *)
LEMMA ScanFindsFreeSlot ==
    ASSUME TablesOK, FreeSlots # {}
    PROVE  NextFreeSlot \in BufferSlots /\ ~buffers[NextFreeSlot].live
<1> DEFINE D == {ScanDistance(i) : i \in FreeSlots}
<1>1. \A i \in FreeSlots : ScanDistance(i) \in Nat
  BY SizesAssumption DEF TablesOK, BufferSlots, FreeSlots, ScanDistance
<1>2. D \in SUBSET Nat /\ D # {}
  BY <1>1
<1>3. PICK d \in D : \A e \in D : d <= e
  <2> HIDE DEF D
  <2> QED BY <1>2, LeastNatural
<1>4. \E i \in FreeSlots : \A j \in FreeSlots : ScanDistance(i) <= ScanDistance(j)
  BY <1>3
<1>5. NextFreeSlot \in FreeSlots
  BY <1>4 DEF NextFreeSlot
<1> QED
  BY <1>5 DEF FreeSlots

(* What add_buffer does to the tables: one free slot receives the value,   *)
(* under a generation not issued before.                                   *)
Added(i, value) ==
    /\ i \in BufferSlots
    /\ ~buffers[i].live
    /\ generation' = generation + 1
    /\ buffers'[i].live
    /\ buffers'[i].generation = generation + 1
    /\ buffers'[i].base = value.base
    /\ buffers'[i].length = value.length
    /\ buffers'[i].offset = value.offset
    /\ buffers'[i].parent = value.parent
    /\ buffers'[i].owned = value.owned
    /\ buffers'[i].writable = value.writable
    /\ \A j \in BufferSlots : j # i => buffers'[j] = buffers[j]

(* add_buffer fills one slot that was free, with a new generation, and     *)
(* leaves the tables typed.                                                *)
LEMMA AddBufferEffect ==
    ASSUME TablesOK, CanAddBuffer, NEW value \in Buffer, AddBuffer(value)
    PROVE  /\ \E i \in BufferSlots : Added(i, value)
           /\ generation' \in 0 .. GEN_MAX
           /\ next_buffer' \in BufferSlots
           /\ buffers' \in [BufferSlots -> Buffer]
<1> DEFINE i == NextFreeSlot
           new == [value EXCEPT !.live = TRUE, !.generation = generation + 1]
<1>1. i \in BufferSlots /\ ~buffers[i].live
  BY ScanFindsFreeSlot DEF CanAddBuffer
<1>2. generation' = generation + 1 /\ generation' \in 0 .. GEN_MAX
  BY SizesAssumption DEF AddBuffer, CanAddBuffer, TablesOK
<1>3. next_buffer' \in BufferSlots
  BY <1>1, SizesAssumption DEF AddBuffer, BufferSlots
<1>4. buffers' = [buffers EXCEPT ![i] = new]
  BY DEF AddBuffer
<1>5. new \in Buffer
  BY <1>2 DEF Buffer
<1>6. /\ new.live /\ new.generation = generation + 1
      /\ new.base = value.base /\ new.length = value.length
      /\ new.offset = value.offset /\ new.parent = value.parent
      /\ new.owned = value.owned /\ new.writable = value.writable
  BY DEF Buffer
<1>7. buffers' \in [BufferSlots -> Buffer]
  <2> HIDE DEF new
  <2> QED BY <1>4, <1>5 DEF TablesOK
<1>8. buffers'[i] = new /\ \A j \in BufferSlots : j # i => buffers'[j] = buffers[j]
  <2> HIDE DEF new, i
  <2> QED BY <1>1, <1>4 DEF TablesOK
<1>9. Added(i, value)
  <2> HIDE DEF new, i
  <2> QED BY <1>1, <1>2, <1>6, <1>8 DEF Added
<1> QED
  BY <1>1, <1>2, <1>3, <1>7, <1>9

-----------------------------------------------------------------------------
(* Adding a buffer: what the value must satisfy for the invariant to hold. *)
LEMMA AddPreserves ==
    ASSUME IInv, context = "ready", CanAddBuffer,
           NEW value \in Buffer, AddBuffer(value),
           UNCHANGED <<files, streams, context>>, allocated' \in Int,
           \/ ~value.owned /\ heap' = heap
           \/ /\ value.owned /\ value.base \in Blocks \ heap
              /\ heap' = heap \cup {value.base},
           value.parent # NoHandle => Live(value.parent) /\ InsideParent(value),
           Backed(value)
    PROVE  IInv'
<1>1. PICK i \in BufferSlots : Added(i, value)
  BY AddBufferEffect DEF IInv
<1>2. TablesOK'
  BY AddBufferEffect DEF IInv, TablesOK
<1>3. /\ LiveSlots' = LiveSlots \cup {i} /\ i \notin LiveSlots
      /\ OwnedSlots' = IF value.owned THEN OwnedSlots \cup {i} ELSE OwnedSlots
      /\ OpenSlots' = OpenSlots
  BY <1>1 DEF Added, LiveSlots, OwnedSlots, OpenSlots
<1>4. GenerationsDistinct'
  BY <1>1, <1>3 DEF IInv, TablesOK, Added, GenerationsDistinct, LiveSlots,
                    OpenSlots, Buffer, File
<1>5. ResourcesOwnedOnce'
  <2>1. StreamsOwnedOnce'
    BY <1>3 DEF IInv, ResourcesOwnedOnce, StreamsOwnedOnce, OpenSlots
  <2>2. HeapOwnedOnce'
    <3>1. \A j \in OwnedSlots : buffers'[j].base = buffers[j].base /\ j # i
      BY <1>1, <1>3 DEF Added, OwnedSlots, LiveSlots
    <3>2. CASE value.owned
      <4>1. heap' = {buffers'[j].base : j \in OwnedSlots'}
        BY <1>1, <1>3, <3>1, <3>2 DEF IInv, ResourcesOwnedOnce, HeapOwnedOnce, Added
      <4>2. \A j \in OwnedSlots : buffers[j].base \in heap
        BY DEF IInv, ResourcesOwnedOnce, HeapOwnedOnce
      <4> QED
        BY <1>1, <1>3, <3>1, <3>2, <4>1, <4>2
           DEF IInv, ResourcesOwnedOnce, HeapOwnedOnce, Added
    <3>3. CASE ~value.owned
      BY <1>3, <3>1, <3>3 DEF IInv, ResourcesOwnedOnce, HeapOwnedOnce
    <3> QED
      BY <3>2, <3>3
  <2> QED
    BY <2>1, <2>2 DEF ResourcesOwnedOnce
<1>6. SliceWithinParent'
  <2> SUFFICES ASSUME NEW j \in LiveSlots', NEW b, b = buffers'[j],
                      b.parent # NoHandle
               PROVE  /\ b.parent.gen < b.generation
                      /\ Live(b.parent)' => InsideParent(b)'
    BY DEF SliceWithinParent, InsideParent
  <2>1. CASE j = i
    <3>1. /\ b.parent = value.parent
          /\ b.offset = value.offset /\ b.length = value.length
          /\ b.writable = value.writable /\ b.generation = generation + 1
      BY <1>1, <2>1 DEF Added
    <3>2. Live(b.parent) /\ b.parent.slot - 1 \in LiveSlots
      BY <3>1, SizesAssumption DEF Live, LiveSlots, BufferSlots, Buffer, Handle
    <3>3. b.parent.gen \in 1 .. generation
      BY <3>2 DEF IInv, GenerationsDistinct, Live
    <3>4. At(b.parent)' = At(b.parent)
      BY <1>1, <1>3, <3>2 DEF Added, At, LiveSlots
    <3>5. InsideParent(b)'
      BY <3>1, <3>4 DEF InsideParent
    <3> QED
      BY <3>1, <3>3, <3>5 DEF IInv, TablesOK
  <2>2. CASE j # i
    <3>1. j \in LiveSlots /\ b = buffers[j]
      BY <1>1, <1>3, <2>2 DEF Added, LiveSlots
    <3>2. b.parent.gen < b.generation /\ b.generation \in 1 .. generation
      BY <3>1 DEF IInv, GenerationsDistinct, SliceWithinParent
    <3>3. ASSUME Live(b.parent)'
          PROVE  Live(b.parent) /\ At(b.parent)' = At(b.parent)
      <4>1. b.parent \in Handle /\ b.parent.slot - 1 \in BufferSlots
        <5>1. b \in Buffer
          BY <3>1 DEF IInv, TablesOK, LiveSlots
        <5>2. b.parent \in Handle
          BY <5>1 DEF Buffer
        <5> QED
          BY <3>3, <5>2, SizesAssumption DEF Handle, Live, BufferSlots
      <4>2. b.parent.slot - 1 # i
        BY <1>1, <3>2, <3>3, <4>1 DEF Added, Live, IInv, TablesOK, Handle
      <4> QED
        BY <1>1, <3>3, <4>1, <4>2 DEF Added, Live, At
    <3>4. Live(b.parent)' => InsideParent(b)'
      BY <3>1, <3>3 DEF IInv, SliceWithinParent, InsideParent
    <3> QED
      BY <3>2, <3>4
  <2> QED
    BY <2>1, <2>2
<1>7. RootsBacked'
  <2>1. Backed(buffers'[i])
    BY <1>1 DEF Added, Backed
  <2>2. \A j \in LiveSlots : Backed(buffers'[j])
    BY <1>1, <1>3 DEF IInv, RootsBacked, Added, LiveSlots
  <2>3. \A j \in LiveSlots' : Backed(buffers'[j])
    BY <1>3, <2>1, <2>2
  <2> QED
    BY <2>3 DEF RootsBacked, Backed
<1> QED
  BY <1>2, <1>4, <1>5, <1>6, <1>7 DEF IInv

-----------------------------------------------------------------------------
(* A callback that only raises an error disturbs nothing.                  *)
LEMMA ReturnPreserves ==
    ASSUME IInv, UNCHANGED <<tables, external, context>>
    PROVE  IInv'
<1>1. TablesOK' /\ GenerationsDistinct'
  BY DEF IInv, TablesOK, GenerationsDistinct, LiveSlots, OpenSlots, tables,
         external
<1>2. HeapOwnedOnce'
  BY DEF IInv, ResourcesOwnedOnce, HeapOwnedOnce, LiveSlots, OwnedSlots, tables, external
<1>3. StreamsOwnedOnce'
  BY DEF IInv, ResourcesOwnedOnce, StreamsOwnedOnce, OpenSlots, tables, external
<1>4. SliceWithinParent'
  BY DEF IInv, SliceWithinParent, LiveSlots, Live, At, tables
<1>5. RootsBacked'
  BY DEF IInv, RootsBacked, Backed, LiveSlots, tables
<1> QED
  BY <1>1, <1>2, <1>3, <1>4, <1>5 DEF IInv, ResourcesOwnedOnce

(* nova_borrow_v2 keeps the invariant.                                     *)
LEMMA BorrowPreserves ==
    ASSUME IInv, NEW p \in {HostMemory, Null}, NEW n \in Sizes,
           NEW w \in BOOLEAN, Borrow(p, n, w)
    PROVE  IInv'
<1>1. CASE UNCHANGED <<tables, external, context>>
  BY <1>1, ReturnPreserves
<1>2. CASE /\ ~(p = Null /\ n > 0)
           /\ CanAddBuffer /\ AddBuffer(Root(p, n, FALSE, w))
           /\ UNCHANGED <<files, allocated, error, external, context>>
  <2> DEFINE v == Root(p, n, FALSE, w)
  <2>1. /\ v \in Buffer /\ ~v.owned /\ v.parent = NoHandle
    BY SizesAssumption DEF Root, Entry, Buffer, NoHandle, Handle, Sizes
  <2>3. Backed(v)
    BY <1>2, SizesAssumption, PointersAssumption
       DEF Backed, Root, Entry, NoHandle, Sizes
  <2>2. /\ context = "ready" /\ UNCHANGED <<files, streams, context, heap>>
        /\ allocated' \in Int
    BY <1>2 DEF Borrow, Callable, external, IInv, TablesOK
  <2> QED
    <3> HIDE DEF v
    <3> QED BY <1>2, <2>1, <2>2, <2>3, AddPreserves DEF v
<1> QED
  BY <1>1, <1>2 DEF Borrow, Return

(* allocate_v2 keeps the invariant.                                        *)
LEMMA AllocatePreserves ==
    ASSUME IInv, Callable, NEW n \in Sizes, NEW w \in BOOLEAN, Allocate(n, w)
    PROVE  IInv'
<1>1. CASE UNCHANGED <<tables, external, context>>
  BY <1>1, ReturnPreserves
<1>2. ASSUME CanAddBuffer, NEW p \in Blocks \ heap, AddBuffer(Root(p, n, TRUE, w)),
             heap' = heap \cup {p}, allocated' = allocated + n,
             UNCHANGED <<files, error, streams, context>>
      PROVE  IInv'
  <2> DEFINE v == Root(p, n, TRUE, w)
  <2>1. /\ v \in Buffer /\ v.owned /\ v.parent = NoHandle /\ v.base = p
    BY SizesAssumption DEF Root, Entry, Buffer, NoHandle, Handle, Sizes
  <2>2. context = "ready" /\ allocated' \in Int
    BY <1>2, SizesAssumption DEF Callable, IInv, TablesOK, Sizes
  <2>3. Backed(v)
    BY <2>1, PointersAssumption DEF Backed
  <2> QED
    <3> HIDE DEF v
    <3> QED BY <1>2, <2>1, <2>2, <2>3, AddPreserves DEF v
<1> QED
  BY <1>1, <1>2 DEF Allocate, Return

(* slice_v2 keeps the invariant.                                           *)
LEMMA SlicePreserves ==
    ASSUME IInv, NEW h \in HandleArg, NEW at \in Sizes, NEW n \in Sizes,
           Slice(h, at, n)
    PROVE  IInv'
<1>1. CASE UNCHANGED <<tables, external, context>>
  BY <1>1, ReturnPreserves
<1> DEFINE v == View(h, at, n, At(h).writable)
<1>2. CASE /\ Live(h) /\ ~OutOfBounds(at, n, At(h).length)
           /\ CanAddBuffer /\ AddBuffer(v)
           /\ UNCHANGED <<files, allocated, external, context>>
  <2>1. At(h) \in Buffer /\ h \in Handle
    BY <1>2, SizesAssumption DEF IInv, TablesOK, Live, At, BufferSlots,
       HandleArg, Handle, NoHandle
  <2>2. /\ v \in Buffer /\ ~v.owned /\ v.parent = h
        /\ v.offset = at /\ v.length = n /\ v.writable = At(h).writable
    BY <2>1, SizesAssumption DEF View, Entry, Buffer, Sizes
  <2>3. at + n <= At(h).length
    BY <1>2, <2>1, SizesAssumption DEF OutOfBounds, Sizes, Buffer
  <2>4. InsideParent(v)
    <3> HIDE DEF v
    <3> QED BY <2>2, <2>3 DEF InsideParent
  <2>5. /\ context = "ready" /\ UNCHANGED <<files, streams, context, heap>>
        /\ allocated' \in Int
    BY <1>2 DEF Slice, Callable, external, IInv, TablesOK
  <2>6. v.parent # NoHandle
    BY <1>2, <2>2 DEF Live, NoHandle
  <2> QED
    <3> HIDE DEF v
    <3> QED BY <1>2, <2>2, <2>4, <2>5, <2>6, AddPreserves DEF Backed
<1> QED
  BY <1>1, <1>2 DEF Slice, Return

(* What release_v2 does to the table: one entry goes out of use.           *)
LEMMA ReleaseEffect ==
    ASSUME TablesOK, NEW h \in HandleArg, Live(h),
           buffers' = [buffers EXCEPT ![h.slot - 1].live = FALSE,
                                      ![h.slot - 1].base = Null]
    PROVE  /\ h.slot - 1 \in BufferSlots
           /\ buffers' \in [BufferSlots -> Buffer]
           /\ ~buffers'[h.slot - 1].live
           /\ \A j \in BufferSlots : j # h.slot - 1 => buffers'[j] = buffers[j]
<1> DEFINE k == h.slot - 1
           dead == [buffers[k] EXCEPT !.live = FALSE]
           gone == [dead EXCEPT !.base = Null]
<1>1. k \in BufferSlots /\ buffers[k] \in Buffer
  BY SizesAssumption DEF Live, BufferSlots, HandleArg, NoHandle, TablesOK
<1>2. dead \in Buffer /\ ~dead.live
  BY <1>1 DEF Buffer
<1>3. gone \in Buffer /\ ~gone.live
  <2> HIDE DEF dead
  <2> QED BY <1>2 DEF Buffer
<1>4. buffers' = [buffers EXCEPT ![k] = gone]
  BY <1>1 DEF TablesOK
<1> HIDE DEF gone
<1>5. /\ buffers' \in [BufferSlots -> Buffer]
      /\ buffers'[k] = gone
      /\ \A j \in BufferSlots : j # k => buffers'[j] = buffers[j]
  <2> HIDE DEF k
  <2> QED BY <1>1, <1>3, <1>4 DEF TablesOK
<1> QED
  BY <1>1, <1>3, <1>5

(* release_v2 keeps the invariant.                                         *)
LEMMA ReleasePreserves ==
    ASSUME IInv, NEW h \in HandleArg, NEW n \in Sizes, Release(h, n)
    PROVE  IInv'
<1>1. CASE UNCHANGED <<tables, external, context>>
  BY <1>1, ReturnPreserves
<1>2. ASSUME context = "ready", Live(h),
             buffers' = [buffers EXCEPT ![h.slot - 1].live = FALSE,
                                        ![h.slot - 1].base = Null],
             IF At(h).owned
             THEN /\ allocated' = allocated - At(h).length
                  /\ heap' = heap \ {At(h).base}
             ELSE UNCHANGED <<allocated, heap>>,
             UNCHANGED <<files, generation, next_buffer, streams, context>>
      PROVE  IInv'
  <2> DEFINE k == h.slot - 1
  <2>0. /\ context = "ready"
        /\ UNCHANGED <<files, generation, next_buffer, streams, context>>
    BY <1>2
  <2>1. k \in LiveSlots /\ k \in BufferSlots /\ buffers[k] \in Buffer
    BY <1>2, SizesAssumption, SMTT(30) DEF Live, LiveSlots, BufferSlots, HandleArg,
       NoHandle, IInv, TablesOK
  <2>2. /\ buffers' \in [BufferSlots -> Buffer]
        /\ ~buffers'[k].live
        /\ \A j \in BufferSlots : j # k => buffers'[j] = buffers[j]
    BY <1>2, ReleaseEffect DEF IInv
  <2> HIDE DEF k
  <2>3. /\ LiveSlots' = LiveSlots \ {k} /\ OwnedSlots' = OwnedSlots \ {k}
        /\ OpenSlots' = OpenSlots
        /\ \A j \in LiveSlots' : buffers'[j] = buffers[j]
    BY <1>2, <2>1, <2>2 DEF LiveSlots, OwnedSlots, OpenSlots
  <2>4. TablesOK'
    BY <1>2, <2>1, <2>2, SMTT(30) DEF IInv, TablesOK, At, k, Buffer, Sizes
  <2>5. GenerationsDistinct'
    BY <2>0, <2>3 DEF IInv, GenerationsDistinct, LiveSlots
  <2>6. HeapOwnedOnce'
    <3>1. heap = {buffers[i].base : i \in OwnedSlots}
          /\ \A i, j \in OwnedSlots : buffers[i].base = buffers[j].base => i = j
      BY <1>2 DEF IInv, ResourcesOwnedOnce, HeapOwnedOnce
    <3>2. \A j \in OwnedSlots' : buffers'[j] = buffers[j]
      BY <2>3 DEF OwnedSlots
    <3>3. k \in OwnedSlots <=> At(h).owned
      BY <2>1 DEF OwnedSlots, At, k
    <3>4. heap' = IF At(h).owned THEN heap \ {buffers[k].base} ELSE heap
      BY <1>2 DEF At, k
    <3>5. heap' = {buffers'[i].base : i \in OwnedSlots'}
      BY <2>3, <3>1, <3>2, <3>3, <3>4
    <3> QED
      BY <2>0, <2>3, <3>1, <3>2, <3>5 DEF HeapOwnedOnce
  <2>7. StreamsOwnedOnce'
    BY <2>0, <2>3 DEF IInv, ResourcesOwnedOnce, StreamsOwnedOnce
  <2>8. SliceWithinParent'
    <3> SUFFICES ASSUME NEW j \in LiveSlots', NEW b, b = buffers'[j],
                        b.parent # NoHandle
                 PROVE  /\ b.parent.gen < b.generation
                        /\ Live(b.parent)' => InsideParent(b)'
      BY DEF SliceWithinParent, InsideParent
    <3>1. j \in LiveSlots /\ b = buffers[j] /\ b \in Buffer
      BY <2>3 DEF LiveSlots, IInv, TablesOK
    <3>2. b.parent \in Handle
      BY <3>1 DEF Buffer
    <3>3. PICK q \in Handle : q = b.parent
      BY <3>2
    <3>4. q.slot \in 1 .. BUFFER_MAX => q.slot - 1 \in BufferSlots
      BY <3>3, SizesAssumption DEF Handle, BufferSlots
    <3>5. Live(q)' => Live(q) /\ At(q)' = At(q)
      <4> SUFFICES ASSUME q.slot \in 1 .. BUFFER_MAX, buffers'[q.slot - 1].live,
                          buffers'[q.slot - 1].generation = q.gen
                   PROVE  /\ buffers[q.slot - 1].live
                          /\ buffers[q.slot - 1].generation = q.gen
                          /\ buffers'[q.slot - 1] = buffers[q.slot - 1]
        BY DEF Live, At
      <4>1. buffers'[q.slot - 1] = buffers[q.slot - 1]
        BY <2>2, <3>4
      <4> QED
        BY <4>1
    <3> QED
      BY <2>0, <3>1, <3>3, <3>5 DEF IInv, SliceWithinParent, InsideParent
  <2>9. RootsBacked'
    BY <2>0, <2>3 DEF IInv, RootsBacked, Backed
  <2> QED
    BY <2>4, <2>5, <2>6, <2>7, <2>8, <2>9 DEF IInv, ResourcesOwnedOnce
<1> QED
  BY <1>1, <1>2 DEF Release, Return, Callable

-----------------------------------------------------------------------------
(* Files.                                                                  *)
LEMMA OpenFilePreserves ==
    ASSUME IInv, NEW h \in HandleArg, NEW n \in Sizes, NEW w \in BOOLEAN,
           OpenFile(h, n, w)
    PROVE  IInv'
<1>1. CASE UNCHANGED <<tables, external, context>>
  BY <1>1, ReturnPreserves
<1>2. ASSUME context = "ready", generation # GEN_MAX, FreeFileSlots # {},
             NEW f \in Streams \ streams, streams' = streams \cup {f},
             generation' = generation + 1,
             files' = [files EXCEPT ![Min(FreeFileSlots)] =
                         [file |-> f, generation |-> generation + 1,
                          writable |-> w]],
             UNCHANGED <<buffers, allocated, next_buffer, heap, context>>
      PROVE  IInv'
  <2> DEFINE k == Min(FreeFileSlots)
  <2>1. k \in FileSlots /\ files[k].file = Null
    <3>1. FreeFileSlots \in SUBSET Nat
      BY SizesAssumption DEF FreeFileSlots, FileSlots
    <3>2. \E i \in FreeFileSlots : \A j \in FreeFileSlots : i <= j
      BY <1>2, <3>1, LeastNatural
    <3> QED
      BY <3>2 DEF Min, FreeFileSlots
  <2>2. generation' \in 0 .. GEN_MAX /\ generation \in Nat
    BY <1>2, SizesAssumption DEF IInv, TablesOK
  <2> HIDE DEF k
  <2>3. /\ files' \in [FileSlots -> File]
        /\ files'[k].file = f /\ files'[k].generation = generation + 1
        /\ \A j \in FileSlots : j # k => files'[j] = files[j]
    BY <1>2, <2>1, <2>2 DEF IInv, TablesOK, File, k
  <2>4. /\ OpenSlots' = OpenSlots \cup {k} /\ k \notin OpenSlots
        /\ LiveSlots' = LiveSlots /\ OwnedSlots' = OwnedSlots
        /\ \A j \in OpenSlots : j \in FileSlots /\ files'[j] = files[j]
    BY <1>2, <2>1, <2>3, PointersAssumption
       DEF OpenSlots, LiveSlots, OwnedSlots
  <2>5. TablesOK'
    BY <1>2, <2>2, <2>3 DEF IInv, TablesOK
  <2>6. GenerationsDistinct'
    BY <1>2, <2>2, <2>3, <2>4 DEF IInv, GenerationsDistinct
  <2>7. HeapOwnedOnce'
    BY <1>2, <2>4 DEF IInv, ResourcesOwnedOnce, HeapOwnedOnce
  <2>8. StreamsOwnedOnce'
    <3>1. streams = {files[i].file : i \in OpenSlots}
          /\ \A i, j \in OpenSlots : files[i].file = files[j].file => i = j
      BY <1>2 DEF IInv, ResourcesOwnedOnce, StreamsOwnedOnce
    <3>2. streams' = {files'[i].file : i \in OpenSlots'}
      BY <1>2, <2>3, <2>4, <3>1
    <3> QED
      BY <1>2, <2>3, <2>4, <3>1, <3>2 DEF StreamsOwnedOnce
  <2>9. SliceWithinParent'
    BY <1>2, <2>4 DEF IInv, SliceWithinParent, Live, At
  <2>10. RootsBacked'
    BY <1>2, <2>4 DEF IInv, RootsBacked, Backed
  <2> QED
    BY <2>5, <2>6, <2>7, <2>8, <2>9, <2>10 DEF IInv, ResourcesOwnedOnce
<1> QED
  BY <1>1, <1>2 DEF OpenFile, Return, Callable

(* close_v2 keeps the invariant.                                           *)
LEMMA ClosePreserves ==
    ASSUME IInv, NEW h \in FileArg, Close(h)
    PROVE  IInv'
<1>1. CASE UNCHANGED <<tables, external, context>>
  BY <1>1, ReturnPreserves
<1>2. ASSUME context = "ready", Open(h),
             files' = [files EXCEPT ![h.slot - 1].file = Null],
             streams' = streams \ {files[h.slot - 1].file},
             UNCHANGED <<buffers, generation, allocated, next_buffer, heap, context>>
      PROVE  IInv'
  <2> DEFINE k == h.slot - 1
  <2>1. k \in FileSlots /\ files[k] \in File /\ k \in OpenSlots
    BY <1>2, SizesAssumption DEF Open, FileSlots, FileArg, NoHandle, IInv,
       TablesOK, OpenSlots
  <2>2. /\ files' \in [FileSlots -> File]
        /\ files'[k].file = Null
        /\ \A j \in FileSlots : j # k => files'[j] = files[j]
    BY <1>2, <2>1 DEF IInv, TablesOK, File
  <2>3. streams' = streams \ {files[k].file}
    BY <1>2
  <2> HIDE DEF k
  <2>4. /\ OpenSlots' = OpenSlots \ {k}
        /\ LiveSlots' = LiveSlots /\ OwnedSlots' = OwnedSlots
        /\ \A j \in OpenSlots' : j \in FileSlots /\ files'[j] = files[j]
    BY <1>2, <2>1, <2>2 DEF OpenSlots, LiveSlots, OwnedSlots
  <2>5. TablesOK'
    BY <1>2, <2>2 DEF IInv, TablesOK
  <2>6. GenerationsDistinct'
    BY <1>2, <2>4 DEF IInv, GenerationsDistinct
  <2>7. HeapOwnedOnce'
    BY <1>2, <2>4 DEF IInv, ResourcesOwnedOnce, HeapOwnedOnce
  <2>8. StreamsOwnedOnce'
    <3>1. streams = {files[i].file : i \in OpenSlots}
          /\ \A i, j \in OpenSlots : files[i].file = files[j].file => i = j
      BY <1>2 DEF IInv, ResourcesOwnedOnce, StreamsOwnedOnce
    <3>2. \A i \in OpenSlots : i # k => files[i].file # files[k].file
      BY <2>1, <3>1
    <3>3. streams' = {files'[i].file : i \in OpenSlots \ {k}}
      BY <2>3, <2>4, <3>1, <3>2
    <3> QED
      <4>1. \A i, j \in OpenSlots' : files'[i].file = files'[j].file => i = j
        BY <2>4, <3>1
      <4>2. context' = "ready"
        BY <1>2
      <4>3. streams' = {files'[i].file : i \in OpenSlots'}
        BY <2>4, <3>3
      <4> QED
        BY <4>1, <4>2, <4>3 DEF StreamsOwnedOnce
  <2>9. SliceWithinParent'
    BY <1>2, <2>4 DEF IInv, SliceWithinParent, Live, At
  <2>10. RootsBacked'
    BY <1>2, <2>4 DEF IInv, RootsBacked, Backed
  <2> QED
    BY <2>5, <2>6, <2>7, <2>8, <2>9, <2>10 DEF IInv, ResourcesOwnedOnce
<1> QED
  BY <1>1, <1>2 DEF Close, Return, Callable

-----------------------------------------------------------------------------
(* Setting a context up and tearing it down.                               *)
LEMMA EmptyTablesTyped ==
    /\ NoBuffers \in [BufferSlots -> Buffer] /\ NoFiles \in [FileSlots -> File]
    /\ 0 \in BufferSlots /\ 0 \in 0 .. GEN_MAX
    /\ \A i \in BufferSlots : ~NoBuffers[i].live
    /\ \A i \in FileSlots : NoFiles[i].file = Null
<1>1. EmptyBuffer \in Buffer /\ ~EmptyBuffer.live
  BY SizesAssumption DEF EmptyBuffer, Entry, Buffer, NoHandle, Handle, Sizes
<1>2. EmptyFile \in File /\ EmptyFile.file = Null
  BY SizesAssumption DEF EmptyFile, File
<1>3. 0 \in BufferSlots /\ 0 \in 0 .. GEN_MAX
  BY SizesAssumption DEF BufferSlots
<1> QED
  BY <1>1, <1>2, <1>3 DEF NoBuffers, NoFiles

(* Freshly emptied tables satisfy the invariant once nothing is held.      *)
Emptied ==
    /\ buffers = NoBuffers /\ files = NoFiles
    /\ generation = 0 /\ allocated = 0 /\ next_buffer = 0
    /\ heap = {} /\ streams = {} /\ context \in {"ready", "none"}

(* The invariant holds of empty tables.                                    *)
LEMMA EmptyTablesInvariant == Emptied => IInv
<1> SUFFICES ASSUME Emptied PROVE IInv
  OBVIOUS
<1> USE DEF Emptied
<1>1. LiveSlots = {} /\ OwnedSlots = {} /\ OpenSlots = {}
  BY EmptyTablesTyped DEF LiveSlots, OwnedSlots, OpenSlots
<1>2. TablesOK
  BY EmptyTablesTyped DEF TablesOK
<1> QED
  BY <1>1, <1>2 DEF IInv, GenerationsDistinct, ResourcesOwnedOnce, HeapOwnedOnce,
     StreamsOwnedOnce, SliceWithinParent, RootsBacked

(* nova_context_init_v2 keeps the invariant.                               *)
LEMMA ContextInitPreserves ==
    ASSUME IInv, ContextInit
    PROVE  IInv'
<1>1. heap' = {} /\ streams' = {}
  BY DEF ContextInit, external, IInv, ResourcesOwnedOnce, HeapOwnedOnce, StreamsOwnedOnce
<1>2. /\ buffers' = NoBuffers /\ files' = NoFiles /\ generation' = 0
      /\ allocated' = 0 /\ next_buffer' = 0 /\ context' \in {"ready", "none"}
  BY DEF ContextInit, ResetTables
<1>3. Emptied'
  BY <1>1, <1>2 DEF Emptied
<1> QED
  BY <1>3, EmptyTablesInvariant, PTL

(* Everything held is released: what is live is what the heap holds.       *)
LEMMA ContextDestroyPreserves ==
    ASSUME IInv, ContextDestroy
    PROVE  IInv'
<1>1. heap' = {}
  <2>1. heap = {buffers[i].base : i \in OwnedSlots}
    BY DEF ContextDestroy, IInv, ResourcesOwnedOnce, HeapOwnedOnce
  <2>2. OwnedSlots = {j \in BufferSlots : buffers[j].live /\ buffers[j].owned}
    BY DEF OwnedSlots, LiveSlots
  <2> QED
    BY <2>1, <2>2 DEF ContextDestroy
<1>2. streams' = {}
  <2>1. streams = {files[i].file : i \in OpenSlots}
    BY DEF ContextDestroy, IInv, ResourcesOwnedOnce, StreamsOwnedOnce
  <2> QED
    BY <2>1 DEF ContextDestroy, OpenSlots
<1>3. /\ buffers' = NoBuffers /\ files' = NoFiles /\ generation' = 0
      /\ allocated' = 0 /\ next_buffer' = 0 /\ context' \in {"ready", "none"}
  BY DEF ContextDestroy, ResetTables
<1>4. Emptied'
  BY <1>1, <1>2, <1>3 DEF Emptied
<1> QED
  BY <1>4, EmptyTablesInvariant, PTL

-----------------------------------------------------------------------------
(* The three facts of the invariance proof, and the theorems.              *)
LEMMA InitInvariant == Init => IInv
BY EmptyTablesInvariant DEF Init, Emptied

(* Every step keeps the invariant.                                         *)
LEMMA StepInvariant == IInv /\ [Next]_vars => IInv'
<1> SUFFICES ASSUME IInv, [Next]_vars PROVE IInv'
  OBVIOUS
<1>1. CASE BufferCall
  <2>1. ASSUME NEW n \in Sizes, Alloc(n) PROVE IInv'
    BY <2>1, AllocatePreserves DEF Alloc
  <2>2. ASSUME NEW p \in {HostMemory, Null}, NEW n \in Sizes, NEW w \in BOOLEAN,
               Borrow(p, n, w)
        PROVE  IInv'
    BY <2>2, BorrowPreserves
  <2>3. ASSUME NEW p \in {HostMemory, Null}, NEW n \in Sizes, NEW w \in BOOLEAN,
               Literal(p, n, w)
        PROVE  IInv'
    BY <2>3, AllocatePreserves, ReturnPreserves DEF Literal, Return
  <2>4. ASSUME NEW h \in HandleArg, NEW n \in Sizes, Release(h, n) PROVE IInv'
    BY <2>4, ReleasePreserves
  <2>5. ASSUME NEW h \in HandleArg, NEW at \in Sizes, NEW n \in Sizes,
               Slice(h, at, n)
        PROVE  IInv'
    BY <2>5, SlicePreserves
  <2> QED
    BY <1>1, <2>1, <2>2, <2>3, <2>4, <2>5 DEF BufferCall
<1>2. CASE AccessCall
  <2>1. UNCHANGED <<tables, external, context>>
    BY <1>2 DEF AccessCall, ResolveCall, Length, CopyBytes, Diag, Return
  <2> QED
    BY <2>1, ReturnPreserves
<1>3. CASE FileCall
  <2>1. ASSUME NEW h \in HandleArg, NEW n \in Sizes, NEW w \in BOOLEAN,
               OpenFile(h, n, w)
        PROVE  IInv'
    BY <2>1, OpenFilePreserves
  <2>2. ASSUME NEW h \in FileArg, Close(h) PROVE IInv'
    BY <2>2, ClosePreserves
  <2>3. ASSUME NEW h \in FileArg, NEW b \in HandleArg, NEW n \in Sizes,
               Read(h, b, n) \/ Write(h, b, n)
        PROVE  IInv'
    BY <2>3, ReturnPreserves DEF Read, Write, Transfer, Return
  <2> QED
    BY <1>3, <2>1, <2>2, <2>3 DEF FileCall
<1>4. CASE ErrorClear
  BY <1>4, ReturnPreserves DEF ErrorClear
<1>5. CASE ContextInit
  BY <1>5, ContextInitPreserves
<1>6. CASE ContextDestroy
  BY <1>6, ContextDestroyPreserves
<1>7. CASE UNCHANGED vars
  BY <1>7, ReturnPreserves DEF vars
<1> QED
  BY <1>1, <1>2, <1>3, <1>4, <1>5, <1>6, <1>7 DEF Next

(* The invariant the other theorems rest on holds for ever, for tables of  *)
(* any size.                                                               *)
THEOREM Invariance == Spec => []IInv
BY InitInvariant, StepInvariant, PTL DEF Spec

(* The tables keep their types through every callback: in particular the   *)
(* scan cursor stays inside the table and no generation exceeds the last.  *)
THEOREM TablesTyped == Spec => []TablesOK
<1>1. IInv => TablesOK
  BY DEF IInv
<1> QED
  BY <1>1, Invariance, PTL

(* No two entries in use, of either table, have the same generation.       *)
THEOREM HandlesUnambiguous == Spec => []GenerationsDistinct
<1>1. IInv => GenerationsDistinct
  BY DEF IInv
<1> QED
  BY <1>1, Invariance, PTL

(* Every block of the heap is owned by exactly one live buffer, and every  *)
(* open stream by exactly one entry of the file table.                     *)
THEOREM NoLeakNoDoubleFree == Spec => []ResourcesOwnedOnce
<1>1. IInv => ResourcesOwnedOnce
  BY DEF IInv
<1> QED
  BY <1>1, Invariance, PTL

(* A slice lies inside its parent, is no more writable, and is younger.    *)
THEOREM SlicesConfined == Spec => []SliceWithinParent
<1>1. IInv => SliceWithinParent
  BY DEF IInv
<1> QED
  BY <1>1, Invariance, PTL

-----------------------------------------------------------------------------
(* The loop of resolve().  Loop is the recursive function of Resolve, and  *)
(* Round one unfolding of it; that a function satisfying the recursion     *)
(* exists is shown level by level, from the last one down.                 *)
Round(loop, c, n, w) ==
    IF c.depth = BUFFER_MAX THEN Fault("NV2_LIFETIME")
    ELSE Level(c, n, w, loop[Up(c)])
IsLoop(loop, n, w) == loop = [c \in Walk |-> Round(loop, c, n, w)]
Loop(n, w) == CHOOSE loop : IsLoop(loop, n, w)
Entry0(h, at) == [depth |-> 0, handle |-> h, at |-> at]

(* The places of the walk with at most k levels left.                      *)
Remaining(k) == {c \in Walk : c.depth >= BUFFER_MAX - k}

(* resolve is its loop entered at the handle it is given.                  *)
LEMMA ResolveIsLoop ==
    \A h, at, n, w : Resolve(h, at, n, w) = Loop(n, w)[Entry0(h, at)]
BY DEF Resolve, Loop, IsLoop, Round, Entry0

(* A round of the loop goes one parent up and leaves one round less to go. *)
LEMMA UpWalks ==
    ASSUME TablesOK, NEW k \in Nat, NEW c \in Remaining(k + 1),
           c.depth # BUFFER_MAX, Live(c.handle)
    PROVE  Up(c) \in Remaining(k)
<1>1. /\ c \in Walk /\ c.depth \in 0 .. BUFFER_MAX /\ c.handle \in Handle
      /\ c.at \in Nat /\ c.depth >= BUFFER_MAX - (k + 1)
  BY DEF Remaining, Walk
<1>2. At(c.handle) \in Buffer
  BY <1>1, SizesAssumption DEF Live, At, TablesOK, BufferSlots, Handle
<1>3. At(c.handle).parent \in Handle /\ At(c.handle).offset \in Nat
  BY <1>2, SizesAssumption DEF Buffer, Sizes
<1>4. c.depth + 1 \in 0 .. BUFFER_MAX /\ c.depth + 1 >= BUFFER_MAX - k
  BY <1>1, SizesAssumption
<1> DEFINE d == c.depth + 1  p == At(c.handle).parent  a == c.at + At(c.handle).offset
<1>5. p \in Handle /\ a \in Nat
  BY <1>1, <1>3
<1>6. Up(c) = [depth |-> d, handle |-> p, at |-> a]
  BY DEF Up
<1> HIDE DEF d, p, a
<1>7. Up(c) \in Walk /\ Up(c).depth = d
  BY <1>4, <1>5, <1>6 DEF Walk, d
<1> QED
  BY <1>4, <1>7 DEF Remaining, d

(* No walk has more than BUFFER_MAX levels left.                           *)
LEMMA AllRemain == Remaining(BUFFER_MAX) = Walk
<1>1. \A c \in Walk : c.depth \in Nat
  BY SizesAssumption DEF Walk
<1>2. \A c \in Walk : c.depth >= BUFFER_MAX - BUFFER_MAX
  BY <1>1, SizesAssumption
<1> QED
  BY <1>2 DEF Remaining

(* There is a function that computes the loop: the rounds left to go are   *)
(* bounded.                                                                *)
LEMMA LoopExists ==
    ASSUME TablesOK, NEW n, NEW w
    PROVE  \E loop : IsLoop(loop, n, w)
<1> DEFINE Solved(k) ==
        \E f : f = [c \in Remaining(k) |-> Round(f, c, n, w)]
           Bad == {k \in Nat : ~Solved(k)}
<1>1. Solved(0)
  <2> DEFINE f == [c \in Remaining(0) |-> Fault("NV2_LIFETIME")]
  <2>1. \A c \in Remaining(0) : c.depth = BUFFER_MAX
    BY SizesAssumption DEF Remaining, Walk
  <2>2. f = [c \in Remaining(0) |-> Round(f, c, n, w)]
    BY <2>1 DEF Round
  <2> QED
    BY <2>2
<1>2. ASSUME NEW k \in Nat, Solved(k) PROVE Solved(k + 1)
  <2>1. PICK g : g = [c \in Remaining(k) |-> Round(g, c, n, w)]
    BY <1>2
  <2> DEFINE f == [c \in Remaining(k + 1) |-> Round(g, c, n, w)]
  <2>2. Remaining(k) \in SUBSET Remaining(k + 1)
    BY <1>2, SizesAssumption DEF Remaining, Walk
  <2>3. \A c \in Remaining(k) : f[c] = g[c]
    <3> HIDE DEF Round
    <3> QED BY <2>1, <2>2
  <2>4. ASSUME NEW c \in Remaining(k + 1) PROVE Round(f, c, n, w) = Round(g, c, n, w)
    <3>1. CASE c.depth = BUFFER_MAX
      BY <3>1 DEF Round
    <3>2. CASE ~Live(c.handle)
      BY <3>2 DEF Round, Level
    <3>3. CASE c.depth # BUFFER_MAX /\ Live(c.handle)
      <4>1. f[Up(c)] = g[Up(c)]
        BY <1>2, <2>3, <3>3, UpWalks
      <4> HIDE DEF f
      <4> QED BY <4>1 DEF Round
    <3> QED
      BY <3>1, <3>2, <3>3
  <2>5. f = [c \in Remaining(k + 1) |-> Round(f, c, n, w)]
    BY <2>4
  <2> QED
    BY <2>5
<1>3. Bad = {}
  <2> SUFFICES ASSUME Bad # {} PROVE FALSE
    OBVIOUS
  <2>1. PICK k \in Bad : \A j \in Bad : k <= j
    <3> HIDE DEF Solved
    <3> QED BY LeastNatural
  <2> HIDE DEF Solved
  <2>2. k # 0
    BY <1>1
  <2>3. k - 1 \in Nat /\ k - 1 \notin Bad
    BY <2>1, <2>2
  <2>4. Solved((k - 1) + 1)
    BY <1>2, <2>3
  <2> QED
    BY <2>4
<1>4. Solved(BUFFER_MAX)
  <2> HIDE DEF Solved
  <2> QED BY <1>3, SizesAssumption
<1> QED
  BY <1>4, AllRemain DEF IsLoop

(* The loop is what its rounds say.                                        *)
LEMMA LoopUnfolds ==
    ASSUME TablesOK, NEW n, NEW w
    PROVE  \A c \in Walk : Loop(n, w)[c] = Round(Loop(n, w), c, n, w)
<1>1. \A f : IsLoop(f, n, w) => \A c \in Walk : f[c] = Round(f, c, n, w)
  BY DEF IsLoop
<1>2. IsLoop(Loop(n, w), n, w)
  BY LoopExists DEF Loop
<1> QED
  BY <1>1, <1>2

(* What resolve() gives for a non-empty range: an error, or a pointer into *)
(* live memory of a root.                                                  *)
Sound(r, n, w) ==
    IF Failed(r) THEN r.err # NoError
    ELSE InRoot(r, n, w)

(* A level checked against what lies above it, which is sound, is sound.   *)
LEMMA LevelSound ==
    ASSUME TablesOK, ResourcesOwnedOnce, RootsBacked, context = "ready",
           NEW c \in Walk, NEW n \in Sizes, n > 0, NEW w \in BOOLEAN,
           NEW above, Live(c.handle) => Sound(above, n, w)
    PROVE  Sound(Level(c, n, w, above), n, w)
<1> DEFINE h == c.handle  b == At(h)
<1>1. \A code \in Codes : Sound(Fault(code), n, w)
  BY DEF Sound, Failed, Fault, Codes, NoError
<1>2. CASE /\ Live(h) /\ ~OutOfBounds(c.at, n, b.length) /\ (w => b.writable)
           /\ b.parent = NoHandle
  <2>1. c.at \in Nat /\ h \in Handle
    BY DEF Walk
  <2>2. h.slot - 1 \in LiveSlots
    BY <1>2, <2>1, SizesAssumption DEF Live, LiveSlots, BufferSlots, Handle
  <2>3. b \in Buffer /\ b = buffers[h.slot - 1]
    BY <2>2 DEF TablesOK, LiveSlots, At
  <2>4. b.length \in Nat /\ b.base \in Blocks \cup {HostMemory, Null}
    BY <2>3, SizesAssumption DEF Buffer, Sizes
  <2>5. c.at + n <= b.length /\ b.length # 0
    BY <1>2, <2>1, <2>4, SizesAssumption DEF OutOfBounds, Sizes
  <2>6. b.base # Null /\ (b.base \in Blocks => b.owned)
    BY <1>2, <2>2, <2>3, <2>5 DEF RootsBacked, Backed
  <2>7. b.base \in heap \cup {HostMemory}
    <3>1. CASE b.base \in Blocks
      BY <2>2, <2>3, <2>6, <3>1 DEF ResourcesOwnedOnce, HeapOwnedOnce, OwnedSlots
    <3> QED
      BY <2>4, <2>6, <3>1
  <2>8. Level(c, n, w, above) = Pointer(b.base, c.at)
    BY <1>2, <2>6 DEF Level
  <2> DEFINE r == Pointer(b.base, c.at)
  <2>9. r.base = b.base /\ r.at = c.at
    BY DEF Pointer
  <2>10. \E i \in LiveSlots : b = buffers[i]
    BY <2>2, <2>3
  <2> HIDE DEF r, b
  <2>11. Sound(r, n, w)
    BY <1>2, <2>5, <2>6, <2>7, <2>9, <2>10 DEF Sound, InRoot, Failed
  <2> QED
    BY <2>8, <2>11 DEF r
<1> QED
  BY <1>1, <1>2, SizesAssumption DEF Level, Codes

(* Whatever the loop lets through from any point of it is sound.           *)
LEMMA WalkSound ==
    ASSUME TablesOK, ResourcesOwnedOnce, RootsBacked, context = "ready",
           NEW n \in Sizes, n > 0, NEW w \in BOOLEAN
    PROVE  \A c \in Walk : Sound(Loop(n, w)[c], n, w)
<1> DEFINE Good(k) == \A c \in Remaining(k) : Sound(Loop(n, w)[c], n, w)
           Bad == {k \in Nat : ~Good(k)}
<1>1. Sound(Fault("NV2_LIFETIME"), n, w)
  BY DEF Sound, Failed, Fault, NoError
<1>2. Good(0)
  <2>1. \A c \in Remaining(0) : c \in Walk /\ c.depth = BUFFER_MAX
    BY SizesAssumption DEF Remaining, Walk
  <2> QED
    BY <1>1, <2>1, LoopUnfolds DEF Round
<1>3. ASSUME NEW k \in Nat, Good(k) PROVE Good(k + 1)
  <2> SUFFICES ASSUME NEW c \in Remaining(k + 1) PROVE Sound(Loop(n, w)[c], n, w)
    OBVIOUS
  <2>1. c \in Walk /\ Loop(n, w)[c] = Round(Loop(n, w), c, n, w)
    BY LoopUnfolds DEF Remaining
  <2>2. CASE c.depth = BUFFER_MAX
    BY <1>1, <2>1, <2>2 DEF Round
  <2>3. CASE c.depth # BUFFER_MAX
    <3>1. Live(c.handle) => Sound(Loop(n, w)[Up(c)], n, w)
      BY <1>3, <2>3, UpWalks
    <3>2. Loop(n, w)[c] = Level(c, n, w, Loop(n, w)[Up(c)])
      BY <2>1, <2>3 DEF Round
    <3> QED
      BY <2>1, <3>1, <3>2, LevelSound
  <2> QED
    BY <2>2, <2>3
<1>4. Bad = {}
  <2> SUFFICES ASSUME Bad # {} PROVE FALSE
    OBVIOUS
  <2> HIDE DEF Good
  <2>1. PICK k \in Bad : \A j \in Bad : k <= j
    BY LeastNatural
  <2>2. k # 0
    BY <1>2
  <2>3. k - 1 \in Nat /\ k - 1 \notin Bad
    BY <2>1, <2>2
  <2>4. Good((k - 1) + 1)
    BY <1>3, <2>3
  <2> QED
    BY <2>4
<1>5. Good(BUFFER_MAX)
  <2> HIDE DEF Good
  <2> QED BY <1>4, SizesAssumption
<1> QED
  BY <1>5, AllRemain

(* A pointer found after some rounds is found from there with more rounds  *)
(* to go.                                                                  *)
SamePlace(c, d) == c.handle = d.handle /\ c.at = d.at /\ d.depth <= c.depth
LEMMA EarlierFindsToo ==
    ASSUME TablesOK, NEW n, NEW w
    PROVE  \A c, d \in Walk :
               SamePlace(c, d) /\ ~Failed(Loop(n, w)[c]) => Loop(n, w)[d] = Loop(n, w)[c]
<1> DEFINE Good(k) == \A c \in Remaining(k) : \A d \in Walk :
               SamePlace(c, d) /\ ~Failed(Loop(n, w)[c]) => Loop(n, w)[d] = Loop(n, w)[c]
           Bad == {k \in Nat : ~Good(k)}
<1>1. ASSUME NEW c \in Walk, c.depth = BUFFER_MAX PROVE Failed(Loop(n, w)[c])
  BY <1>1, LoopUnfolds DEF Round, Failed, Fault
<1>2. Good(0)
  <2>1. \A c \in Remaining(0) : c \in Walk /\ c.depth = BUFFER_MAX
    BY SizesAssumption DEF Remaining, Walk
  <2> QED
    BY <1>1, <2>1
<1>3. ASSUME NEW k \in Nat, Good(k) PROVE Good(k + 1)
  <2> SUFFICES ASSUME NEW c \in Remaining(k + 1), NEW d \in Walk, SamePlace(c, d),
                      ~Failed(Loop(n, w)[c])
               PROVE  Loop(n, w)[d] = Loop(n, w)[c]
    OBVIOUS
  <2>1. c \in Walk /\ c.depth # BUFFER_MAX
    BY <1>1 DEF Remaining
  <2>2. d.depth # BUFFER_MAX
    BY <2>1, SizesAssumption DEF Walk, SamePlace
  <2>3. /\ Loop(n, w)[c] = Level(c, n, w, Loop(n, w)[Up(c)])
        /\ Loop(n, w)[d] = Level(d, n, w, Loop(n, w)[Up(d)])
    BY <2>1, <2>2, LoopUnfolds DEF Round
  <2>4. \A above : Level(d, n, w, above) = Level(c, n, w, above)
    BY DEF Level, SamePlace
  <2>5. CASE Loop(n, w)[c] = Loop(n, w)[Up(c)] /\ Live(c.handle)
    <3>1. Up(c) \in Remaining(k)
      BY <2>1, <2>5, UpWalks
    <3>2. d \in Remaining(BUFFER_MAX)
      BY AllRemain
    <3>3. Up(d) \in Walk
      <4>1. BUFFER_MAX - 1 \in Nat /\ (BUFFER_MAX - 1) + 1 = BUFFER_MAX
        BY SizesAssumption
      <4>2. Live(d.handle)
        BY <2>5 DEF SamePlace
      <4> QED
        BY <2>2, <3>2, <4>1, <4>2, UpWalks DEF Remaining
    <3>4. SamePlace(Up(c), Up(d))
      BY <2>1 DEF SamePlace, Up, Walk
    <3>5. Loop(n, w)[Up(d)] = Loop(n, w)[Up(c)]
      BY <1>3, <2>5, <3>1, <3>3, <3>4
    <3> QED
      BY <2>3, <2>4, <3>5
  <2>6. CASE ~(Loop(n, w)[c] = Loop(n, w)[Up(c)] /\ Live(c.handle))
    <3>1. \A a1, a2 : \/ Level(c, n, w, a1) = Level(c, n, w, a2)
                      \/ Live(c.handle) /\ Level(c, n, w, a1) = a1
      BY DEF Level
    <3> QED
      BY <2>3, <2>4, <2>6, <3>1
  <2> QED
    BY <2>5, <2>6
<1>4. Bad = {}
  <2> SUFFICES ASSUME Bad # {} PROVE FALSE
    OBVIOUS
  <2> HIDE DEF Good
  <2>1. PICK k \in Bad : \A j \in Bad : k <= j
    BY LeastNatural
  <2>2. k # 0
    BY <1>2
  <2>3. k - 1 \in Nat /\ k - 1 \notin Bad
    BY <2>1, <2>2
  <2>4. Good((k - 1) + 1)
    BY <1>3, <2>3
  <2> QED
    BY <2>4
<1>5. Good(BUFFER_MAX)
  <2> HIDE DEF Good
  <2> QED BY <1>4, SizesAssumption
<1> QED
  BY <1>5, AllRemain

(* A pointer that resolve gives is inside what the handle names, and asking *)
(* the parent for the same bytes gives it too.                             *)
LEMMA ResolvedInside ==
    ASSUME TablesOK, NEW h \in HandleArg, NEW at \in Sizes, NEW n \in Sizes, NEW w \in BOOLEAN,
           ~Failed(Resolve(h, at, n, w))
    PROVE  /\ Inside(h, at, n, w)
           /\ At(h).parent # NoHandle =>
                 Resolve(h, at, n, w) = Resolve(At(h).parent, at + At(h).offset, n, w)
<1> DEFINE c == Entry0(h, at)  d == Entry0(At(h).parent, at + At(h).offset)
<1>1. c \in Walk
  BY SizesAssumption DEF Entry0, Walk, HandleArg, Handle, NoHandle, Sizes
<1>2. c.handle = h /\ c.at = at /\ c.depth = 0 /\ c.depth # BUFFER_MAX
  BY SizesAssumption DEF Entry0
<1>3. Resolve(h, at, n, w) = Level(c, n, w, Loop(n, w)[Up(c)])
  <2>1. Resolve(h, at, n, w) = Loop(n, w)[c]
    BY ResolveIsLoop
  <2> HIDE DEF c
  <2> QED
    BY <1>1, <1>2, <2>1, LoopUnfolds DEF Round
<1> HIDE DEF c
<1>4. Live(h) /\ ~OutOfBounds(at, n, At(h).length) /\ (w => At(h).writable)
  BY <1>2, <1>3 DEF Level, Failed, Fault
<1>5. At(h) \in Buffer
  BY <1>1, <1>2, <1>4, SizesAssumption DEF Walk, Live, At, TablesOK, BufferSlots, Handle
<1>6. At(h).length \in Nat /\ At(h).offset \in Nat /\ At(h).parent \in Handle
  BY <1>5, SizesAssumption DEF Buffer, Sizes
<1>7. Inside(h, at, n, w)
  BY <1>4, <1>6, SizesAssumption DEF Inside, OutOfBounds, Sizes
<1>8. ASSUME At(h).parent # NoHandle
      PROVE  Resolve(h, at, n, w) = Resolve(At(h).parent, at + At(h).offset, n, w)
  <2>1. Resolve(h, at, n, w) = Loop(n, w)[Up(c)]
    BY <1>2, <1>3, <1>8 DEF Level, Failed, Fault
  <2>2. d \in Walk /\ SamePlace(Up(c), d)
    BY <1>2, <1>6, SizesAssumption DEF Entry0, Walk, SamePlace, Up, Sizes
  <2>3. Up(c) \in Walk
    <3>1. BUFFER_MAX - 1 \in Nat /\ (BUFFER_MAX - 1) + 1 = BUFFER_MAX
      BY SizesAssumption
    <3> QED
      BY <1>1, <1>2, <1>4, <3>1, AllRemain, UpWalks DEF Remaining
  <2> HIDE DEF d
  <2>4. Loop(n, w)[d] = Loop(n, w)[Up(c)]
    BY <2>1, <2>2, <2>3, EarlierFindsToo
  <2> QED
    BY <2>1, <2>4, ResolveIsLoop DEF d
<1> QED
  BY <1>7, <1>8

(* Through every sequence of callbacks a resolution that gives no pointer  *)
(* for a non-empty range raises an error, and a pointer it gives, with the *)
(* whole range behind it, lies in live memory that may be used that way,   *)
(* inside what the handle names and, as the parent would give the same     *)
(* pointer for the same bytes, inside every slice on the way.              *)
THEOREM AccessesConfined == Spec => []AccessSound
<1>1. IInv => AccessSound
  <2> SUFFICES ASSUME IInv, context = "ready",
                      NEW h \in HandleArg, NEW at \in Sizes, NEW n \in Sizes,
                      NEW w \in BOOLEAN, n > 0
               PROVE  /\ Sound(Resolve(h, at, n, w), n, w)
                      /\ ~Failed(Resolve(h, at, n, w)) =>
                            /\ Inside(h, at, n, w)
                            /\ At(h).parent # NoHandle =>
                                  Resolve(h, at, n, w)
                                      = Resolve(At(h).parent, at + At(h).offset, n, w)
    BY DEF AccessSound, Sound
  <2>1. Entry0(h, at) \in Walk
    BY SizesAssumption DEF Entry0, Walk, HandleArg, Handle, NoHandle, Sizes
  <2>2. Sound(Resolve(h, at, n, w), n, w)
    BY <2>1, WalkSound, ResolveIsLoop DEF IInv
  <2> QED
    BY <2>2, ResolvedInside DEF IInv
<1> QED
  BY <1>1, Invariance, PTL

-----------------------------------------------------------------------------
(* Nothing comes back to life.  An entry in use after a step was there     *)
(* before it, or has a generation issued by it.                            *)
OnlyFresh ==
    /\ \A i \in BufferSlots : buffers'[i].live =>
          buffers'[i] = buffers[i] \/ buffers'[i].generation = generation + 1
    /\ \A i \in FileSlots : files'[i].file # Null =>
          files'[i] = files[i] \/ files'[i].generation = generation + 1

(* A step fills only slots with generations never given out before.        *)
LEMMA StepOnlyFresh ==
    ASSUME IInv, Next, context = "ready", context' = "ready"
    PROVE  OnlyFresh
<1>1. ASSUME UNCHANGED <<buffers, files>> PROVE OnlyFresh
  BY <1>1 DEF OnlyFresh
<1>2. ASSUME CanAddBuffer, NEW v \in Buffer, AddBuffer(v), files' = files
      PROVE  OnlyFresh
  BY <1>2, AddBufferEffect DEF IInv, OnlyFresh, Added
<1>3. CASE BufferCall
  <2>1. ASSUME NEW n \in Sizes, NEW w \in BOOLEAN, Allocate(n, w)
        PROVE  OnlyFresh
    <3>1. ASSUME NEW b \in Blocks PROVE Root(b, n, TRUE, w) \in Buffer
      BY SizesAssumption DEF Root, Entry, Buffer, NoHandle, Handle, Sizes
    <3> QED
      BY <1>1, <1>2, <2>1, <3>1 DEF Allocate, Return, tables
  <2>2. ASSUME NEW p \in {HostMemory, Null}, NEW n \in Sizes, NEW w \in BOOLEAN,
               Borrow(p, n, w)
        PROVE  OnlyFresh
    <3>1. Root(p, n, FALSE, w) \in Buffer
      BY SizesAssumption DEF Root, Entry, Buffer, NoHandle, Handle, Sizes
    <3> QED
      BY <1>1, <1>2, <2>2, <3>1 DEF Borrow, Return, tables
  <2>3. ASSUME NEW h \in HandleArg, NEW n \in Sizes, Release(h, n)
        PROVE  OnlyFresh
    <3>1. CASE UNCHANGED <<buffers, files>>
      BY <1>1, <3>1
    <3>2. CASE /\ Live(h) /\ files' = files
               /\ buffers' = [buffers EXCEPT ![h.slot - 1].live = FALSE,
                                             ![h.slot - 1].base = Null]
      BY <3>2, ReleaseEffect DEF IInv, OnlyFresh
    <3> QED
      BY <2>3, <3>1, <3>2 DEF Release, Return, tables
  <2>4. ASSUME NEW h \in HandleArg, NEW at \in Sizes, NEW n \in Sizes,
               Slice(h, at, n)
        PROVE  OnlyFresh
    <3>1. CASE UNCHANGED <<buffers, files>>
      BY <1>1, <3>1
    <3>2. CASE /\ Live(h) /\ CanAddBuffer /\ files' = files
               /\ AddBuffer(View(h, at, n, At(h).writable))
      <4>1. At(h) \in Buffer /\ h \in Handle
        BY <3>2, SizesAssumption DEF IInv, TablesOK, Live, At, BufferSlots,
           HandleArg, Handle, NoHandle
      <4>2. View(h, at, n, At(h).writable) \in Buffer
        BY <4>1, SizesAssumption DEF View, Entry, Buffer, Sizes
      <4> QED
        BY <1>2, <3>2, <4>2
    <3> QED
      BY <2>4, <3>1, <3>2 DEF Slice, Return, tables
  <2> QED
    BY <1>1, <1>3, <2>1, <2>2, <2>3, <2>4
       DEF BufferCall, Alloc, Literal, Return, tables
<1>4. CASE AccessCall
  BY <1>1, <1>4 DEF AccessCall, ResolveCall, Length, CopyBytes, Diag, Return, tables
<1>5. CASE FileCall
  <2>1. ASSUME NEW h \in HandleArg, NEW n \in Sizes, NEW w \in BOOLEAN,
               OpenFile(h, n, w)
        PROVE  OnlyFresh
    <3>1. CASE UNCHANGED <<buffers, files>>
      BY <1>1, <3>1
    <3>2. ASSUME NEW k, NEW f, buffers' = buffers,
                 files' = [files EXCEPT ![k] =
                             [file |-> f, generation |-> generation + 1,
                              writable |-> w]]
          PROVE  OnlyFresh
      BY <3>2 DEF IInv, TablesOK, OnlyFresh
    <3> QED
      BY <2>1, <3>1, <3>2 DEF OpenFile, Return, tables
  <2>2. ASSUME NEW h \in FileArg, Close(h) PROVE OnlyFresh
    <3>1. CASE UNCHANGED <<buffers, files>>
      BY <1>1, <3>1
    <3>2. CASE /\ buffers' = buffers
               /\ files' = [files EXCEPT ![h.slot - 1].file = Null]
      BY <3>2 DEF IInv, TablesOK, File, OnlyFresh
    <3> QED
      BY <2>2, <3>1, <3>2 DEF Close, Return, tables
  <2>3. ASSUME NEW h \in FileArg, NEW b \in HandleArg, NEW n \in Sizes,
               Read(h, b, n) \/ Write(h, b, n)
        PROVE  OnlyFresh
    BY <1>1, <2>3 DEF Read, Write, Transfer, Return, tables
  <2> QED
    BY <1>5, <2>1, <2>2, <2>3 DEF FileCall
<1>6. CASE ErrorClear
  BY <1>1, <1>6 DEF ErrorClear, tables
<1> QED
  BY <1>3, <1>4, <1>5, <1>6 DEF Next, ContextInit, ContextDestroy

(* A handle issued before the step is not valid after it unless it was.    *)
LEMMA LiveWasLive ==
    ASSUME IInv, OnlyFresh, NEW h \in Handle, h.gen <= generation, Live(h)'
    PROVE  Live(h) /\ At(h)' = At(h)
<1>1. h.slot - 1 \in BufferSlots
  BY SizesAssumption DEF Live, BufferSlots, Handle
<1>2. h.gen \in Nat /\ generation \in Nat
  BY SizesAssumption DEF IInv, TablesOK, Handle
<1>3. buffers'[h.slot - 1] = buffers[h.slot - 1]
  BY <1>1, <1>2 DEF OnlyFresh, Live
<1> QED
  BY <1>3 DEF Live, At

(* A stream that is open and was given out before was open before.         *)
LEMMA OpenWasOpen ==
    ASSUME IInv, OnlyFresh, NEW h \in FileArg, h.gen <= generation, Open(h)'
    PROVE  Open(h)
<1>1. h.slot - 1 \in FileSlots
  BY SizesAssumption DEF Open, FileSlots, FileArg, NoHandle
<1>2. h.gen \in Nat /\ generation \in Nat
  BY SizesAssumption DEF IInv, TablesOK, FileArg, NoHandle
<1>3. files'[h.slot - 1] = files[h.slot - 1]
  BY <1>1, <1>2 DEF OnlyFresh, Open
<1> QED
  BY <1>3 DEF Open

(* The recursion of the walk that Usable takes, for a state as a whole, so *)
(* that it can be used of the state after a step too.                      *)
UsableWalk == Loop(0, FALSE)
WalkUnfolds == \A c \in Walk :
    UsableWalk[c] = IF c.depth = BUFFER_MAX THEN Fault("NV2_LIFETIME")
                    ELSE Level(c, 0, FALSE, UsableWalk[Up(c)])

(* The walk over the tables of a state is what its rounds say.             *)
LEMMA TablesUnfold == TablesOK => WalkUnfolds
BY LoopUnfolds DEF WalkUnfolds, UsableWalk, Round

(* Level by level: where the walk ends well after the step, it did before. *)
LEMMA UsableWasUsable ==
    ASSUME IInv, IInv', OnlyFresh, context = "ready",
           NEW c \in Walk, c.handle.gen <= generation,
           UsableWalk'[c].err = NoError
    PROVE  UsableWalk[c].err = NoError
<1> DEFINE Kept(k) == \A d \in Remaining(k) :
              d.handle.gen <= generation /\ UsableWalk'[d].err = NoError
              => UsableWalk[d].err = NoError
           Bad == {k \in Nat : ~Kept(k)}
<1>1. WalkUnfolds
  BY TablesUnfold DEF IInv
<1>2. WalkUnfolds'
  <2>1. TablesOK'
    BY DEF IInv
  <2> QED
    BY <2>1, TablesUnfold, PTL
<1>3. Fault("NV2_LIFETIME").err # NoError
  BY DEF Fault, NoError
<1>4. Kept(0)
  <2>1. \A d \in Remaining(0) : d \in Walk /\ d.depth = BUFFER_MAX
    BY SizesAssumption DEF Remaining, Walk
  <2> QED
    BY <1>2, <1>3, <2>1 DEF WalkUnfolds, Fault
<1>5. ASSUME NEW k \in Nat, Kept(k) PROVE Kept(k + 1)
  <2> SUFFICES ASSUME NEW d \in Remaining(k + 1), d.handle.gen <= generation,
                      UsableWalk'[d].err = NoError
               PROVE  UsableWalk[d].err = NoError
    OBVIOUS
  <2>1. d \in Walk /\ d.handle \in Handle
    BY DEF Remaining, Walk
  <2>2. d.depth # BUFFER_MAX
    BY <1>2, <1>3, <2>1 DEF WalkUnfolds, Fault
  <2>3. UsableWalk'[d] = Level(d, 0, FALSE, UsableWalk[Up(d)])'
    BY <1>2, <2>1, <2>2 DEF WalkUnfolds
  <2>4. Live(d.handle)'
    BY <1>3, <2>3 DEF Level, Fault
  <2>5. Live(d.handle) /\ At(d.handle)' = At(d.handle)
    BY <2>1, <2>4, LiveWasLive
  <2>6. Up(d)' = Up(d)
    BY <2>5 DEF Up
  <2>7. UsableWalk[d] = Level(d, 0, FALSE, UsableWalk[Up(d)])
    BY <1>1, <2>1, <2>2 DEF WalkUnfolds
  <2>8. CASE At(d.handle).parent = NoHandle
    BY <2>3, <2>4, <2>5, <2>7, <2>8 DEF Level
  <2>9. CASE At(d.handle).parent # NoHandle
    <3>1. Up(d).handle.gen <= generation
      <4>1. d.handle.slot - 1 \in LiveSlots
        BY <2>1, <2>5, SizesAssumption DEF Live, LiveSlots, BufferSlots, Handle
      <4>2. /\ At(d.handle).parent.gen < At(d.handle).generation
            /\ At(d.handle).generation \in 1 .. generation
        BY <2>9, <4>1 DEF IInv, SliceWithinParent, GenerationsDistinct, At
      <4>3. At(d.handle).parent.gen \in Nat /\ generation \in Nat
        BY <4>1, SizesAssumption
           DEF IInv, TablesOK, LiveSlots, At, Buffer, Handle
      <4> QED
        BY <4>2, <4>3 DEF Up
    <3>2. Up(d) \in Remaining(k)
      BY <2>2, <2>5, UpWalks DEF IInv
    <3>3. UsableWalk'[Up(d)'].err = NoError
            => UsableWalk[Up(d)].err = NoError
      BY <1>5, <2>6, <3>1, <3>2
    <3> QED
      BY <2>3, <2>4, <2>5, <2>7, <3>3 DEF Level
  <2> QED
    BY <2>8, <2>9
<1>6. Bad = {}
  <2> SUFFICES ASSUME Bad # {} PROVE FALSE
    OBVIOUS
  <2> HIDE DEF Kept
  <2>1. PICK k \in Bad : \A j \in Bad : k <= j
    BY LeastNatural
  <2>2. k # 0
    BY <1>4
  <2>3. k - 1 \in Nat /\ k - 1 \notin Bad
    BY <2>1, <2>2
  <2>4. Kept((k - 1) + 1)
    BY <1>5, <2>3
  <2> QED
    BY <2>4
<1>7. Kept(BUFFER_MAX)
  <2> HIDE DEF Kept
  <2> QED BY <1>6, SizesAssumption
<1> QED
  BY <1>7, AllRemain

(* No step brings a handle given out earlier back to life.                 *)
LEMMA StepNoResurrection ==
    IInv /\ [Next]_vars =>
    [ (context = "ready" /\ context' = "ready" /\ tables' # tables) =>
        /\ \A h \in Issued(HandleArg) :
            /\ Live(h)' => Live(h)
            /\ Usable(h)' => Usable(h)
        /\ \A h \in Issued(FileArg) : Open(h)' => Open(h) ]_tables
<1> SUFFICES ASSUME IInv, Next, context = "ready", context' = "ready"
             PROVE  /\ \A h \in Issued(HandleArg) :
                          /\ Live(h)' => Live(h)
                          /\ Usable(h)' => Usable(h)
                    /\ \A h \in Issued(FileArg) : Open(h)' => Open(h)
  BY DEF vars
<1>1. OnlyFresh
  BY StepOnlyFresh
<1>2. IInv'
  BY StepInvariant
<1>3. \A h \in HandleArg : h \in Handle
  BY SizesAssumption DEF HandleArg, Handle, NoHandle
<1>4. ASSUME NEW h \in HandleArg, h.gen <= generation, Usable(h)' PROVE Usable(h)
  <2>1. \A b, at, n, w : Resolve(b, at, n, w) = Loop(n, w)[Entry0(b, at)]
    BY ResolveIsLoop
  <2>2. Usable(h) <=> UsableWalk[Entry0(h, 0)].err = NoError
    BY <2>1 DEF Usable, UsableWalk
  <2>3. Usable(h)' <=> UsableWalk'[Entry0(h, 0)].err = NoError
    BY DEF Usable, UsableWalk, Resolve, Loop, IsLoop, Round, Entry0
  <2>4. Entry0(h, 0) \in Walk /\ Entry0(h, 0).handle = h
    BY <1>3, SizesAssumption DEF Entry0, Walk
  <2> QED
    BY <1>1, <1>2, <1>4, <2>2, <2>3, <2>4, UsableWasUsable
<1> QED
  BY <1>1, <1>3, <1>4, LiveWasLive, OpenWasOpen DEF Issued

(* A handle of a generation already issued never becomes valid again, and  *)
(* neither does a view of it, whatever slots are taken again.              *)
THEOREM NothingResurrected == Spec => NoResurrection
BY Invariance, StepNoResurrection, PTL DEF Spec, NoResurrection

-----------------------------------------------------------------------------
(* The bytes of a set of entries.  AddUp is one unfolding of the recursion *)
(* of MapThenSumSet; the lemmas show that a function satisfying it exists  *)
(* and that the sum does not depend on the order the entries are taken in. *)
Bytes(b, S) == MapThenSumSet(LAMBDA i : b[i].length, S)
First(s) == CHOOSE x \in s : TRUE
AddUp(sum, b, s) ==
    IF s = {} THEN 0 ELSE b[First(s)].length + sum[s \ {First(s)}]
IsSum(sum, b, S) == sum = [s \in SUBSET S |-> AddUp(sum, b, s)]
SumOver(b, S) == CHOOSE sum : IsSum(sum, b, S)

(* The bytes of a set of slots, by the function that adds them up.         *)
LEMMA BytesIsSum == \A b, S : Bytes(b, S) = SumOver(b, S)[S]
BY DEF Bytes, MapThenSumSet, MapThenFoldSet, SumOver, IsSum, AddUp, First

Subsets(S, k) == {s \in SUBSET S : Cardinality(s) <= k}

(* A set without one of its elements has one element less.                 *)
LEMMA FewerLeft ==
    ASSUME NEW S, IsFiniteSet(S), NEW k \in Nat, NEW s \in Subsets(S, k + 1),
           NEW x \in s
    PROVE  s \ {x} \in Subsets(S, k)
<1>1. IsFiniteSet(s) /\ Cardinality(s) \in Nat /\ Cardinality(s) <= k + 1
  BY FS_Subset, FS_CardinalityType DEF Subsets
<1>2. Cardinality(s \ {x}) = Cardinality(s) - 1
  BY <1>1, FS_RemoveElement
<1> QED
  BY <1>1, <1>2 DEF Subsets

(* The sets of at most the whole's cardinality are all subsets.            *)
LEMMA AllSubsets ==
    ASSUME NEW S, IsFiniteSet(S)
    PROVE  Cardinality(S) \in Nat /\ Subsets(S, Cardinality(S)) = SUBSET S
BY FS_Subset, FS_CardinalityType DEF Subsets

(* A set of no elements is empty.                                          *)
LEMMA NoneLeft ==
    ASSUME NEW S, IsFiniteSet(S), NEW s \in Subsets(S, 0)
    PROVE  s = {}
<1>1. IsFiniteSet(s) /\ Cardinality(s) \in Nat /\ Cardinality(s) <= 0
  BY FS_Subset, FS_CardinalityType DEF Subsets
<1> QED
  BY <1>1, FS_EmptySet

(* There is a function that adds up the lengths of every subset.           *)
LEMMA SumExists ==
    ASSUME NEW S, IsFiniteSet(S), NEW b
    PROVE  \E sum : IsSum(sum, b, S)
<1> DEFINE Solved(k) == \E f : f = [s \in Subsets(S, k) |-> AddUp(f, b, s)]
           Bad == {k \in Nat : ~Solved(k)}
<1>1. Solved(0)
  <2> DEFINE f == [s \in Subsets(S, 0) |-> 0]
  <2>1. f = [s \in Subsets(S, 0) |-> AddUp(f, b, s)]
    BY NoneLeft DEF AddUp
  <2> QED
    BY <2>1
<1>2. ASSUME NEW k \in Nat, Solved(k) PROVE Solved(k + 1)
  <2>1. PICK g : g = [s \in Subsets(S, k) |-> AddUp(g, b, s)]
    BY <1>2
  <2> DEFINE f == [s \in Subsets(S, k + 1) |-> AddUp(g, b, s)]
  <2>2. Subsets(S, k) \in SUBSET Subsets(S, k + 1)
    <3>1. \A s \in SUBSET S : Cardinality(s) \in Nat
      BY FS_Subset, FS_CardinalityType
    <3> QED
      BY <3>1 DEF Subsets
  <2>3. \A s \in Subsets(S, k) : f[s] = g[s]
    <3> HIDE DEF AddUp
    <3> QED BY <2>1, <2>2
  <2>4. ASSUME NEW s \in Subsets(S, k + 1) PROVE AddUp(f, b, s) = AddUp(g, b, s)
    <3>1. CASE s = {}
      BY <3>1 DEF AddUp
    <3>2. CASE s # {}
      <4>1. First(s) \in s
        BY <3>2 DEF First
      <4>2. f[s \ {First(s)}] = g[s \ {First(s)}]
        BY <2>3, <4>1, FewerLeft
      <4> HIDE DEF f
      <4> QED BY <4>2 DEF AddUp
    <3> QED
      BY <3>1, <3>2
  <2>5. f = [s \in Subsets(S, k + 1) |-> AddUp(f, b, s)]
    BY <2>4
  <2> QED
    BY <2>5
<1>3. Bad = {}
  <2> SUFFICES ASSUME Bad # {} PROVE FALSE
    OBVIOUS
  <2> HIDE DEF Solved
  <2>1. PICK k \in Bad : \A j \in Bad : k <= j
    BY LeastNatural
  <2>2. k # 0
    BY <1>1
  <2>3. k - 1 \in Nat /\ k - 1 \notin Bad
    BY <2>1, <2>2
  <2>4. Solved((k - 1) + 1)
    BY <1>2, <2>3
  <2> QED
    BY <2>4
<1>4. Solved(Cardinality(S))
  <2> HIDE DEF Solved
  <2> QED BY <1>3, AllSubsets
<1> QED
  BY <1>4, AllSubsets DEF IsSum

(* The sum is one element's length and the sum of the rest.                *)
LEMMA SumUnfolds ==
    ASSUME NEW S, IsFiniteSet(S), NEW b
    PROVE  \A s \in SUBSET S : SumOver(b, S)[s] = AddUp(SumOver(b, S), b, s)
<1>1. \A f : IsSum(f, b, S) => \A s \in SUBSET S : f[s] = AddUp(f, b, s)
  BY DEF IsSum
<1>2. IsSum(SumOver(b, S), b, S)
  BY SumExists DEF SumOver
<1> QED
  BY <1>1, <1>2

(* The sum of a set does not depend on the set it was computed within, nor *)
(* on the entries outside it.                                              *)
LEMMA SumLocal ==
    ASSUME NEW S, IsFiniteSet(S), NEW T, IsFiniteSet(T), NEW b, NEW c,
           NEW U \in SUBSET S, U \in SUBSET T,
           \A i \in U : b[i].length = c[i].length
    PROVE  SumOver(b, S)[U] = SumOver(c, T)[U]
<1> DEFINE Same(k) == \A s \in Subsets(U, k) : SumOver(b, S)[s] = SumOver(c, T)[s]
           Bad == {k \in Nat : ~Same(k)}
<1>0. IsFiniteSet(U)
  BY FS_Subset
<1>1. Same(0)
  <2>1. \A s \in Subsets(U, 0) : s = {}
    BY <1>0, NoneLeft
  <2>2. SumOver(b, S)[{}] = 0 /\ SumOver(c, T)[{}] = 0
    BY SumUnfolds DEF AddUp
  <2> QED
    BY <2>1, <2>2
<1>2. ASSUME NEW k \in Nat, Same(k) PROVE Same(k + 1)
  <2> SUFFICES ASSUME NEW s \in Subsets(U, k + 1)
               PROVE  SumOver(b, S)[s] = SumOver(c, T)[s]
    OBVIOUS
  <2>1. s \in SUBSET S /\ s \in SUBSET T /\ s \in SUBSET U
    BY DEF Subsets
  <2>2. /\ SumOver(b, S)[s] = AddUp(SumOver(b, S), b, s)
        /\ SumOver(c, T)[s] = AddUp(SumOver(c, T), c, s)
    BY <2>1, SumUnfolds
  <2>3. CASE s = {}
    BY <2>2, <2>3 DEF AddUp
  <2>4. CASE s # {}
    <3>1. First(s) \in s
      BY <2>4 DEF First
    <3>2. s \ {First(s)} \in Subsets(U, k)
      BY <1>0, <3>1, FewerLeft
    <3>3. b[First(s)].length = c[First(s)].length
      BY <2>1, <3>1
    <3> QED
      BY <1>2, <2>2, <2>4, <3>2, <3>3 DEF AddUp
  <2> QED
    BY <2>3, <2>4
<1>3. Bad = {}
  <2> SUFFICES ASSUME Bad # {} PROVE FALSE
    OBVIOUS
  <2> HIDE DEF Same
  <2>1. PICK k \in Bad : \A j \in Bad : k <= j
    BY LeastNatural
  <2>2. k # 0
    BY <1>1
  <2>3. k - 1 \in Nat /\ k - 1 \notin Bad
    BY <2>1, <2>2
  <2>4. Same((k - 1) + 1)
    BY <1>2, <2>3
  <2> QED
    BY <2>4
<1>4. Same(Cardinality(U))
  <2> HIDE DEF Same
  <2> QED BY <1>0, <1>3, AllSubsets
<1> QED
  BY <1>0, <1>4, AllSubsets

(* Whichever entry is taken out, what is left counts its length less.      *)
LEMMA SumAnyOrder ==
    ASSUME NEW S, IsFiniteSet(S), NEW b, \A i \in S : b[i].length \in Int
    PROVE  \A s \in SUBSET S :
              /\ SumOver(b, S)[s] \in Int
              /\ \A x \in s : SumOver(b, S)[s]
                              = b[x].length + SumOver(b, S)[s \ {x}]
<1> DEFINE sum == SumOver(b, S)
           Good(s) == /\ sum[s] \in Int
                      /\ \A x \in s : sum[s] = b[x].length + sum[s \ {x}]
           Fine(k) == \A s \in Subsets(S, k) : Good(s)
           Bad == {k \in Nat : ~Fine(k)}
<1>1. Fine(0)
  <2>1. \A s \in Subsets(S, 0) : s = {}
    BY NoneLeft
  <2>2. sum[{}] = 0
    BY SumUnfolds DEF AddUp
  <2> HIDE DEF sum
  <2>3. Good({})
    BY <2>2
  <2> HIDE DEF Good
  <2> QED
    BY <2>1, <2>3
<1>2. ASSUME NEW k \in Nat, Fine(k) PROVE Fine(k + 1)
  <2> SUFFICES ASSUME NEW s \in Subsets(S, k + 1) PROVE Good(s)
    OBVIOUS
  <2>1. s \in SUBSET S
    BY DEF Subsets
  <2>2. sum[s] = AddUp(sum, b, s)
    BY <2>1, SumUnfolds
  <2> HIDE DEF sum
  <2>3. CASE s = {}
    BY <2>2, <2>3 DEF AddUp
  <2>4. CASE s # {}
    <3> DEFINE y == First(s)
    <3>1. y \in s /\ b[y].length \in Int
      BY <2>1, <2>4 DEF First
    <3>2. \A x \in s : s \ {x} \in Subsets(S, k)
      BY FewerLeft
    <3>3. sum[s] = b[y].length + sum[s \ {y}]
      BY <2>2, <2>4 DEF AddUp
    <3> HIDE DEF y
    <3>4. sum[s] \in Int
      BY <1>2, <3>1, <3>2, <3>3
    <3>5. ASSUME NEW x \in s, x # y PROVE sum[s] = b[x].length + sum[s \ {x}]
      <4>1. /\ sum[s \ {y}] = b[x].length + sum[(s \ {y}) \ {x}]
            /\ sum[s \ {x}] = b[y].length + sum[(s \ {x}) \ {y}]
        BY <1>2, <3>1, <3>2, <3>5
      <4>2. (s \ {y}) \ {x} = (s \ {x}) \ {y}
        OBVIOUS
      <4>3. (s \ {y}) \ {x} \in Subsets(S, k)
        <5>1. (s \ {y}) \in Subsets(S, k + 1)
          <6>1. Cardinality(s \ {y}) \in Nat
            BY <2>1, FS_Subset, FS_CardinalityType
          <6> QED
            BY <3>1, <3>2, <6>1 DEF Subsets
        <5> QED
          BY <3>5, <5>1, FewerLeft
      <4>4. sum[(s \ {y}) \ {x}] \in Int /\ b[x].length \in Int
        BY <1>2, <2>1, <4>3
      <4>5. ASSUME NEW r, r \in Int,
                   sum[s \ {y}] = b[x].length + r, sum[s \ {x}] = b[y].length + r
            PROVE  sum[s] = b[x].length + sum[s \ {x}]
        BY <3>1, <3>3, <4>4, <4>5
      <4> QED
        BY <4>1, <4>2, <4>4, <4>5
    <3> QED
      BY <3>3, <3>4, <3>5
  <2> QED
    BY <2>3, <2>4
<1>3. Bad = {}
  <2> SUFFICES ASSUME Bad # {} PROVE FALSE
    OBVIOUS
  <2> HIDE DEF Fine
  <2>1. PICK k \in Bad : \A j \in Bad : k <= j
    BY LeastNatural
  <2>2. k # 0
    BY <1>1
  <2>3. k - 1 \in Nat /\ k - 1 \notin Bad
    BY <2>1, <2>2
  <2>4. Fine((k - 1) + 1)
    BY <1>2, <2>3
  <2> QED
    BY <2>4
<1>4. Fine(Cardinality(S))
  <2> HIDE DEF Fine
  <2> QED BY <1>3, AllSubsets
<1>5. \A s \in SUBSET S : Good(s)
  <2> HIDE DEF Good
  <2> QED BY <1>4, AllSubsets
<1> QED
  BY <1>5

(* What the tables need of it.                                             *)
LEMMA BytesWithout ==
    ASSUME NEW S, IsFiniteSet(S), NEW b, NEW c, NEW x \in S,
           \A i \in S : b[i].length \in Int,
           \A i \in S \ {x} : c[i].length = b[i].length
    PROVE  /\ Bytes(b, S) \in Int
           /\ Bytes(c, S \ {x}) \in Int
           /\ Bytes(b, S) = b[x].length + Bytes(c, S \ {x})
<1>1. IsFiniteSet(S \ {x})
  BY FS_RemoveElement
<1>2. SumOver(c, S \ {x})[S \ {x}] = SumOver(b, S)[S \ {x}]
  <2> DEFINE U == S \ {x}
  <2>1. U \in SUBSET S /\ U \in SUBSET U /\ IsFiniteSet(U)
    BY <1>1
  <2>2. \A i \in U : c[i].length = b[i].length
    OBVIOUS
  <2> HIDE DEF U
  <2>3. ASSUME NEW W \in SUBSET U, W \in SUBSET S,
               \A i \in W : c[i].length = b[i].length
        PROVE  SumOver(c, U)[W] = SumOver(b, S)[W]
    BY <2>1, <2>3, SumLocal
  <2>4. SumOver(c, U)[U] = SumOver(b, S)[U]
    BY <2>1, <2>2, <2>3
  <2> QED
    BY <2>4 DEF U
<1>3. /\ SumOver(b, S)[S] \in Int /\ SumOver(b, S)[S \ {x}] \in Int
      /\ SumOver(b, S)[S] = b[x].length + SumOver(b, S)[S \ {x}]
  <2>1. S \in SUBSET S /\ S \ {x} \in SUBSET S
    OBVIOUS
  <2> QED
    BY <2>1, SumAnyOrder
<1> QED
  BY <1>2, <1>3, BytesIsSum

(* The sum depends on the lengths of the slots added up only.              *)
LEMMA BytesSame ==
    ASSUME NEW S, IsFiniteSet(S), NEW b, NEW c,
           \A i \in S : b[i].length = c[i].length
    PROVE  Bytes(b, S) = Bytes(c, S)
BY SumLocal, BytesIsSum

(* No slots hold no bytes.                                                 *)
LEMMA BytesOfNone == \A b : Bytes(b, {}) = 0
<1>1. \A b : SumOver(b, {})[{}] = AddUp(SumOver(b, {}), b, {})
  BY SumUnfolds, FS_EmptySet
<1> QED
  BY <1>1, BytesIsSum DEF AddUp

-----------------------------------------------------------------------------
(* State.allocated is the sum of the lengths of the live owned buffers.    *)
Quota == ALLOC_FACTOR * BYTES_MAX

(* The quota is a natural number.                                          *)
LEMMA QuotaNat == Quota \in Nat
BY SizesAssumption DEF Quota

(* The slots of owned buffers are finitely many.                           *)
LEMMA OwnedFinite == IsFiniteSet(OwnedSlots)
<1>1. IsFiniteSet(BufferSlots)
  BY SizesAssumption, FS_Interval DEF BufferSlots
<1>2. OwnedSlots \in SUBSET BufferSlots
  BY DEF OwnedSlots, LiveSlots
<1> QED
  BY <1>1, <1>2, FS_Subset

(* A buffer's length is a natural number.                                  *)
LEMMA LengthsNat ==
    TablesOK => \A i \in BufferSlots : buffers[i].length \in Nat
BY SizesAssumption DEF TablesOK, Buffer, Sizes

Exact ==
    context = "ready" => allocated = Bytes(buffers, OwnedSlots) /\ allocated <= Quota

(* The invariant of the quota is the property of the run.                  *)
LEMMA ExactIs == Exact <=> AllocatedExact
BY DEF Exact, AllocatedExact, Bytes, Quota

(* A step that leaves the owned buffers alone keeps the count exact.       *)
LEMMA SameOwnedExact ==
    ASSUME IInv, Exact, OwnedSlots' = OwnedSlots, context' = context,
           allocated' = allocated,
           \A i \in OwnedSlots : buffers'[i].length = buffers[i].length
    PROVE  Exact'
<1>1. Bytes(buffers', OwnedSlots) = Bytes(buffers, OwnedSlots)
  BY OwnedFinite, BytesSame
<1> QED
  BY <1>1 DEF Exact

(* A buffer added and counted keeps the count exact.                       *)
LEMMA AddExact ==
    ASSUME IInv, Exact, context = "ready", context' = "ready", CanAddBuffer,
           NEW value \in Buffer, AddBuffer(value),
           IF value.owned
           THEN /\ allocated' = allocated + value.length
                /\ allocated + value.length <= Quota
           ELSE allocated' = allocated
    PROVE  Exact'
<1>1. PICK i \in BufferSlots : Added(i, value)
  BY AddBufferEffect DEF IInv
<1>2. /\ i \notin OwnedSlots
      /\ OwnedSlots' = IF value.owned THEN OwnedSlots \cup {i} ELSE OwnedSlots
      /\ \A j \in OwnedSlots : j \in BufferSlots /\ buffers'[j] = buffers[j]
  BY <1>1 DEF Added, LiveSlots, OwnedSlots
<1>3. CASE ~value.owned
  BY <1>2, <1>3, SameOwnedExact
<1>4. CASE value.owned
  <2> DEFINE S == OwnedSlots \cup {i}
  <2>1. IsFiniteSet(S) /\ i \in S /\ S \ {i} = OwnedSlots
    BY <1>2, OwnedFinite, FS_AddElement
  <2>2. buffers' \in [BufferSlots -> Buffer]
    BY AddBufferEffect DEF IInv
  <2>3. \A j \in S : buffers'[j].length \in Int
    <3>1. \A j \in S : j \in BufferSlots
      BY <1>1, <1>2
    <3> QED
      BY <2>2, <3>1, SizesAssumption DEF Buffer, Sizes
  <2>4. \A j \in S \ {i} : buffers[j].length = buffers'[j].length
    BY <1>2
  <2> HIDE DEF S
  <2>5. /\ Bytes(buffers', S) = buffers'[i].length + Bytes(buffers, S \ {i})
        /\ Bytes(buffers, S \ {i}) \in Int
    BY <2>1, <2>3, <2>4, BytesWithout
  <2>6. buffers'[i].length = value.length /\ value.length \in Int
    BY <1>1, SizesAssumption DEF Added, Buffer, Sizes
  <2>7. allocated' = allocated + value.length /\ allocated' <= Quota
    BY <1>4
  <2>8. allocated = Bytes(buffers, S \ {i})
    BY <2>1 DEF Exact
  <2>9. allocated' = Bytes(buffers', S)
    BY <2>5, <2>6, <2>7, <2>8
  <2> QED
    BY <1>2, <1>4, <2>7, <2>9 DEF Exact, S
<1> QED
  BY <1>3, <1>4

(* release_v2 keeps the count exact.                                       *)
LEMMA ReleaseExact ==
    ASSUME IInv, Exact, NEW h \in HandleArg, NEW n \in Sizes, Release(h, n)
    PROVE  Exact'
<1>1. CASE UNCHANGED <<tables, context>>
  BY <1>1, SameOwnedExact DEF tables, OwnedSlots, LiveSlots
<1>2. ASSUME context = "ready", context' = "ready", Live(h),
             buffers' = [buffers EXCEPT ![h.slot - 1].live = FALSE,
                                        ![h.slot - 1].base = Null],
             IF At(h).owned THEN allocated' = allocated - At(h).length
                            ELSE allocated' = allocated
      PROVE  Exact'
  <2> DEFINE k == h.slot - 1
  <2>1. /\ k \in BufferSlots /\ ~buffers'[k].live
        /\ \A j \in BufferSlots : j # k => buffers'[j] = buffers[j]
    BY <1>2, ReleaseEffect DEF IInv
  <2>2. buffers[k].live /\ At(h) = buffers[k]
    BY <1>2 DEF Live, At
  <2> HIDE DEF k
  <2>3. /\ OwnedSlots' = OwnedSlots \ {k}
        /\ k \in OwnedSlots <=> buffers[k].owned
        /\ \A j \in OwnedSlots : j \in BufferSlots
    BY <2>1, <2>2 DEF OwnedSlots, LiveSlots
  <2>4. CASE ~buffers[k].owned
    <3>1. OwnedSlots' = OwnedSlots
      BY <2>3, <2>4
    <3>2. \A j \in OwnedSlots : buffers'[j].length = buffers[j].length
      BY <2>1, <2>3, <2>4
    <3> QED
      BY <1>2, <2>2, <2>4, <3>1, <3>2, SameOwnedExact
  <2>5. CASE buffers[k].owned
    <3>1. \A j \in OwnedSlots : buffers[j].length \in Int
      BY <2>3, LengthsNat DEF IInv
    <3>2. \A j \in OwnedSlots \ {k} : buffers'[j].length = buffers[j].length
      BY <2>1, <2>3
    <3>3. k \in OwnedSlots
      BY <2>3, <2>5
    <3>4. /\ Bytes(buffers, OwnedSlots)
             = buffers[k].length + Bytes(buffers', OwnedSlots \ {k})
          /\ Bytes(buffers', OwnedSlots \ {k}) \in Int
      BY <3>1, <3>2, <3>3, OwnedFinite, BytesWithout
    <3>5. buffers[k].length \in Nat
      BY <2>1, LengthsNat DEF IInv
    <3>6. allocated' = Bytes(buffers', OwnedSlots \ {k}) /\ allocated' <= Quota
      BY <1>2, <2>2, <2>5, <3>4, <3>5, QuotaNat DEF Exact
    <3> QED
      BY <2>3, <3>6 DEF Exact
  <2> QED
    BY <2>4, <2>5
<1> QED
  BY <1>1, <1>2 DEF Release, Return, Callable

(* A callback that leaves the buffers and the total alone.                 *)
LEMMA ElsewhereExact ==
    ASSUME IInv, Exact, UNCHANGED <<buffers, allocated, context>>
    PROVE  Exact'
BY SameOwnedExact DEF OwnedSlots, LiveSlots

(* allocate_v2 keeps the count exact.                                      *)
LEMMA AllocateExact ==
    ASSUME IInv, Exact, Callable, NEW n \in Sizes, NEW w \in BOOLEAN, Allocate(n, w)
    PROVE  Exact'
<1>1. CASE UNCHANGED <<tables, external, context>>
  BY <1>1, ElsewhereExact DEF tables
<1>2. ASSUME NEW p \in Blocks, CanAddBuffer, AddBuffer(Root(p, n, TRUE, w)),
             ~(allocated > ALLOC_FACTOR * BYTES_MAX - n),
             allocated' = allocated + n, context' = context
      PROVE  Exact'
  <2> DEFINE v == Root(p, n, TRUE, w)
  <2>1. v \in Buffer /\ v.owned /\ v.length = n
    BY SizesAssumption DEF Root, Entry, Buffer, NoHandle, Handle, Sizes
  <2>2. ~(allocated > Quota - n)
    BY <1>2 DEF Quota
  <2>3. allocated + n <= Quota
    BY <2>2, QuotaNat, SizesAssumption DEF IInv, TablesOK, Sizes
  <2> HIDE DEF v
  <2> QED
    BY <1>2, <2>1, <2>3, AddExact DEF Callable, v
<1> QED
  BY <1>1, <1>2 DEF Allocate, Return

(* Every step keeps the count exact.                                       *)
LEMMA StepExact == IInv /\ Exact /\ [Next]_vars => Exact'
<1> SUFFICES ASSUME IInv, Exact, [Next]_vars PROVE Exact'
  OBVIOUS
<1>1. CASE BufferCall
  <2>1. ASSUME NEW n \in Sizes, Alloc(n) PROVE Exact'
    BY <2>1, AllocateExact DEF Alloc
  <2>2. ASSUME NEW p \in {HostMemory, Null}, NEW n \in Sizes, NEW w \in BOOLEAN,
               Borrow(p, n, w)
        PROVE  Exact'
    <3> DEFINE v == Root(p, n, FALSE, w)
    <3>1. v \in Buffer /\ ~v.owned
      BY SizesAssumption DEF Root, Entry, Buffer, NoHandle, Handle, Sizes
    <3>2. CASE UNCHANGED <<tables, external, context>>
      BY <3>2, ElsewhereExact DEF tables
    <3>3. CASE /\ CanAddBuffer /\ AddBuffer(v)
               /\ UNCHANGED <<files, allocated, error, external, context>>
      <4>1. context = "ready"
        BY <2>2 DEF Borrow, Callable
      <4> HIDE DEF v
      <4> QED BY <3>1, <3>3, <4>1, AddExact
    <3> QED
      BY <2>2, <3>2, <3>3 DEF Borrow, Return
  <2>3. ASSUME NEW p \in {HostMemory, Null}, NEW n \in Sizes, NEW w \in BOOLEAN,
               Literal(p, n, w)
        PROVE  Exact'
    BY <2>3, AllocateExact, ElsewhereExact DEF Literal, Return, tables
  <2>4. ASSUME NEW h \in HandleArg, NEW n \in Sizes, Release(h, n) PROVE Exact'
    BY <2>4, ReleaseExact
  <2>5. ASSUME NEW h \in HandleArg, NEW at \in Sizes, NEW n \in Sizes,
               Slice(h, at, n)
        PROVE  Exact'
    <3> DEFINE v == View(h, at, n, At(h).writable)
    <3>1. CASE UNCHANGED <<tables, external, context>>
      BY <3>1, ElsewhereExact DEF tables
    <3>2. CASE /\ Live(h) /\ CanAddBuffer /\ AddBuffer(v)
               /\ UNCHANGED <<files, allocated, external, context>>
      <4>1. At(h) \in Buffer /\ h \in Handle /\ context = "ready"
        BY <2>5, <3>2, SizesAssumption DEF IInv, TablesOK, Live, At, BufferSlots,
           HandleArg, Handle, NoHandle, Slice, Callable
      <4>2. v \in Buffer /\ ~v.owned
        BY <4>1, SizesAssumption DEF View, Entry, Buffer, Sizes
      <4> HIDE DEF v
      <4> QED BY <3>2, <4>1, <4>2, AddExact
    <3> QED
      BY <2>5, <3>1, <3>2 DEF Slice, Return
  <2> QED
    BY <1>1, <2>1, <2>2, <2>3, <2>4, <2>5 DEF BufferCall
<1>2. CASE AccessCall
  BY <1>2, ElsewhereExact
     DEF AccessCall, ResolveCall, Length, CopyBytes, Diag, Return, tables
<1>3. CASE FileCall
  <2>1. ASSUME NEW h \in HandleArg, NEW n \in Sizes, NEW w \in BOOLEAN, OpenFile(h, n, w)
        PROVE  UNCHANGED <<buffers, allocated, context>>
    BY <2>1 DEF OpenFile, Return, tables
  <2>2. ASSUME NEW h \in FileArg, NEW buf \in HandleArg, NEW n \in Sizes,
               Read(h, buf, n) \/ Write(h, buf, n)
        PROVE  UNCHANGED <<buffers, allocated, context>>
    BY <2>2 DEF Read, Write, Transfer, Return, tables
  <2>3. ASSUME NEW h \in FileArg, Close(h)
        PROVE  UNCHANGED <<buffers, allocated, context>>
    BY <2>3 DEF Close, Return, tables
  <2>4. UNCHANGED <<buffers, allocated, context>>
    BY <1>3, <2>1, <2>2, <2>3 DEF FileCall
  <2> QED
    BY <2>4, ElsewhereExact
<1>4. CASE ErrorClear
  BY <1>4, ElsewhereExact DEF ErrorClear, tables
<1>5. CASE ContextInit
  <2>1. OwnedSlots' = {} /\ allocated' = 0
    BY <1>5, EmptyTablesTyped DEF ContextInit, ResetTables, OwnedSlots, LiveSlots
  <2>2. Bytes(buffers', {}) = 0
    BY BytesOfNone
  <2> QED
    BY <2>1, <2>2, QuotaNat DEF Exact
<1>6. CASE ContextDestroy
  BY <1>6 DEF ContextDestroy, Exact
<1>7. CASE UNCHANGED vars
  BY <1>7, ElsewhereExact DEF vars, tables
<1> QED
  BY <1>1, <1>2, <1>3, <1>4, <1>5, <1>6, <1>7 DEF Next

(* The total the quota is checked against is, through every failing and    *)
(* succeeding callback, exactly what the live owned buffers occupy.        *)
THEOREM QuotaRespected == Spec => []AllocatedExact
<1>1. Init => Exact
  BY DEF Init, Exact
<1> QED
  BY <1>1, StepExact, Invariance, ExactIs, PTL DEF Spec
=============================================================================
