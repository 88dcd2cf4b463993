--------------------------- MODULE UefiProbeProofs ---------------------------
(***************************************************************************)
(* Proofs about the UEFI probe and its library, for any child, any number  *)
(* of refusals and any names.  Each library call is shown to keep the      *)
(* books: while the firmware has refused nothing the counters are the      *)
(* numbers of what it has given out, and that is what the program owns.    *)
(***************************************************************************)
EXTENDS UefiProbe, FiniteSetTheorems, TLAPS

Names == Own \cup Buffers \cup Streams

Platform ==
    [blocks : SUBSET Names, valid : SUBSET Names, handles : SUBSET Names, pools : Int, files : Int,
     error : BOOLEAN, refused : Nat]

Record(b, v, h, n, m, e, r) ==
    [blocks |-> b, valid |-> v, handles |-> h, pools |-> n, files |-> m, error |-> e, refused |-> r]

(* The books are right when the program owns the blocks of own, has the    *)
(* streams of open, and the handles of loose are not streams yet.          *)
Sound(p, own, open, loose) ==
    /\ p \in Platform
    /\ IsFiniteSet(own) /\ IsFiniteSet(open)
    /\ p.valid = own
    /\ p.error => p.refused # 0
    /\ ~ p.error => /\ p.blocks = own /\ p.pools = Cardinality(own)
                    /\ p.handles = open \cup loose /\ p.files = Cardinality(open)

(* What is wrong stays so, and a refusal by the library is an error.       *)
Later(p, q) ==
    /\ p.error => q.error
    /\ p.refused # 0 => q.refused # 0
    /\ q.refused # 0 => p.refused # 0 \/ q.error

-----------------------------------------------------------------------------
(* The library keeps them.                                                 *)

(* A call the firmware refuses leaves the books right but for what it did  *)
(* not take.                                                               *)
LEMMA RefusedSound ==
    ASSUME NEW p, NEW own, NEW open, NEW loose, NEW other, Sound(p, own, open, loose),
           NEW q \in Refused(p)
    PROVE  q.error /\ Sound(q, own, open, other) /\ Later(p, q)
  <1>0. p \in Platform
    BY DEF Sound
  <1>1. q = [p EXCEPT !.error = TRUE, !.refused = @ + 1]
    BY DEF Refused
  <1>2. q = Record(p.blocks, p.valid, p.handles, p.pools, p.files, TRUE, p.refused + 1)
    BY <1>0, <1>1 DEF Platform, Record
  <1>3. q \in Platform /\ q.refused # 0 /\ q.error /\ q.valid = p.valid
    BY <1>0, <1>2 DEF Platform, Record
  <1>. QED
    BY <1>3 DEF Sound, Later

(* A line of the log leaves the books right.                               *)
LEMMA LogSound ==
    ASSUME NEW p, NEW own, NEW open, Sound(p, own, open, {}), NEW q \in Log(p)
    PROVE  Sound(q, own, open, {}) /\ Later(p, q)
  BY RefusedSound DEF Log, Later

(* A block given by the pool is in the books.                              *)
LEMMA GivenSound ==
    ASSUME NEW p, NEW own, NEW open, NEW loose, Sound(p, own, open, loose), NEW b \in Names \ own
    PROVE  Sound(Given(p, b), own \cup {b}, open, loose) /\ Later(p, Given(p, b))
  <1>1. IsFiniteSet(own \cup {b}) /\ Cardinality(own \cup {b}) = Cardinality(own) + 1
    BY FS_AddElement DEF Sound
  <1>2. p \in Platform
    BY DEF Sound
  <1>3. Given(p, b) = Record(p.blocks \cup {b}, p.valid \cup {b}, p.handles, p.pools + 1, p.files,
                             p.error, p.refused)
    <2>1. ASSUME NEW q, q = Given(p, b)
          PROVE  q = Record(p.blocks \cup {b}, p.valid \cup {b}, p.handles, p.pools + 1, p.files,
                            p.error, p.refused)
      BY <1>2, <2>1 DEF Given, Record, Platform
    <2>. QED
      BY <2>1
  <1>4. Given(p, b) \in Platform
    BY <1>2, <1>3 DEF Record, Platform
  <1>. QED
    BY <1>1, <1>3, <1>4 DEF Sound, Record, Later

(* free leaves the books right, taken or refused.                          *)
LEMMA FreeSound ==
    ASSUME NEW p, NEW own, NEW open, NEW loose, Sound(p, own, open, loose), NEW b \in own,
           NEW q \in Free(p, b)
    PROVE  Sound(q, own \ {b}, open, loose) /\ Later(p, q)
  <1>0. p \in Platform
    BY DEF Sound
  <1>1. IsFiniteSet(own \ {b}) /\ Cardinality(own \ {b}) = Cardinality(own) - 1
    BY FS_RemoveElement DEF Sound
  <1>2. Cardinality(own) \in Nat
    BY FS_CardinalityType DEF Sound
  <1>3. CASE q = [p EXCEPT !.valid = @ \ {b}, !.blocks = @ \ {b}, !.pools = @ - 1]
    <2>1. q = Record(p.blocks \ {b}, p.valid \ {b}, p.handles, p.pools - 1, p.files,
                     p.error, p.refused)
      BY <1>0, <1>3 DEF Record, Platform
    <2>2. q \in Platform
      BY <1>0, <2>1 DEF Record, Platform
    <2>. QED
      BY <1>1, <1>2, <2>1, <2>2 DEF Sound, Record, Later
  <1>4. CASE q \in Refused([p EXCEPT !.valid = @ \ {b}])
    <2>. DEFINE r == [p EXCEPT !.valid = @ \ {b}]
    <2>1. q = [r EXCEPT !.error = TRUE, !.refused = @ + 1]
      BY <1>4 DEF Refused
    <2>2. r = Record(p.blocks, p.valid \ {b}, p.handles, p.pools, p.files, p.error, p.refused)
      BY <1>0 DEF Record, Platform
    <2>3. q = Record(p.blocks, p.valid \ {b}, p.handles, p.pools, p.files, TRUE, p.refused + 1)
      BY <2>1, <2>2 DEF Record
    <2>4. q \in Platform
      BY <1>0, <2>3 DEF Record, Platform
    <2>5. p.refused \in Nat
      BY <1>0 DEF Platform
    <2>. QED
      BY <1>1, <2>3, <2>4, <2>5 DEF Sound, Record, Later
  <1>. QED
    BY <1>3, <1>4 DEF Free, Sound

(* A handle on its own is closed, or refused and noted.                    *)
LEMMA CloseSound ==
    ASSUME NEW p, NEW own, NEW open, NEW h, h \notin open, Sound(p, own, open, {h}),
           NEW q \in Close(p, h)
    PROVE  Sound(q, own, open, {}) /\ Later(p, q)
  <1>1. CASE q = [p EXCEPT !.handles = @ \ {h}]
    BY <1>1 DEF Sound, Platform, Later
  <1>2. CASE q \in Refused(p)
    BY <1>2, RefusedSound
  <1>. QED
    BY <1>1, <1>2 DEF Close

(* A handle just opened is on its own.                                     *)
LEMMA OpenedSound ==
    ASSUME NEW p, NEW own, NEW open, NEW h \in Names, Sound(p, own, open, {})
    PROVE  Sound(Opened(p, h), own, open, {h}) /\ Later(p, Opened(p, h))
  BY DEF Sound, Platform, Opened, Later

(* The outcome of a call that gives a stream or nothing.                   *)
Gives(p, own, open, f, o) ==
    /\ Later(p, o.p)
    /\ IF o.ok THEN Sound(o.p, own \cup {f}, open \cup {f}, {}) ELSE Sound(o.p, own, open, {})

(* fopen's FILE and buffer: the handle is in the books or given back.      *)
LEMMA StreamSound ==
    ASSUME NEW p, NEW own, NEW open, NEW f \in Names, f \notin own, f \notin open,
           Sound(p, own, open, {f}), NEW o \in Stream(p, f)
    PROVE  Gives(p, own, open, f, o)
  <1>1. CASE o.ok
    <2>1. o.p = [Given(p, f) EXCEPT !.files = @ + 1]
      BY <1>1 DEF Stream
    <2>2. Sound(Given(p, f), own \cup {f}, open, {f}) /\ Later(p, Given(p, f))
      BY GivenSound
    <2>3. IsFiniteSet(open \cup {f}) /\ Cardinality(open \cup {f}) = Cardinality(open) + 1
      BY FS_AddElement DEF Sound
    <2>4. Cardinality(open) \in Nat
      BY FS_CardinalityType DEF Sound
    <2>5. Sound(o.p, own \cup {f}, open \cup {f}, {})
      BY <2>1, <2>2, <2>3, <2>4 DEF Sound, Platform
    <2>6. Later(p, o.p)
      BY <2>1, <2>2 DEF Sound, Platform, Later
    <2>. QED
      BY <1>1, <2>5, <2>6 DEF Gives
  <1>2. CASE ~ o.ok
    <2>1. o.p \in Close(p, f)
      BY <1>2 DEF Stream
    <2>. QED
      BY <1>2, <2>1, CloseSound DEF Gives
  <1>. QED
    BY <1>1, <1>2

(* fopen on all its paths: a stream in the books, or nothing but refusals. *)
LEMMA FopenSound ==
    ASSUME NEW p, NEW own, NEW open, NEW f \in Names, f \notin own, f \notin open,
           "name" \notin own, "existing" \notin open, NEW new \in BOOLEAN,
           Sound(p, own, open, {}), NEW o \in Fopen(p, f, new)
    PROVE  Gives(p, own, open, f, o)
  <1>. DEFINE n == Given(p, "name")
  <1>1. Sound(n, own \cup {"name"}, open, {}) /\ Later(p, n)
    BY GivenSound DEF Names, Own
  <1>2. (own \cup {"name"}) \ {"name"} = own
    OBVIOUS
  <1>. HIDE DEF n
  <1>3. CASE o = [ok |-> FALSE, p |-> p]
    BY <1>3 DEF Gives, Later
  <1>4. ASSUME NEW q \in Free(n, "name"), o = [ok |-> FALSE, p |-> q]
        PROVE  Gives(p, own, open, f, o)
    <2>1. Sound(q, own, open, {}) /\ Later(n, q)
      BY <1>1, <1>2, FreeSound
    <2>. QED
      BY <1>1, <1>4, <2>1 DEF Gives, Later
  <1>5. ASSUME NEW q \in Free(Opened(n, f), "name"), o \in Stream(q, f)
        PROVE  Gives(p, own, open, f, o)
    <2>1. Sound(Opened(n, f), own \cup {"name"}, open, {f}) /\ Later(n, Opened(n, f))
      BY <1>1, OpenedSound
    <2>2. Sound(q, own, open, {f}) /\ Later(Opened(n, f), q)
      BY <1>2, <2>1, FreeSound
    <2>3. Gives(q, own, open, f, o)
      BY <1>5, <2>2, StreamSound
    <2>. QED
      BY <1>1, <2>1, <2>2, <2>3 DEF Gives, Later
  <1>6. ASSUME NEW q \in Close(Opened(n, "existing"), "existing"), NEW r \in Free(q, "name"),
               o = [ok |-> FALSE, p |-> r]
        PROVE  Gives(p, own, open, f, o)
    <2>1. /\ Sound(Opened(n, "existing"), own \cup {"name"}, open, {"existing"})
          /\ Later(n, Opened(n, "existing"))
      BY <1>1, OpenedSound DEF Names, Own
    <2>2. Sound(q, own \cup {"name"}, open, {}) /\ Later(Opened(n, "existing"), q)
      BY <2>1, CloseSound
    <2>3. Sound(r, own, open, {}) /\ Later(q, r)
      BY <1>2, <2>2, FreeSound
    <2>. QED
      BY <1>1, <1>6, <2>1, <2>2, <2>3 DEF Gives, Later
  <1>. QED
    <2>. DEFINE NotOpened == {[ok |-> FALSE, p |-> q] : q \in Free(n, "name")}
                Streamed == UNION {Stream(q, f) : q \in Free(Opened(n, f), "name")}
                Exists == {[ok |-> FALSE, p |-> r] :
                    r \in UNION {Free(q, "name") : q \in Close(Opened(n, "existing"), "existing")}}
    <2>1. \/ o = [ok |-> FALSE, p |-> p]
          \/ o \in NotOpened \cup Streamed \cup (IF new THEN Exists ELSE {})
      BY DEF Fopen, Named, n
    <2>2. o \in NotOpened => Gives(p, own, open, f, o)
      BY <1>4
    <2>3. o \in Streamed => Gives(p, own, open, f, o)
      BY <1>5
    <2>4. o \in Exists => Gives(p, own, open, f, o)
      BY <1>6
    <2>. HIDE DEF NotOpened, Streamed, Exists
    <2>. QED
      BY <1>3, <2>1, <2>2, <2>3, <2>4

(* fclose takes block and handle out of the books, and notes a refusal.    *)
LEMMA FcloseSound ==
    ASSUME NEW p, NEW own, NEW open, NEW f \in own \cap open, Sound(p, own, open, {}),
           NEW o \in Fclose(p, f)
    PROVE  /\ Sound(o.p, own \ {f}, open \ {f}, {}) /\ Later(p, o.p)
           /\ ~ o.ok => o.p.refused # 0
  <1>1. IsFiniteSet(open \ {f}) /\ Cardinality(open \ {f}) = Cardinality(open) - 1
    BY FS_RemoveElement DEF Sound
  <1>2. Cardinality(open) \in Nat /\ Cardinality(open \ {f}) \in Nat
    BY <1>1, FS_CardinalityType DEF Sound
  <1>3. ASSUME o \in {[ok |-> TRUE, p |-> q] :
                         q \in Free([p EXCEPT !.handles = @ \ {f}, !.files = @ - 1], f)}
        PROVE  Sound(o.p, own \ {f}, open \ {f}, {}) /\ Later(p, o.p) /\ o.ok
    <2>. DEFINE c == [p EXCEPT !.handles = @ \ {f}, !.files = @ - 1]
    <2>0. p \in Platform
      BY DEF Sound
    <2>1. c = Record(p.blocks, p.valid, p.handles \ {f}, p.pools, p.files - 1, p.error, p.refused)
      <3>1. ASSUME NEW q, q = c
            PROVE  q = Record(p.blocks, p.valid, p.handles \ {f}, p.pools, p.files - 1, p.error,
                              p.refused)
        BY <2>0, <3>1 DEF Platform, Record
      <3>. QED
        BY <3>1
    <2>2. c \in Platform
      BY <2>0, <2>1 DEF Platform, Record
    <2>3. Sound(c, own, open \ {f}, {}) /\ Later(p, c)
      BY <1>1, <1>2, <2>1, <2>2 DEF Sound, Record, Later
    <2>4. o.p \in Free(c, f) /\ o.ok
      BY <1>3
    <2>. HIDE DEF c
    <2>5. Sound(o.p, own \ {f}, open \ {f}, {}) /\ Later(c, o.p)
      BY <2>3, <2>4, FreeSound
    <2>. QED
      BY <2>3, <2>4, <2>5 DEF Later
  <1>4. ASSUME NEW r \in Refused(p), NEW q \in Free(r, f), o = [ok |-> FALSE, p |-> q]
        PROVE  Sound(o.p, own \ {f}, open \ {f}, {}) /\ Later(p, o.p) /\ o.p.refused # 0
    <2>1. r.error /\ Sound(r, own, open, {}) /\ Later(p, r)
      BY RefusedSound
    <2>2. Sound(q, own \ {f}, open, {}) /\ Later(r, q)
      BY <2>1, FreeSound
    <2>. QED
      BY <1>1, <1>4, <2>1, <2>2 DEF Sound, Later
  <1>. QED
    BY <1>3, <1>4 DEF Fclose

-----------------------------------------------------------------------------
(* read_file of the probe.                                                 *)

(* The outcome of a call that gives a block or nothing.                    *)
Obtains(p, own, open, b, o) ==
    /\ Later(p, o.p)
    /\ IF o.ok THEN Sound(o.p, own \cup {b}, open, {}) ELSE Sound(o.p, own, open, {})

(* The body of read_file obtains its block or leaves nothing.              *)
LEMMA BodySound ==
    ASSUME NEW p, NEW own, NEW open, NEW b \in Names \ own, Sound(p, own, open, {}),
           NEW o \in Body(p, b)
    PROVE  Obtains(p, own, open, b, o)
  <1>1. Sound(Given(p, b), own \cup {b}, open, {}) /\ Later(p, Given(p, b))
    BY GivenSound
  <1>2. (own \cup {b}) \ {b} = own
    OBVIOUS
  <1>3. CASE o = [ok |-> FALSE, p |-> p]
    BY <1>3 DEF Obtains, Later
  <1>4. ASSUME NEW q \in Free(Given(p, b), b), o = [ok |-> FALSE, p |-> q]
        PROVE  Obtains(p, own, open, b, o)
    <2>1. Sound(q, own, open, {}) /\ Later(Given(p, b), q)
      BY <1>1, <1>2, FreeSound
    <2>. QED
      BY <1>1, <1>4, <2>1 DEF Obtains, Later
  <1>5. CASE o = [ok |-> TRUE, p |-> Given(p, b)]
    BY <1>1, <1>5 DEF Obtains
  <1>. QED
    BY <1>3, <1>4, <1>5 DEF Body

(* The reader's stream is closed, and only it.                             *)
LEMMA ReaderClosed ==
    ASSUME NEW p, NEW own, NEW open, "reader" \notin own, "reader" \notin open,
           Sound(p, own \cup {"reader"}, open \cup {"reader"}, {}), NEW o \in Fclose(p, "reader")
    PROVE  Sound(o.p, own, open, {}) /\ Later(p, o.p)
  <1>. DEFINE mine == own \cup {"reader"}
              files == open \cup {"reader"}
  <1>1. "reader" \in mine \cap files /\ mine \ {"reader"} = own /\ files \ {"reader"} = open
    OBVIOUS
  <1>2. Sound(p, mine, files, {})
    OBVIOUS
  <1>. HIDE DEF mine, files
  <1>3. Sound(o.p, mine \ {"reader"}, files \ {"reader"}, {}) /\ Later(p, o.p)
    BY <1>1, <1>2, FcloseSound
  <1>. QED
    BY <1>1, <1>3

(* read_file's end: the block is kept when the stream could be closed.     *)
LEMMA ClosedSound ==
    ASSUME NEW p, NEW own, NEW open, NEW b \in Names \ own, "reader" \notin own \cup open,
           b # "reader", NEW o,
           Obtains(p, own \cup {"reader"}, open \cup {"reader"}, b, o), NEW r \in Closed(o, b)
    PROVE  Obtains(p, own, open, b, r)
  <1>1. PICK c \in Fclose(o.p, "reader") :
           r \in IF c.ok THEN {[ok |-> o.ok, p |-> c.p]}
                 ELSE IF o.ok THEN {[ok |-> FALSE, p |-> q] : q \in Free(c.p, b)}
                 ELSE {[ok |-> FALSE, p |-> c.p]}
    BY DEF Closed
  <1>3. CASE o.ok
    <2>1. Sound(o.p, (own \cup {"reader"}) \cup {b}, open \cup {"reader"}, {}) /\ Later(p, o.p)
      BY <1>3 DEF Obtains
    <2>2. (own \cup {"reader"}) \cup {b} = (own \cup {b}) \cup {"reader"}
      OBVIOUS
    <2>3. Sound(c.p, own \cup {b}, open, {}) /\ Later(o.p, c.p)
      <3>1. "reader" \notin own \cup {b} /\ "reader" \notin open
        OBVIOUS
      <3>2. Sound(o.p, (own \cup {b}) \cup {"reader"}, open \cup {"reader"}, {})
        BY <2>1, <2>2
      <3>. QED
        BY <3>1, <3>2, ReaderClosed
    <2>4. CASE c.ok
      <3>1. r = [ok |-> o.ok, p |-> c.p]
        BY <1>1, <2>4
      <3>. QED
        BY <1>3, <2>1, <2>3, <3>1 DEF Obtains, Later
    <2>5. CASE ~ c.ok
      <3>1. PICK q \in Free(c.p, b) : r = [ok |-> FALSE, p |-> q]
        BY <1>1, <1>3, <2>5
      <3>2. (own \cup {b}) \ {b} = own
        OBVIOUS
      <3>3. Sound(q, own, open, {}) /\ Later(c.p, q)
        BY <2>3, <3>2, FreeSound
      <3>. QED
        BY <2>1, <2>3, <3>1, <3>3 DEF Obtains, Later
    <2>. QED
      BY <2>4, <2>5
  <1>4. CASE ~ o.ok
    <2>1. Sound(o.p, own \cup {"reader"}, open \cup {"reader"}, {}) /\ Later(p, o.p)
      BY <1>4 DEF Obtains
    <2>3. Sound(c.p, own, open, {}) /\ Later(o.p, c.p)
      BY <2>1, ReaderClosed
    <2>4. r.p = c.p /\ ~ r.ok
      BY <1>1, <1>4
    <2>. QED
      BY <2>1, <2>3, <2>4 DEF Obtains, Later
  <1>. QED
    BY <1>3, <1>4

(* read_file obtains its block or leaves nothing.                          *)
LEMMA ReadFileSound ==
    ASSUME NEW p, NEW own, NEW open, NEW b \in Names \ own, b # "reader",
           {"reader", "name"} \cap own = {}, {"reader", "existing"} \cap open = {},
           Sound(p, own, open, {}), NEW o \in ReadFile(p, b)
    PROVE  Obtains(p, own, open, b, o)
  <1>1. PICK f \in Fopen(p, "reader", FALSE) :
           o \in IF f.ok THEN UNION {Closed(r, b) : r \in Body(f.p, b)} ELSE {f}
    BY DEF ReadFile
  <1>2. Gives(p, own, open, "reader", f)
    BY FopenSound DEF Names, Own
  <1>3. CASE f.ok
    <2>1. PICK r \in Body(f.p, b) : o \in Closed(r, b)
      BY <1>1, <1>3
    <2>2. Sound(f.p, own \cup {"reader"}, open \cup {"reader"}, {}) /\ Later(p, f.p)
      BY <1>2, <1>3 DEF Gives
    <2>3. Obtains(f.p, own \cup {"reader"}, open \cup {"reader"}, b, r)
      BY <2>2, BodySound
    <2>4. Obtains(f.p, own, open, b, o)
      BY <2>1, <2>3, ClosedSound
    <2>. QED
      BY <2>2, <2>4 DEF Obtains, Later
  <1>4. CASE ~ f.ok
    BY <1>1, <1>2, <1>4 DEF Gives, Obtains
  <1>. QED
    BY <1>3, <1>4

-----------------------------------------------------------------------------
(* The program's invariant.                                                *)

Held ==
    (IF oracle THEN {"oracle"} ELSE {}) \cup (IF image THEN {"image"} ELSE {})
    \cup (IF context THEN {"runtime", "state"} ELSE {}) \cup buffers \cup streams

Labels ==
    {"serial", "volume", "oracle", "image", "load", "context", "child", "destroy", "unload",
     "free", "close_root", "verdict", "report", "done"}

Opening == {"serial", "volume", "oracle", "image", "load", "context", "child"}
Closing == {"destroy", "unload", "free", "close_root", "verdict", "report"}

ControlTyped ==
    /\ pc \in Labels /\ context \in BOOLEAN
    /\ buffers \subseteq Buffers /\ streams \subseteq Streams
    /\ objects \subseteq {"root", "child"}

(* The program owns what the books say: its pointers and its tables.       *)
Books == Sound(platform, Held, streams, {})

(* Where in the program each thing can be held, without a refusal.         *)
Places ==
    /\ oracle => pc \in {"image", "load", "context", "child", "destroy", "unload", "free"}
    /\ image => pc \in {"load", "context", "child", "destroy", "unload", "free"}
    /\ context => pc \in {"child", "destroy"}
    /\ pc = "child" => context
    /\ ~ context => buffers = {} /\ streams = {}
    /\ "child" \in objects => pc \in {"context", "child", "destroy", "unload"} \/ code = 60
    /\ "root" \in objects => pc \notin {"serial", "verdict", "report", "done"} \/ code = 60

(* A refusal shows in the error or in the code, and 60 is never another's. *)
Told ==
    /\ pc \in Opening => code = 0
    /\ code = 60 => platform.refused # 0
    /\ platform.refused # 0 => platform.error \/ code = 60

Answered ==
    /\ pc \in Closing => code # 0 \/ answer = "expected"
    /\ pc = "report" /\ code = 0 => ~ platform.error
    /\ exit = "ok" => /\ pc = "done" /\ code = 0 /\ answer = "expected"
                      /\ platform.blocks = {} /\ platform.handles = {}

IInv == ControlTyped /\ Books /\ Places /\ Told /\ Answered

(* The invariant gives the property of the run.                            *)
LEMMA IInvImpliesAccounted == IInv => Accounted
  <1>1. ASSUME IInv, pc = "report", code = 0
        PROVE  answer = "expected" /\ platform.refused = 0
    <2>1. ~ platform.error /\ answer = "expected"
      BY <1>1 DEF IInv, Answered, Closing
    <2>. QED
      BY <1>1, <2>1 DEF IInv, Told
  <1>2. ASSUME IInv, pc = "done"
        PROVE  /\ platform.refused = 0 => AllBack /\ code # 60
               /\ exit = "ok" => answer = "expected" /\ AllBack
    <2>1. Held = {} /\ streams = {}
      BY <1>2 DEF IInv, ControlTyped, Places, Held
    <2>2. code # 60 => objects = {}
      BY <1>2 DEF IInv, ControlTyped, Places
    <2>3. platform.refused = 0 => code # 60 /\ ~ platform.error
      BY <1>2 DEF IInv, Told, Books, Sound
    <2>4. exit = "ok" => answer = "expected" /\ AllBack
      BY <1>2, <2>2 DEF IInv, Answered, AllBack
    <2>. QED
      BY <1>2, <2>1, <2>2, <2>3, <2>4 DEF IInv, Books, Sound, AllBack
  <1>. QED
    BY <1>1, <1>2 DEF Accounted

-----------------------------------------------------------------------------
(* Every action keeps it.                                                  *)

(* The probe holds nothing at the start.                                   *)
LEMMA InitIInv == Init => IInv
  <1>. SUFFICES ASSUME Init PROVE IInv
    OBVIOUS
  <1>1. Held = {} /\ streams = {}
    BY DEF Init, Held
  <1>2. IsFiniteSet({}) /\ Cardinality({}) = 0
    BY FS_EmptySet
  <1>3. Fresh \in Platform
    BY DEF Fresh, Platform
  <1>4. Books
    BY <1>1, <1>2, <1>3 DEF Init, Fresh, Books, Sound
  <1>5. ControlTyped /\ Places
    BY DEF Init, ControlTyped, Places, Labels
  <1>6. code = 0 /\ platform.refused = 0 /\ pc = "serial" /\ pc \notin Closing /\ exit # "ok"
    BY DEF Init, Fresh, Closing
  <1>. QED
    BY <1>4, <1>5, <1>6 DEF IInv, Told, Answered

(* What is about to be asked for is not held yet.                          *)
LEMMA NotHeld ==
    ASSUME NamesAssumption, IInv
    PROVE  /\ {"name", "reader", "copy", "existing"} \cap Held = {}
           /\ {"name", "reader", "copy", "existing"} \cap streams = {}
           /\ Held \subseteq Names
  BY DEF NamesAssumption, IInv, ControlTyped, Held, Own, Names

(* The serial line keeps the invariant.                                    *)
LEMMA LocateSerialKeeps == IInv /\ LocateSerial => IInv'
  <1>. SUFFICES ASSUME IInv, LocateSerial PROVE IInv'
    OBVIOUS
  <1>1. Held' = Held /\ streams' = streams
    BY DEF LocateSerial, Pointers, Child, Held
  <1>2. Books' /\ Later(platform, platform')
    BY <1>1, LogSound DEF LocateSerial, IInv, Books, Later
  <1>3. ControlTyped' /\ Places'
    BY <1>1, <1>2 DEF LocateSerial, Goto, Pointers, Child, IInv, ControlTyped, Places, Labels
  <1>4. Told' /\ Answered'
    BY <1>1, <1>2 DEF LocateSerial, Goto, Pointers, Child, IInv, Told, Answered, Later, Opening, Closing
  <1>. QED
    BY <1>2, <1>3, <1>4 DEF IInv

(* Opening the volume keeps the invariant.                                 *)
LEMMA OpenVolumeKeeps == IInv /\ OpenVolume => IInv'
  <1>. SUFFICES ASSUME IInv, OpenVolume PROVE IInv'
    OBVIOUS
  <1>1. Held' = Held /\ streams' = streams
    BY DEF OpenVolume, Pointers, Child, Held
  <1>2. Books'
    BY <1>1 DEF OpenVolume, IInv, Books
  <1>3. ControlTyped' /\ Places'
    BY <1>1 DEF OpenVolume, Goto, Fails, Pointers, Child, IInv, ControlTyped, Places, Labels
  <1>4. Told' /\ Answered'
    BY <1>1 DEF OpenVolume, Goto, Fails, Pointers, Child, IInv, Told, Answered, Later, Opening, Closing
  <1>. QED
    BY <1>2, <1>3, <1>4 DEF IInv

(* Reading the expected answer keeps the invariant.                        *)
LEMMA ReadOracleKeeps == NamesAssumption /\ IInv /\ ReadOracle => IInv'
  <1>. SUFFICES ASSUME NamesAssumption, IInv, ReadOracle PROVE IInv'
    OBVIOUS
  <1>1. PICK o \in ReadFile(platform, "oracle") :
           /\ platform' = o.p /\ oracle' = o.ok
           /\ Fails(10) \/ (o.ok /\ Goto("image") /\ UNCHANGED code)
    BY DEF ReadOracle
  <1>2. ~ oracle /\ ~ image /\ ~ context /\ buffers = {} /\ streams = {}
    BY DEF ReadOracle, IInv, Places
  <1>3. Held = {} /\ streams = {}
    BY <1>2 DEF Held
  <1>4. Obtains(platform, {}, {}, "oracle", o)
    BY <1>3, ReadFileSound DEF IInv, Books, Names, Own
  <1>5. Held' = IF o.ok THEN {"oracle"} ELSE {}
    BY <1>1, <1>2 DEF ReadOracle, Child, Held
  <1>6. Books' /\ Later(platform, platform')
    BY <1>1, <1>3, <1>4, <1>5 DEF ReadOracle, Child, Books, Obtains
  <1>7. ControlTyped' /\ Places'
    BY <1>1, <1>6 DEF ReadOracle, Goto, Fails, Child, IInv, ControlTyped, Places, Labels
  <1>8. Told' /\ Answered'
    BY <1>1, <1>6 DEF ReadOracle, Goto, Fails, Child, IInv, Told, Answered, Later, Opening, Closing
  <1>. QED
    BY <1>6, <1>7, <1>8 DEF IInv

(* Reading the image keeps the invariant.                                  *)
LEMMA ReadImageKeeps == NamesAssumption /\ IInv /\ ReadImage => IInv'
  <1>. SUFFICES ASSUME NamesAssumption, IInv, ReadImage PROVE IInv'
    OBVIOUS
  <1>1. PICK o \in ReadFile(platform, "image") :
           /\ platform' = o.p /\ image' = o.ok
           /\ IF o.ok
              THEN (\E n \in 21 .. 27 : Fails(n)) \/ (Goto("load") /\ UNCHANGED code)
              ELSE Fails(11)
    BY DEF ReadImage
  <1>2. ~ image /\ ~ context /\ buffers = {} /\ streams = {}
    BY DEF ReadImage, IInv, Places
  <1>3. Held = (IF oracle THEN {"oracle"} ELSE {}) /\ streams = {}
    BY <1>2 DEF Held
  <1>4. Obtains(platform, Held, {}, "image", o)
    BY <1>3, ReadFileSound DEF IInv, Books, Names, Own
  <1>5. Held' = IF o.ok THEN Held \cup {"image"} ELSE Held
    BY <1>1, <1>2, <1>3 DEF ReadImage, Child, Held
  <1>6. Books' /\ Later(platform, platform')
    BY <1>1, <1>3, <1>4, <1>5 DEF ReadImage, Child, Books, Obtains
  <1>7. ControlTyped' /\ Places'
    BY <1>1, <1>6 DEF ReadImage, Goto, Fails, Child, IInv, ControlTyped, Places, Labels
  <1>8. Told' /\ Answered'
    BY <1>1, <1>6 DEF ReadImage, Goto, Fails, Child, IInv, Told, Answered, Later, Opening, Closing
  <1>. QED
    BY <1>6, <1>7, <1>8 DEF IInv

(* Loading and starting the child keep the invariant.                      *)
LEMMA LoadImageKeeps == IInv /\ LoadImage => IInv'
  <1>. SUFFICES ASSUME IInv, LoadImage PROVE IInv'
    OBVIOUS
  <1>1. Held' = Held /\ streams' = streams
    BY DEF LoadImage, Pointers, Child, Held
  <1>2. Books'
    BY <1>1 DEF LoadImage, IInv, Books
  <1>3. ControlTyped' /\ Places'
    BY <1>1 DEF LoadImage, Goto, Fails, Pointers, Child, IInv, ControlTyped, Places, Labels
  <1>4. Told' /\ Answered'
    BY <1>1 DEF LoadImage, Goto, Fails, Pointers, Child, IInv, Told, Answered, Later, Opening, Closing
  <1>. QED
    BY <1>2, <1>3, <1>4 DEF IInv

(* The child's context keeps the invariant.                                *)
LEMMA ContextInitKeeps == NamesAssumption /\ IInv /\ ContextInit => IInv'
  <1>. SUFFICES ASSUME NamesAssumption, IInv, ContextInit PROVE IInv'
    OBVIOUS
  <1>1. ~ context /\ buffers = {} /\ streams = {}
    BY DEF ContextInit, IInv, Places
  <1>2. Held \subseteq {"oracle", "image"} /\ streams = {}
    BY <1>1 DEF Held
  <1>3. Sound(platform, Held, {}, {}) /\ {"runtime", "state"} \subseteq Names
    BY <1>2 DEF IInv, Books, Names, Own
  <1>4. /\ Sound(Given(platform, "runtime"), Held \cup {"runtime"}, {}, {})
        /\ Later(platform, Given(platform, "runtime"))
    BY <1>2, <1>3, GivenSound
  <1>5. /\ Sound(Given(platform, "state"), Held \cup {"state"}, {}, {})
        /\ Later(platform, Given(platform, "state"))
    BY <1>2, <1>3, GivenSound
  <1>6. ASSUME UNCHANGED context,
               platform' \in {platform} \cup Free(Given(platform, "runtime"), "runtime")
                             \cup Free(Given(platform, "state"), "state")
        PROVE  Books' /\ Later(platform, platform')
    <2>1. Held' = Held /\ streams' = streams
      BY <1>6 DEF ContextInit, Pointers, Held
    <2>2. (Held \cup {"runtime"}) \ {"runtime"} = Held /\ (Held \cup {"state"}) \ {"state"} = Held
      BY <1>2
    <2>3. CASE platform' = platform
      BY <1>2, <1>3, <2>1, <2>3 DEF Books, Later
    <2>4. CASE platform' \in Free(Given(platform, "runtime"), "runtime")
      <3>1. Sound(platform', Held, {}, {}) /\ Later(platform, platform')
        BY <1>4, <2>2, <2>4, FreeSound DEF Later
      <3>. QED
        BY <1>2, <2>1, <3>1 DEF Books
    <2>5. CASE platform' \in Free(Given(platform, "state"), "state")
      <3>1. Sound(platform', Held, {}, {}) /\ Later(platform, platform')
        BY <1>5, <2>2, <2>5, FreeSound DEF Later
      <3>. QED
        BY <1>2, <2>1, <3>1 DEF Books
    <2>. QED
      BY <1>6, <2>3, <2>4, <2>5
  <1>7. ASSUME context' = TRUE, platform' \in Log(Given(Given(platform, "runtime"), "state"))
        PROVE  Books' /\ Later(platform, platform')
    <2>1. Held' = (Held \cup {"runtime"}) \cup {"state"} /\ streams' = {}
      BY <1>1, <1>7 DEF ContextInit, Pointers, Held
    <2>2. "state" \in Names \ (Held \cup {"runtime"})
      BY <1>2, <1>3
    <2>3. /\ Sound(Given(Given(platform, "runtime"), "state"), (Held \cup {"runtime"}) \cup {"state"},
                   {}, {})
          /\ Later(Given(platform, "runtime"), Given(Given(platform, "runtime"), "state"))
      BY <1>4, <2>2, GivenSound
    <2>4. /\ Sound(platform', (Held \cup {"runtime"}) \cup {"state"}, {}, {})
          /\ Later(Given(Given(platform, "runtime"), "state"), platform')
      BY <1>7, <2>3, LogSound
    <2>. QED
      BY <1>4, <2>1, <2>3, <2>4 DEF Books, Later
  <1>8. Books' /\ Later(platform, platform')
    BY <1>6, <1>7 DEF ContextInit
  <1>9. ControlTyped' /\ Places'
    BY <1>1, <1>8 DEF ContextInit, Goto, Fails, Pointers, IInv, ControlTyped, Places, Labels
  <1>10. Told' /\ Answered'
    BY <1>1, <1>8 DEF ContextInit, Goto, Fails, Pointers, IInv, Told, Answered, Later, Opening, Closing
  <1>. QED
    BY <1>8, <1>9, <1>10 DEF IInv

(* The child's allocation keeps the invariant.                             *)
LEMMA ChildAllocatesKeeps ==
    ASSUME NamesAssumption, IInv, NEW b \in Buffers, ChildAllocates(b)
    PROVE  IInv'
  <1>1. b \in Names \ Held /\ (Held \cup {b}) \ {b} = Held
    BY DEF NamesAssumption, ChildAllocates, IInv, ControlTyped, Held, Own, Names
  <1>2. Sound(Given(platform, b), Held \cup {b}, streams, {}) /\ Later(platform, Given(platform, b))
    BY <1>1, GivenSound DEF IInv, Books
  <1>3. Books' /\ Later(platform, platform')
    <2>1. ASSUME UNCHANGED buffers, platform' \in {platform} \cup Free(Given(platform, b), b)
          PROVE  Books' /\ Later(platform, platform')
      <3>1. Held' = Held /\ streams' = streams
        BY <2>1 DEF ChildAllocates, Rest, Pointers, Held
      <3>2. CASE platform' = platform
        BY <3>1, <3>2 DEF IInv, Books, Later
      <3>3. CASE platform' \in Free(Given(platform, b), b)
        <4>1. Sound(platform', Held, streams, {}) /\ Later(platform, platform')
          BY <1>1, <1>2, <3>3, FreeSound DEF Later
        <4>. QED
          BY <3>1, <4>1 DEF Books
      <3>. QED
        BY <2>1, <3>2, <3>3
    <2>2. ASSUME platform' = Given(platform, b), buffers' = buffers \cup {b}
          PROVE  Books' /\ Later(platform, platform')
      <3>1. Held' = Held \cup {b} /\ streams' = streams
        BY <2>2 DEF ChildAllocates, Rest, Pointers, Held
      <3>. QED
        BY <1>2, <2>2, <3>1 DEF Books
    <2>. QED
      BY <2>1, <2>2 DEF ChildAllocates
  <1>4. ControlTyped' /\ Places'
    BY <1>3 DEF ChildAllocates, Rest, Pointers, IInv, ControlTyped, Places, Labels
  <1>5. Told' /\ Answered'
    BY <1>3 DEF ChildAllocates, Rest, Pointers, IInv, Told, Answered, Later, Opening, Closing
  <1>. QED
    BY <1>3, <1>4, <1>5 DEF IInv

(* The child's release keeps the invariant.                                *)
LEMMA ChildReleasesKeeps ==
    ASSUME NamesAssumption, IInv, NEW b \in Buffers, ChildReleases(b)
    PROVE  IInv'
  <1>1. b \in Held /\ streams' = streams /\ Held' = Held \ {b}
    BY DEF NamesAssumption, ChildReleases, Rest, Pointers, IInv, ControlTyped, Held, Own
  <1>2. Sound(platform', Held \ {b}, streams, {}) /\ Later(platform, platform')
    BY <1>1, FreeSound DEF ChildReleases, IInv, Books
  <1>3. Books'
    BY <1>1, <1>2 DEF Books
  <1>4. ControlTyped' /\ Places'
    BY <1>2 DEF ChildReleases, Rest, Pointers, IInv, ControlTyped, Places, Labels
  <1>5. Told' /\ Answered'
    BY <1>2 DEF ChildReleases, Rest, Pointers, IInv, Told, Answered, Later, Opening, Closing
  <1>. QED
    BY <1>3, <1>4, <1>5 DEF IInv

(* The child's fopen keeps the invariant.                                  *)
LEMMA ChildOpensKeeps ==
    ASSUME NamesAssumption, IInv, NEW f \in Streams, NEW new \in BOOLEAN, ChildOpens(f, new)
    PROVE  IInv'
  <1>1. /\ f \in Names /\ f \notin Held \cup {"copy"} /\ f \notin streams
        /\ "copy" \in Names \ Held /\ "name" \notin Held \cup {"copy"} /\ "existing" \notin streams
    BY DEF NamesAssumption, ChildOpens, IInv, ControlTyped, Held, Own, Names
  <1>2. /\ Sound(Given(platform, "copy"), Held \cup {"copy"}, streams, {})
        /\ Later(platform, Given(platform, "copy"))
    BY <1>1, GivenSound DEF IInv, Books
  <1>3. Books' /\ Later(platform, platform')
    <2>1. CASE UNCHANGED <<platform, streams>>
      <3>1. Held' = Held
        BY <2>1 DEF ChildOpens, Rest, Pointers, Held
      <3>. QED
        BY <2>1, <3>1 DEF IInv, Books, Later
    <2>2. ASSUME NEW o \in Fopen(Given(platform, "copy"), f, new), platform' \in Free(o.p, "copy"),
                 streams' = IF o.ok THEN streams \cup {f} ELSE streams
          PROVE  Books' /\ Later(platform, platform')
      <3>1. Gives(Given(platform, "copy"), Held \cup {"copy"}, streams, f, o)
        BY <1>1, <1>2, FopenSound
      <3>2. CASE o.ok
        <4>1. Held' = Held \cup {f} /\ streams' = streams \cup {f}
          BY <2>2, <3>2 DEF ChildOpens, Rest, Pointers, Held
        <4>2. Sound(o.p, (Held \cup {"copy"}) \cup {f}, streams \cup {f}, {})
          BY <3>1, <3>2 DEF Gives
        <4>3. ((Held \cup {"copy"}) \cup {f}) \ {"copy"} = Held \cup {f}
          BY <1>1
        <4>4. Sound(platform', Held \cup {f}, streams \cup {f}, {}) /\ Later(o.p, platform')
          BY <2>2, <4>2, <4>3, FreeSound
        <4>. QED
          BY <1>2, <3>1, <4>1, <4>4 DEF Books, Gives, Later
      <3>3. CASE ~ o.ok
        <4>1. Held' = Held /\ streams' = streams
          BY <2>2, <3>3 DEF ChildOpens, Rest, Pointers, Held
        <4>2. Sound(o.p, Held \cup {"copy"}, streams, {})
          BY <3>1, <3>3 DEF Gives
        <4>3. (Held \cup {"copy"}) \ {"copy"} = Held
          BY <1>1
        <4>4. Sound(platform', Held, streams, {}) /\ Later(o.p, platform')
          BY <2>2, <4>2, <4>3, FreeSound
        <4>. QED
          BY <1>2, <3>1, <4>1, <4>4 DEF Books, Gives, Later
      <3>. QED
        BY <3>2, <3>3
    <2>. QED
      BY <2>1, <2>2 DEF ChildOpens
  <1>4. ControlTyped' /\ Places'
    BY <1>3 DEF ChildOpens, Rest, Pointers, IInv, ControlTyped, Places, Labels
  <1>5. Told' /\ Answered'
    BY <1>3 DEF ChildOpens, Rest, Pointers, IInv, Told, Answered, Later, Opening, Closing
  <1>. QED
    BY <1>3, <1>4, <1>5 DEF IInv

(* The child's fclose keeps the invariant.                                 *)
LEMMA ChildClosesKeeps ==
    ASSUME NamesAssumption, IInv, NEW f \in Streams, ChildCloses(f)
    PROVE  IInv'
  <1>1. f \in Held \cap streams /\ streams' = streams \ {f} /\ Held' = Held \ {f}
    BY DEF NamesAssumption, ChildCloses, Rest, Pointers, IInv, ControlTyped, Held, Own
  <1>2. PICK o \in Fclose(platform, f) : platform' = o.p
    BY DEF ChildCloses
  <1>3. Sound(platform', Held \ {f}, streams \ {f}, {}) /\ Later(platform, platform')
    BY <1>1, <1>2, FcloseSound DEF IInv, Books
  <1>4. Books'
    BY <1>1, <1>3 DEF Books
  <1>5. ControlTyped' /\ Places'
    BY <1>3 DEF ChildCloses, Rest, Pointers, IInv, ControlTyped, Places, Labels
  <1>6. Told' /\ Answered'
    BY <1>3 DEF ChildCloses, Rest, Pointers, IInv, Told, Answered, Later, Opening, Closing
  <1>. QED
    BY <1>4, <1>5, <1>6 DEF IInv

(* The child's return keeps the invariant.                                 *)
LEMMA ChildReturnsKeeps ==
    ASSUME IInv, ChildReturns
    PROVE  IInv'
  <1>1. Held' = Held /\ streams' = streams
    BY DEF ChildReturns, Pointers, Held
  <1>2. Books' /\ Later(platform, platform')
    BY <1>1, LogSound DEF ChildReturns, IInv, Books
  <1>3. code = 0 /\ code' \in {0, 50, 51} /\ (code' = 0 => answer' = "expected")
    BY DEF ChildReturns, IInv, Told, Opening
  <1>4. ControlTyped' /\ Places'
    BY <1>2, <1>3 DEF ChildReturns, Goto, Pointers, IInv, ControlTyped, Places, Labels
  <1>5. Told' /\ Answered'
    BY <1>2, <1>3 DEF ChildReturns, Goto, Pointers, IInv, Told, Answered, Later, Opening, Closing
  <1>. QED
    BY <1>2, <1>4, <1>5 DEF IInv

(* A buffer the child left is freed: the invariant is kept.                *)
LEMMA DestroyBufferKeeps ==
    ASSUME NamesAssumption, IInv, DestroyBuffer
    PROVE  IInv'
  <1>1. PICK b \in buffers : platform' \in Free(platform, b) /\ buffers' = buffers \ {b}
    BY DEF DestroyBuffer
  <1>2. b \in Held /\ streams' = streams /\ Held' = Held \ {b}
    BY <1>1 DEF NamesAssumption, DestroyBuffer, Rest, Pointers, IInv, ControlTyped, Held, Own
  <1>3. Sound(platform', Held \ {b}, streams, {}) /\ Later(platform, platform')
    BY <1>1, <1>2, FreeSound DEF IInv, Books
  <1>4. Books'
    BY <1>2, <1>3 DEF Books
  <1>5. ControlTyped' /\ Places'
    BY <1>1, <1>3 DEF DestroyBuffer, Rest, Pointers, IInv, ControlTyped, Places, Labels
  <1>6. Told' /\ Answered'
    BY <1>1, <1>3 DEF DestroyBuffer, Rest, Pointers, IInv, Told, Answered, Later, Opening, Closing
  <1>. QED
    BY <1>4, <1>5, <1>6 DEF IInv

(* A stream the child left is closed: the invariant is kept.               *)
LEMMA DestroyStreamKeeps ==
    ASSUME NamesAssumption, IInv, DestroyStream
    PROVE  IInv'
  <1>0. PICK f \in streams : \E o \in Fclose(platform, f) :
           platform' = o.p /\ streams' = streams \ {f} /\ code' = IF o.ok THEN code ELSE 60
    BY DEF DestroyStream
  <1>1. PICK o \in Fclose(platform, f) :
           platform' = o.p /\ streams' = streams \ {f} /\ code' = IF o.ok THEN code ELSE 60
    BY <1>0
  <1>2. f \in Held \cap streams /\ Held' = Held \ {f}
    BY <1>1 DEF NamesAssumption, DestroyStream, Pointers, IInv, ControlTyped, Held, Own
  <1>3. /\ Sound(platform', Held \ {f}, streams \ {f}, {}) /\ Later(platform, platform')
        /\ ~ o.ok => platform'.refused # 0
    BY <1>1, <1>2, FcloseSound DEF IInv, Books
  <1>4. Books'
    BY <1>1, <1>2, <1>3 DEF Books
  <1>5. ControlTyped' /\ Places'
    BY <1>1, <1>3 DEF DestroyStream, Pointers, IInv, ControlTyped, Places, Labels
  <1>6. Told' /\ Answered'
    BY <1>1, <1>3 DEF DestroyStream, Pointers, IInv, Told, Answered, Later, Opening, Closing
  <1>. QED
    BY <1>4, <1>5, <1>6 DEF IInv

(* The end of the child's context keeps the invariant.                     *)
LEMMA DestroyContextKeeps ==
    ASSUME NamesAssumption, IInv, DestroyContext
    PROVE  IInv'
  <1>1. ASSUME context PROVE Books' /\ Later(platform, platform')
    <2>1. {"runtime", "state"} \subseteq Held /\ streams' = streams
      BY <1>1 DEF DestroyContext, Held
    <2>2. Held' = (Held \ {"state"}) \ {"runtime"}
      BY <1>1 DEF NamesAssumption, DestroyContext, Pointers, IInv, ControlTyped, Held, Own
    <2>3. PICK q \in Free(platform, "state") : platform' \in Free(q, "runtime")
      BY <1>1 DEF DestroyContext
    <2>4. Sound(q, Held \ {"state"}, streams, {}) /\ Later(platform, q)
      BY <2>1, <2>3, FreeSound DEF IInv, Books
    <2>5. "runtime" \in Held \ {"state"}
      BY <2>1
    <2>6. Sound(platform', (Held \ {"state"}) \ {"runtime"}, streams, {}) /\ Later(q, platform')
      BY <2>3, <2>4, <2>5, FreeSound
    <2>. QED
      BY <2>1, <2>2, <2>4, <2>6 DEF Books, Later
  <1>2. ASSUME ~ context PROVE Books' /\ Later(platform, platform')
    <2>1. Held' = Held /\ streams' = streams /\ platform' = platform
      BY <1>2 DEF DestroyContext, Pointers, Held
    <2>. QED
      BY <2>1 DEF IInv, Books, Later
  <1>3. Books' /\ Later(platform, platform')
    BY <1>1, <1>2
  <1>4. ControlTyped' /\ Places'
    BY <1>3 DEF DestroyContext, Goto, Pointers, IInv, ControlTyped, Places, Labels
  <1>5. Told' /\ Answered'
    BY <1>3 DEF DestroyContext, Goto, Pointers, IInv, Told, Answered, Later, Opening, Closing
  <1>. QED
    BY <1>3, <1>4, <1>5 DEF IInv

(* Unloading the child and closing the root keep the invariant.            *)
LEMMA GiveBackKeeps ==
    ASSUME IInv, NEW label, NEW object, NEW then, GiveBack(label, object, then),
           \/ label = "unload" /\ object = "child" /\ then = "free"
           \/ label = "close_root" /\ object = "root" /\ then = "verdict"
    PROVE  IInv'
  <1>1. Held' = Held /\ streams' = streams
    BY DEF GiveBack, Pointers, Child, Held
  <1>2. CASE objects' = objects \ {object} /\ UNCHANGED <<platform, code>>
    <2>1. Books'
      BY <1>1, <1>2 DEF IInv, Books
    <2>2. ControlTyped' /\ Places'
      BY <1>2 DEF GiveBack, Goto, Pointers, Child, IInv, ControlTyped, Places, Labels
    <2>3. Told' /\ Answered'
      BY <1>2 DEF GiveBack, Goto, Pointers, Child, IInv, Told, Answered, Opening, Closing
    <2>. QED
      BY <2>1, <2>2, <2>3 DEF IInv
  <1>3. CASE /\ code' = 60 /\ UNCHANGED objects
             /\ platform' = [platform EXCEPT !.refused = @ + 1]
    <2>1. Books' /\ platform'.refused # 0
      BY <1>1, <1>3 DEF IInv, Books, Sound, Platform
    <2>2. ControlTyped' /\ Places'
      BY <1>3 DEF GiveBack, Goto, Pointers, Child, IInv, ControlTyped, Places, Labels
    <2>3. Told' /\ Answered'
      BY <1>3, <2>1 DEF GiveBack, Goto, Pointers, Child, IInv, Told, Answered, Opening, Closing
    <2>. QED
      BY <2>1, <2>2, <2>3 DEF IInv
  <1>. QED
    BY <1>2, <1>3 DEF GiveBack

(* Freeing both files keeps the invariant.                                 *)
LEMMA FreeFilesKeeps ==
    ASSUME NamesAssumption, IInv, FreeFiles
    PROVE  IInv'
  <1>. DEFINE rest == Held \ {"image"}
  <1>1. Held' = rest \ {"oracle"} /\ streams' = streams
    BY DEF NamesAssumption, FreeFiles, Child, IInv, ControlTyped, Held, Own
  <1>2. (image => "image" \in Held) /\ (~ image => rest = Held)
    BY DEF NamesAssumption, IInv, ControlTyped, Held, Own
  <1>3. (oracle => "oracle" \in rest) /\ (~ oracle => rest \ {"oracle"} = rest)
    BY DEF NamesAssumption, IInv, ControlTyped, Held, Own
  <1>4. PICK p \in IF image THEN Free(platform, "image") ELSE {platform} :
           platform' \in IF oracle THEN Free(p, "oracle") ELSE {p}
    BY DEF FreeFiles
  <1>. HIDE DEF rest
  <1>5. Sound(p, rest, streams, {}) /\ Later(platform, p)
    <2>1. CASE image
      BY <1>2, <1>4, <2>1, FreeSound DEF rest, IInv, Books
    <2>2. CASE ~ image
      BY <1>2, <1>4, <2>2 DEF IInv, Books, Later
    <2>. QED
      BY <2>1, <2>2
  <1>6. Sound(platform', rest \ {"oracle"}, streams, {}) /\ Later(p, platform')
    <2>1. CASE oracle
      BY <1>3, <1>4, <1>5, <2>1, FreeSound
    <2>2. CASE ~ oracle
      BY <1>3, <1>4, <1>5, <2>2 DEF Later
    <2>. QED
      BY <2>1, <2>2
  <1>7. Books' /\ Later(platform, platform')
    BY <1>1, <1>5, <1>6 DEF Books, Later
  <1>8. ControlTyped' /\ Places'
    BY <1>7 DEF FreeFiles, Goto, Child, IInv, ControlTyped, Places, Labels
  <1>9. Told' /\ Answered'
    BY <1>7 DEF FreeFiles, Goto, Child, IInv, Told, Answered, Later, Opening, Closing
  <1>. QED
    BY <1>7, <1>8, <1>9 DEF IInv

(* The counters are zero at the verdict unless there is an error.          *)
LEMMA VerdictKeeps ==
    ASSUME IInv, Verdict
    PROVE  IInv'
  <1>1. Held = {} /\ streams = {} /\ Held' = {} /\ streams' = {}
    BY DEF Verdict, Pointers, Child, IInv, ControlTyped, Places, Held
  <1>2. Books'
    BY <1>1 DEF Verdict, IInv, Books
  <1>3. ~ platform.error => platform.pools = 0 /\ platform.files = 0
    BY <1>1, FS_EmptySet DEF IInv, Books, Sound
  <1>4. code' = IF platform.error THEN 60 ELSE code
    BY <1>3 DEF Verdict
  <1>5. platform.error => platform.refused # 0
    BY DEF IInv, Books, Sound
  <1>6. ControlTyped' /\ Places'
    BY <1>4 DEF Verdict, Goto, Pointers, Child, IInv, ControlTyped, Places, Labels
  <1>7. exit' # "ok" /\ (code' = 0 => code = 0 /\ ~ platform'.error)
    BY <1>4 DEF Verdict, IInv, Answered
  <1>8. Told' /\ Answered'
    BY <1>4, <1>5, <1>7 DEF Verdict, Goto, Pointers, Child, IInv, Told, Answered, Opening, Closing
  <1>. QED
    BY <1>2, <1>6, <1>8 DEF IInv

(* A line of the report that is refused leaves what is back where it is.   *)
LEMMA ReportKeeps ==
    ASSUME IInv, Report
    PROVE  IInv'
  <1>1. Held = {} /\ streams = {} /\ Held' = {} /\ streams' = {}
    BY DEF Report, Pointers, Child, IInv, ControlTyped, Places, Held
  <1>2. Books' /\ Later(platform, platform')
    BY <1>1, LogSound DEF Report, IInv, Books
  <1>3. platform'.blocks = platform.blocks /\ platform'.handles = platform.handles
    BY DEF Report, Log, Refused, IInv, Books, Sound, Platform
  <1>4. code = 0 => platform.blocks = {} /\ platform.handles = {} /\ answer = "expected"
    BY <1>1 DEF Report, IInv, Answered, Closing, Books, Sound
  <1>5. ControlTyped' /\ Places'
    BY DEF Report, Goto, Pointers, Child, IInv, ControlTyped, Places, Labels
  <1>6. Told'
    BY <1>2 DEF Report, Goto, IInv, Told, Later, Opening
  <1>7. Answered'
    BY <1>3, <1>4 DEF Report, Goto, Child, Answered, Closing
  <1>. QED
    BY <1>2, <1>5, <1>6, <1>7 DEF IInv

(* Every step keeps the invariant.                                         *)
LEMMA NextKeeps == NamesAssumption /\ IInv /\ [Next]_vars => IInv'
  <1>. SUFFICES ASSUME NamesAssumption, IInv, [Next]_vars PROVE IInv'
    OBVIOUS
  <1>1. CASE ChildStep
    BY <1>1, ChildAllocatesKeeps, ChildReleasesKeeps, ChildOpensKeeps, ChildClosesKeeps,
       ChildReturnsKeeps DEF ChildStep
  <1>2. CASE UnloadChild \/ CloseRoot
    BY <1>2, GiveBackKeeps DEF UnloadChild, CloseRoot
  <1>3. CASE DestroyBuffer \/ DestroyStream \/ DestroyContext
    BY <1>3, DestroyBufferKeeps, DestroyStreamKeeps, DestroyContextKeeps
  <1>4. CASE FreeFiles \/ Verdict \/ Report
    BY <1>4, FreeFilesKeeps, VerdictKeeps, ReportKeeps
  <1>5. CASE LocateSerial \/ OpenVolume \/ LoadImage
    BY <1>5, LocateSerialKeeps, OpenVolumeKeeps, LoadImageKeeps
  <1>6. CASE ReadOracle \/ ReadImage \/ ContextInit
    BY <1>6, ReadOracleKeeps, ReadImageKeeps, ContextInitKeeps
  <1>7. CASE UNCHANGED vars
    <2>1. Held' = Held
      BY <1>7 DEF vars, Held
    <2>2. Books' /\ ControlTyped' /\ Places' /\ Told' /\ Answered'
      BY <1>7, <2>1 DEF vars, IInv, Books, ControlTyped, Places, Told, Answered
    <2>. QED
      BY <2>2 DEF IInv
  <1>. QED
    BY <1>1, <1>2, <1>3, <1>4, <1>5, <1>6, <1>7 DEF Next, Step, Ending, Done

-----------------------------------------------------------------------------
(* The theorems.                                                           *)

(* In every reachable state the program owns exactly what the platform's   *)
(* books say, refusals aside.                                              *)
THEOREM BooksRight == NamesAssumption => (Spec => []IInv)
  <1>. SUFFICES ASSUME NamesAssumption PROVE Spec => []IInv
    OBVIOUS
  <1>1. Init => IInv
    BY InitIInv
  <1>2. IInv /\ [Next]_vars => IInv'
    BY NextKeeps
  <1>. QED
    BY <1>1, <1>2, PTL DEF Spec

(* On every path through its failures the probe gives back what it took,   *)
(* unless the firmware refuses; a verdict of 0 says that it has refused    *)
(* nothing, and RESULT_OK that all is back.                                *)
THEOREM EverythingAccounted == NamesAssumption => (Spec => []Accounted)
  <1>. SUFFICES ASSUME NamesAssumption PROVE Spec => []Accounted
    OBVIOUS
  <1>1. Spec => []IInv
    BY BooksRight
  <1>2. IInv => Accounted
    BY IInvImpliesAccounted
  <1>. QED
    BY <1>1, <1>2, PTL
=============================================================================
