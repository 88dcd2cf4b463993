----------------------------- MODULE KartProofs -----------------------------
(***************************************************************************)
(* Proofs about Nexora Kart: the clock of its main loop for any speed and  *)
(* any bounds a frame can meet, its keyboard for any of the modelled keys  *)
(* pressed as often and held back as long as one likes, and the race for   *)
(* any number of karts, waypoints and laps and any resolution of the       *)
(* ranking key, on its own and inside the loop; and about its picture, for *)
(* any machine and whatever calls of the firmware fail.                    *)
(***************************************************************************)
EXTENDS MCKart, FiniteSetTheorems, SequenceTheorems, TLAPS

-----------------------------------------------------------------------------
(* The clock of the main loop.  A frame has LIMIT steps to spend and never *)
(* more due than that, so no unit the clock has paid for is given up.      *)
TimeInv ==
    /\ acc \in Nat /\ lag = acc
    /\ steps \in Nat /\ elapsed \in 0 .. CAP + 1
    /\ pc \in {"frame", "step", "poll", "reboot", "halted"}
    /\ pc # "step" => acc < STEP
    /\ pc = "step" => steps < LIMIT /\ acc < (LIMIT - steps) * STEP

(* What the assumption says of the clock's numbers, product included.      *)
LEMMA Numbers ==
    /\ RATE \in Nat /\ STEP \in Nat \ {0} /\ CAP \in Nat /\ LIMIT \in Nat \ {0}
    /\ Delays \subseteq Nat
    /\ CAP * RATE <= (LIMIT - 1) * STEP
BY LoopAssumption

(* A frame adds what the clock has counted, cut to the cap.                *)
LEMMA FrameTime == ASSUME TimeInv, Frame PROVE TimeInv'
<1> DEFINE ms == AtMost(elapsed, CAP)  due == ms * RATE
<1>1. ms \in Nat /\ ms <= CAP
  BY Numbers DEF AtMost, TimeInv
<1>2. due \in Nat /\ due <= CAP * RATE
  <2>1. PICK x \in Nat : CAP = ms + x
    <3>1. CAP - ms \in Nat /\ CAP = ms + (CAP - ms)
      BY <1>1, Numbers
    <3> QED
      BY <3>1
  <2> HIDE DEF ms
  <2>2. CAP * RATE = ms * RATE + x * RATE
    BY <1>1, <2>1, Numbers
  <2>3. ms * RATE \in Nat /\ x * RATE \in Nat
    BY <1>1, Numbers
  <2> QED
    BY <2>2, <2>3
<1> HIDE DEF due
<1>3. acc' = acc + due /\ lag' = lag + due /\ steps' = 0 /\ elapsed' = 0 /\ pc' = "step"
  BY DEF Frame, due
<1>4. acc \in Nat /\ lag = acc /\ acc < STEP
  BY DEF TimeInv, Frame
<1>5. acc + due < (LIMIT - 0) * STEP
  <2>1. (LIMIT - 1) * STEP = LIMIT * STEP - STEP /\ LIMIT * STEP \in Nat
    BY Numbers
  <2>2. LIMIT - 0 = LIMIT
    BY Numbers
  <2> QED
    BY <1>2, <1>4, <2>1, <2>2, Numbers
<1>6. 0 < LIMIT /\ 0 \in Nat /\ 0 \in 0 .. CAP + 1
  BY Numbers
<1> QED
  BY <1>2, <1>3, <1>4, <1>5, <1>6 DEF TimeInv

(* A step takes one step's worth of the time saved.                        *)
LEMMA StepTime == ASSUME TimeInv, Step PROVE TimeInv'
<1>1. /\ acc \in Nat /\ lag = acc /\ steps \in Nat /\ acc >= STEP
      /\ steps < LIMIT /\ acc < (LIMIT - steps) * STEP
  BY DEF TimeInv, Step
<1>2. (LIMIT - steps) * STEP = (LIMIT - (steps + 1)) * STEP + STEP
  BY <1>1, Numbers
<1>3. steps + 1 < LIMIT
  <2>1. SUFFICES ASSUME steps + 1 = LIMIT PROVE FALSE
    BY <1>1, Numbers
  <2>2. (LIMIT - (steps + 1)) * STEP = 0
    BY <2>1, Numbers
  <2> QED
    BY <1>1, <1>2, <2>2, Numbers
<1>4. /\ steps' = steps + 1 /\ lag' = lag - STEP /\ acc' = acc - STEP /\ pc' = pc
      /\ elapsed' = elapsed /\ pc = "step"
  BY <1>3 DEF Step
<1>5. acc - STEP \in Nat /\ acc - STEP < (LIMIT - (steps + 1)) * STEP
  <2>1. (LIMIT - (steps + 1)) * STEP \in Int
    BY <1>1, Numbers
  <2> QED
    BY <1>1, <1>2, <2>1, Numbers
<1> QED
  BY <1>1, <1>3, <1>4, <1>5 DEF TimeInv

(* Every step of the loop keeps the account of time.                       *)
LEMMA TimeStep == TimeInv /\ [Next]_vars => TimeInv'
<1> SUFFICES ASSUME TimeInv, [Next]_vars PROVE TimeInv'
  OBVIOUS
<1>1. CASE UNCHANGED <<acc, lag, steps, elapsed, pc>>
  BY <1>1 DEF TimeInv
<1>2. CASE Stepped
  BY <1>2 DEF Stepped, TimeInv
<1>3. CASE Polled \/ Reboot
  BY <1>3 DEF Polled, Reboot, TimeInv
<1>4. CASE Clock
  <2>1. elapsed' \in 0 .. CAP + 1
    <3>1. PICK ms \in Delays :
             elapsed' = IF elapsed + ms > CAP THEN CAP + 1 ELSE elapsed + ms
      BY <1>4 DEF Clock
    <3>2. ms \in Nat /\ elapsed \in Nat
      BY Numbers DEF TimeInv
    <3> QED
      BY <3>1, <3>2, Numbers
  <2> QED
    BY <1>4, <2>1 DEF Clock, Outside, TimeInv
<1>5. CASE PollByte
  BY <1>1, <1>5 DEF PollByte
<1>6. ASSUME NEW k \in Keys, Press(k) \/ Repeat(k) \/ LetGo(k) PROVE TimeInv'
  BY <1>1, <1>6 DEF Press, Repeat, LetGo, Outside
<1> QED
  BY <1>1, <1>2, <1>3, <1>4, <1>5, <1>6, FrameTime, StepTime DEF Next, Loop, Halted, vars, loopVars

(* The steps taken are those the clock has paid for: at every moment the   *)
(* units not yet spent are those in G_ACC, and the limit of steps in a     *)
(* frame never throws any away.                                            *)
THEOREM TimeKept == Spec => []KeepsTime
<1>1. Init => TimeInv
  BY Numbers DEF Init, TimeInv
<1>2. TimeInv => KeepsTime
  BY DEF TimeInv, KeepsTime
<1> QED
  BY <1>1, <1>2, TimeStep, PTL DEF Spec

-----------------------------------------------------------------------------
(* The keyboard: what waits to be read, and what reading it will do.       *)

Byte == [code : {"E0", "1C", "01", "20"}, up : BOOLEAN]

KeyTyped ==
    /\ queue \in Seq(Byte) /\ e0 \in BOOLEAN
    /\ held \in [Flags -> BOOLEAN] /\ hit \in [Flags -> BOOLEAN]
    /\ down \subseteq Keys
    /\ presses \in [all : Nat, enter : Nat] /\ entered \in Nat

(* A key's bytes are queued all at once, so the prefix is never the last.  *)
Whole ==
    /\ queue = <<>> => ~ e0
    /\ queue # <<>> => queue[Len(queue)].code # "E0"

(* The flag the kernel will find in a byte that waits.                     *)
Prefixed(i) == IF i = 1 THEN e0 ELSE queue[i - 1].code = "E0"
FlagAt(i) == Keymap(Prefixed(i), queue[i].code)

(* What a flag will be when all that waits is read.                        *)
EndsDown(f) ==
    \/ held[f] /\ \A i \in 1 .. Len(queue) : FlagAt(i) # f
    \/ \E i \in 1 .. Len(queue) :
          /\ FlagAt(i) = f /\ ~ queue[i].up
          /\ \A j \in 1 .. Len(queue) : j > i => FlagAt(j) # f

Its(f) == {k \in Keys : FlagOf(k) = f}

ReadsOut ==
    \A f \in Flags :
        /\ Its(f) \cap down = {} => ~ EndsDown(f)
        /\ Its(f) \subseteq down /\ Cardinality(Its(f)) = 1 => EndsDown(f)

(* The Enter keys that are down, and the releases of Enter that wait.      *)
EnterDown == Its("ENTER") \cap down
Releases == {i \in 1 .. Len(queue) : FlagAt(i) = "ENTER" /\ queue[i].up}

Released ==
    /\ held["ENTER"] => EnterDown # {} \/ Releases # {}
    /\ \A i \in 1 .. Len(queue) :
          FlagAt(i) = "ENTER" /\ ~ queue[i].up => EnterDown # {} \/ \E j \in Releases : j > i

One(b) == IF b THEN 1 ELSE 0

(* Each press is spent once: on a step that saw it, on a hit no step has   *)
(* seen yet, on a key still down, on a release not read yet.               *)
Spent ==
    entered + One(hit["ENTER"]) + Cardinality(EnterDown) + Cardinality(Releases)
        <= presses.enter + One(held["ENTER"])

(* Every key has a code of the keyboard's set 1.                           *)
LEMMA KeyFacts ==
    ASSUME NEW k \in Keys
    PROVE  /\ ScanCode[k].extended \in BOOLEAN
           /\ ScanCode[k].code \in {"1C", "01", "20"}
<1>1. k \in {"enter", "keypad", "escape", "d", "mute"}
  BY KeysAssumption DEF ScanCode
<1>2. CASE k = "enter"
  BY <1>2 DEF ScanCode
<1>3. CASE k = "keypad"
  BY <1>3 DEF ScanCode
<1>4. CASE k = "escape"
  BY <1>4 DEF ScanCode
<1>5. CASE k = "d"
  BY <1>5 DEF ScanCode
<1>6. CASE k = "mute"
  BY <1>6 DEF ScanCode
<1> QED
  BY <1>1, <1>2, <1>3, <1>4, <1>5, <1>6

(* The prefix byte is not a key of its own.                                *)
LEMMA NoPrefixFlag == \A x \in BOOLEAN : Keymap(x, "E0") = "none"
BY DEF Keymap

(* What a key sends stands behind what waits, and is read as its flag.     *)
LEMMA Appended ==
    ASSUME KeyTyped, Whole, NEW k \in Keys, NEW up \in BOOLEAN,
           queue' = queue \o Bytes(k, up), e0' = e0, NEW n, n = Len(queue')
    PROVE  /\ queue' \in Seq(Byte) /\ Whole'
           /\ n \in 1 .. n /\ n > Len(queue)
           /\ FlagAt(n)' = FlagOf(k) /\ queue'[n].up = up
           /\ \A i \in 1 .. Len(queue) :
                 i \in 1 .. n /\ queue'[i] = queue[i] /\ FlagAt(i)' = FlagAt(i)
           /\ \A i \in 1 .. n : i \in 1 .. Len(queue) \/ i = n \/ FlagAt(i)' = "none"
<1> DEFINE pre == [code |-> "E0", up |-> FALSE]
           key == [code |-> ScanCode[k].code, up |-> up]
<1>1. queue \in Seq(Byte) /\ e0 \in BOOLEAN /\ Len(queue) \in Nat
  BY DEF KeyTyped
<1>2. pre \in Byte /\ key \in Byte /\ pre.code = "E0" /\ key.code = ScanCode[k].code /\ key.up = up
      /\ key.code # "E0"
  BY KeyFacts DEF Byte
<1> HIDE DEF pre, key
<1>3. CASE ScanCode[k].extended
  <2>1. queue' = queue \o (<<pre>> \o <<key>>)
    BY <1>3 DEF Bytes, pre, key
  <2>2. /\ queue' \in Seq(Byte) /\ Len(queue') = Len(queue) + 2
        /\ queue'[Len(queue) + 1] = pre /\ queue'[Len(queue) + 2] = key
        /\ \A i \in 1 .. Len(queue) : queue'[i] = queue[i]
    <3> DEFINE s == <<pre>> \o <<key>>
    <3>1. s \in Seq(Byte) /\ Len(s) = 2 /\ s[1] = pre /\ s[2] = key
      BY <1>2
    <3> HIDE DEF s
    <3>2. queue' = queue \o s
      BY <2>1 DEF s
    <3>3. queue' \in Seq(Byte) /\ Len(queue') = Len(queue) + 2
      <4>1. queue' \in Seq(Byte) /\ Len(queue') = Len(queue) + Len(s)
        BY <1>1, <3>1, <3>2, ConcatProperties
      <4> QED
        BY <3>1, <4>1
    <3>4. \A i \in 1 .. Len(queue) + 2 :
             queue'[i] = IF i <= Len(queue) THEN queue[i] ELSE s[i - Len(queue)]
      BY <1>1, <3>1, <3>2, ConcatProperties, SMTT(30)
    <3> QED
      BY <1>1, <3>1, <3>3, <3>4
  <2>3. n = Len(queue) + 2 /\ n \in Nat /\ n - 1 = Len(queue) + 1 /\ n # 1
    BY <1>1, <2>2
  <2>4. FlagAt(n)' = FlagOf(k)
    <3>1. Prefixed(n)' = TRUE
      BY <1>2, <2>2, <2>3 DEF Prefixed
    <3> QED
      BY <1>2, <1>3, <2>2, <2>3, <3>1 DEF FlagAt, FlagOf, Keymap
  <2>5. ASSUME NEW i, i = Len(queue) + 1 PROVE FlagAt(i)' = "none"
    BY <1>2, <2>2, <2>5 DEF FlagAt, Keymap
  <2>6. \A i \in 1 .. Len(queue) : FlagAt(i)' = FlagAt(i)
    BY <1>1, <2>2 DEF FlagAt, Prefixed
  <2>7. Whole'
    BY <1>1, <1>2, <2>2 DEF Whole
  <2>8. \A i \in 1 .. n : i \in 1 .. Len(queue) \/ i = n \/ i = Len(queue) + 1
    BY <1>1, <2>2
  <2> QED
    BY <1>1, <1>2, <2>2, <2>3, <2>4, <2>5, <2>6, <2>7, <2>8
<1>4. CASE ~ ScanCode[k].extended
  <2>1. queue' = queue \o (<<>> \o <<key>>)
    BY <1>4 DEF Bytes, key
  <2>2. /\ queue' \in Seq(Byte) /\ Len(queue') = Len(queue) + 1
        /\ queue'[Len(queue) + 1] = key
        /\ \A i \in 1 .. Len(queue) : queue'[i] = queue[i]
    <3> DEFINE s == <<>> \o <<key>>
    <3>1. s \in Seq(Byte) /\ Len(s) = 1 /\ s[1] = key
      BY <1>2
    <3> HIDE DEF s
    <3>2. queue' = queue \o s
      BY <2>1 DEF s
    <3>3. queue' \in Seq(Byte) /\ Len(queue') = Len(queue) + 1
      <4>1. queue' \in Seq(Byte) /\ Len(queue') = Len(queue) + Len(s)
        BY <1>1, <3>1, <3>2, ConcatProperties
      <4> QED
        BY <3>1, <4>1
    <3>4. \A i \in 1 .. Len(queue) + 1 :
             queue'[i] = IF i <= Len(queue) THEN queue[i] ELSE s[i - Len(queue)]
      BY <1>1, <3>1, <3>2, ConcatProperties
    <3> QED
      BY <1>1, <3>1, <3>3, <3>4
  <2>3. n = Len(queue) + 1 /\ n \in Nat /\ n - 1 = Len(queue)
    BY <1>1, <2>2
  <2>4. FlagAt(n)' = FlagOf(k)
    <3>1. ~ Prefixed(n)'
      <4>1. CASE n = 1
        <5>1. queue = <<>>
          BY <1>1, <2>3, <4>1
        <5> QED
          BY <4>1, <5>1 DEF Prefixed, Whole
      <4>2. CASE n # 1
        <5>1. queue # <<>> /\ Len(queue) \in 1 .. Len(queue)
          BY <1>1, <2>3, <4>2
        <5>2. queue'[n - 1].code # "E0"
          BY <2>2, <2>3, <5>1 DEF Whole
        <5> QED
          BY <4>2, <5>2 DEF Prefixed
      <4> QED
        BY <4>1, <4>2
    <3> QED
      BY <1>2, <1>4, <2>2, <2>3, <3>1 DEF FlagAt, FlagOf, Keymap
  <2>5. \A i \in 1 .. Len(queue) : FlagAt(i)' = FlagAt(i)
    BY <1>1, <2>2 DEF FlagAt, Prefixed
  <2>6. Whole'
    BY <1>1, <1>2, <2>2 DEF Whole
  <2>7. \A i \in 1 .. n : i \in 1 .. Len(queue) \/ i = n
    BY <1>1, <2>2
  <2> QED
    BY <1>1, <1>2, <2>2, <2>3, <2>4, <2>5, <2>6, <2>7
<1> QED
  BY <1>3, <1>4

(* The bytes behind the one that is read are read as before.               *)
LEMMA Shifted ==
    ASSUME KeyTyped, Whole, PollByte
    PROVE  /\ queue \in Seq(Byte) /\ queue' \in Seq(Byte) /\ Len(queue) \in Nat \ {0}
           /\ Len(queue') = Len(queue) - 1 /\ queue[1] \in Byte
           /\ e0' \in BOOLEAN /\ Whole'
           /\ \A i \in 1 .. Len(queue') :
                 i + 1 \in 1 .. Len(queue) /\ queue'[i] = queue[i + 1] /\ FlagAt(i)' = FlagAt(i + 1)
<1>1. queue \in Seq(Byte) /\ queue # <<>> /\ queue' = Tail(queue)
  BY DEF KeyTyped, PollByte
<1>2. /\ Len(queue) \in Nat \ {0} /\ queue[1] \in Byte /\ queue' \in Seq(Byte)
      /\ Len(queue') = Len(queue) - 1
      /\ \A i \in 1 .. Len(queue') : i + 1 \in 1 .. Len(queue) /\ queue'[i] = queue[i + 1]
  BY <1>1
<1>3. e0' \in BOOLEAN /\ (e0' <=> queue[1].code = "E0")
  <2>1. Head(queue) = queue[1]
    BY <1>1
  <2> QED
    BY <2>1 DEF PollByte
<1>4. \A i \in 1 .. Len(queue') : FlagAt(i)' = FlagAt(i + 1)
  <2>1. SUFFICES ASSUME NEW i \in 1 .. Len(queue') PROVE FlagAt(i)' = FlagAt(i + 1)
    OBVIOUS
  <2>2. queue'[i] = queue[i + 1] /\ i + 1 # 1 /\ (i + 1) - 1 = i
    BY <1>2, <2>1
  <2>3. CASE i = 1
    <3>1. Prefixed(i)' = Prefixed(i + 1)
      BY <1>3, <2>2, <2>3 DEF Prefixed
    <3> QED
      BY <2>2, <3>1 DEF FlagAt
  <2>4. CASE i # 1
    <3>1. i - 1 \in 1 .. Len(queue') /\ (i - 1) + 1 = i
      BY <1>2, <2>1, <2>4
    <3>2. Prefixed(i)' = Prefixed(i + 1)
      BY <1>2, <2>2, <2>4, <3>1 DEF Prefixed
    <3> QED
      BY <2>2, <3>2 DEF FlagAt
  <2> QED
    BY <2>3, <2>4
<1>5. Whole'
  <2>1. queue' = <<>> => ~ e0'
    BY <1>1, <1>2, <1>3, SMTT(30) DEF Whole
  <2>2. queue' # <<>> => queue'[Len(queue')].code # "E0"
    BY <1>1, <1>2 DEF Whole
  <2> QED
    BY <2>1, <2>2 DEF Whole
<1> QED
  BY <1>1, <1>2, <1>3, <1>4, <1>5

(* The flag of the byte that is read, and what becomes of the keys.        *)
LEMMA ReadByte ==
    ASSUME KeyTyped, Whole, PollByte
    PROVE  /\ held' \in [Flags -> BOOLEAN] /\ hit' \in [Flags -> BOOLEAN]
           /\ \A f \in Flags :
                 /\ FlagAt(1) = f => held'[f] = ~ queue[1].up
                 /\ FlagAt(1) = f => hit'[f] = (hit[f] \/ (~ queue[1].up /\ ~ held[f]))
                 /\ FlagAt(1) # f => held'[f] = held[f] /\ hit'[f] = hit[f]
<1>1. Head(queue) = queue[1] /\ queue[1].up \in BOOLEAN
  <2>1. queue \in Seq(Byte) /\ queue # <<>>
    BY DEF KeyTyped, PollByte
  <2>2. Head(queue) = queue[1] /\ queue[1] \in Byte
    BY <2>1
  <2> QED
    BY <2>2 DEF Byte
<1>2. FlagAt(1) = Keymap(e0, queue[1].code)
  BY DEF FlagAt, Prefixed
<1>3. held \in [Flags -> BOOLEAN] /\ hit \in [Flags -> BOOLEAN] /\ e0 \in BOOLEAN
  BY DEF KeyTyped
<1>4. CASE queue[1].code = "E0"
  <2>1. held' = held /\ hit' = hit
    BY <1>1, <1>4 DEF PollByte
  <2>2. FlagAt(1) \notin Flags
    BY <1>2, <1>3, <1>4, NoPrefixFlag DEF Flags
  <2> QED
    BY <1>3, <2>1, <2>2
<1>5. CASE queue[1].code # "E0" /\ FlagAt(1) \notin Flags
  <2>1. held' = held /\ hit' = hit
    BY <1>1, <1>2, <1>5 DEF PollByte
  <2> QED
    BY <1>3, <1>5, <2>1
<1>6. CASE queue[1].code # "E0" /\ FlagAt(1) \in Flags
  <2>1. /\ held' = [held EXCEPT ![FlagAt(1)] = ~ queue[1].up]
        /\ hit' = [hit EXCEPT ![FlagAt(1)] = hit[FlagAt(1)] \/ (~ queue[1].up /\ ~ held[FlagAt(1)])]
    BY <1>1, <1>2, <1>6, Zenon DEF PollByte
  <2> DEFINE g == FlagAt(1)  u == queue[1].up  h == hit[g] \/ (~ u /\ ~ held[g])
  <2>2. h \in BOOLEAN /\ (~ u) \in BOOLEAN /\ g \in Flags
    BY <1>1, <1>6
  <2> HIDE DEF g, u
  <2>3. held' = [held EXCEPT ![g] = ~ u] /\ hit' = [hit EXCEPT ![g] = h]
    BY <2>1, Zenon DEF g, u
  <2> HIDE DEF h
  <2>4. /\ held' \in [Flags -> BOOLEAN] /\ hit' \in [Flags -> BOOLEAN]
        /\ held'[g] = ~ u /\ hit'[g] = h
        /\ \A f \in Flags : f # g => held'[f] = held[f] /\ hit'[f] = hit[f]
    BY <1>3, <2>2, <2>3, Zenon
  <2> QED
    BY <2>4, Zenon DEF g, u, h
<1> QED
  BY <1>4, <1>5, <1>6

-----------------------------------------------------------------------------
(* What is read in the end is what the keys are.                           *)

(* Reading a byte does not change what a flag will be in the end.          *)
LEMMA ReadingKeeps ==
    ASSUME KeyTyped, Whole, PollByte, NEW f \in Flags
    PROVE  EndsDown(f)' <=> EndsDown(f)
<1> DEFINE last == Len(queue)
<1>1. /\ last \in Nat \ {0} /\ Len(queue') = last - 1
      /\ \A i \in 1 .. last - 1 :
            i + 1 \in 1 .. last /\ queue'[i] = queue[i + 1] /\ FlagAt(i)' = FlagAt(i + 1)
  BY Shifted
<1> HIDE DEF last
<1>2. \A i \in 1 .. last : i = 1 \/ (i - 1 \in 1 .. last - 1 /\ (i - 1) + 1 = i)
  BY <1>1
<1>3. /\ FlagAt(1) = f => held'[f] = ~ queue[1].up
      /\ FlagAt(1) # f => held'[f] = held[f]
  BY ReadByte
<1>4. queue[1].up \in BOOLEAN
  BY Shifted DEF Byte
<1>5. 1 \in 1 .. last /\ \A i \in 1 .. last : i # 1 => i > 1
  BY <1>1
<1>6. EndsDown(f) <=>
        \/ held[f] /\ \A i \in 1 .. last : FlagAt(i) # f
        \/ \E i \in 1 .. last :
              FlagAt(i) = f /\ ~ queue[i].up /\ \A j \in 1 .. last : j > i => FlagAt(j) # f
  BY DEF EndsDown, last
<1>7. EndsDown(f)' <=>
        \/ held'[f] /\ \A i \in 1 .. last - 1 : FlagAt(i + 1) # f
        \/ \E i \in 1 .. last - 1 :
              /\ FlagAt(i + 1) = f /\ ~ queue[i + 1].up
              /\ \A j \in 1 .. last - 1 : j > i => FlagAt(j + 1) # f
  BY <1>1 DEF EndsDown
<1>8. ASSUME EndsDown(f) PROVE EndsDown(f)'
  <2>1. CASE held[f] /\ \A i \in 1 .. last : FlagAt(i) # f
    BY <1>1, <1>3, <1>5, <1>7, <2>1
  <2>2. ASSUME NEW i \in 1 .. last,
               FlagAt(i) = f /\ ~ queue[i].up /\ \A j \in 1 .. last : j > i => FlagAt(j) # f
        PROVE  EndsDown(f)'
    <3>1. CASE i = 1
      <4>1. held'[f]
        BY <1>3, <1>4, <2>2, <3>1
      <4>2. \A j \in 1 .. last - 1 : FlagAt(j + 1) # f
        BY <1>1, <2>2, <3>1
      <4> QED
        BY <1>7, <4>1, <4>2
    <3>2. CASE i # 1
      <4>1. PICK p \in 1 .. last - 1 : p + 1 = i
        BY <1>2, <3>2
      <4>2. \A j \in 1 .. last - 1 : j > p => FlagAt(j + 1) # f
        BY <1>1, <2>2, <4>1
      <4> QED
        BY <1>7, <2>2, <4>1, <4>2
    <3> QED
      BY <3>1, <3>2
  <2> QED
    BY <1>6, <1>8, <2>1, <2>2
<1>9. ASSUME EndsDown(f)' PROVE EndsDown(f)
  <2>1. ASSUME held'[f], \A i \in 1 .. last - 1 : FlagAt(i + 1) # f PROVE EndsDown(f)
    <3>1. \A i \in 1 .. last : i > 1 => FlagAt(i) # f
      BY <1>1, <2>1, <1>2
    <3>2. CASE FlagAt(1) = f
      BY <1>3, <1>5, <1>6, <2>1, <3>1, <3>2
    <3>3. CASE FlagAt(1) # f
      BY <1>3, <1>5, <1>6, <2>1, <3>1, <3>3
    <3> QED
      BY <3>2, <3>3
  <2>2. ASSUME NEW i \in 1 .. last - 1,
               FlagAt(i + 1) = f /\ ~ queue[i + 1].up,
               \A j \in 1 .. last - 1 : j > i => FlagAt(j + 1) # f
        PROVE  EndsDown(f)
    <3>1. i + 1 \in 1 .. last
      BY <1>1
    <3>2. \A j \in 1 .. last : j > i + 1 => FlagAt(j) # f
      <4>1. SUFFICES ASSUME NEW j \in 1 .. last, j > i + 1 PROVE FlagAt(j) # f
        OBVIOUS
      <4>2. PICK p \in 1 .. last - 1 : p + 1 = j
        BY <1>2, <4>1
      <4> QED
        BY <2>2, <4>1, <4>2
    <3> QED
      BY <1>6, <2>2, <3>1, <3>2
  <2> QED
    BY <1>7, <1>9, <2>1, <2>2
<1> QED
  BY <1>8, <1>9

(* A key that sends decides what its flag will be, and no other.           *)
LEMMA SendingDecides ==
    ASSUME KeyTyped, Whole, NEW k \in Keys, NEW up \in BOOLEAN,
           queue' = queue \o Bytes(k, up), e0' = e0, held' = held, NEW f \in Flags
    PROVE  /\ FlagOf(k) = f => (EndsDown(f)' <=> ~ up)
           /\ FlagOf(k) # f => (EndsDown(f)' <=> EndsDown(f))
<1> DEFINE last == Len(queue)
<1>1. PICK n : n = Len(queue')
  OBVIOUS
<1>2. /\ n \in 1 .. n /\ n > last /\ FlagAt(n)' = FlagOf(k) /\ queue'[n].up = up
      /\ \A i \in 1 .. last : i \in 1 .. n /\ queue'[i] = queue[i] /\ FlagAt(i)' = FlagAt(i)
      /\ \A i \in 1 .. n : i \in 1 .. last \/ i = n \/ FlagAt(i)' = "none"
  BY <1>1, Appended
<1>3. last \in Nat /\ f # "none"
  BY DEF KeyTyped, Flags
<1> HIDE DEF last
<1>4. EndsDown(f)' <=>
        \/ held[f] /\ \A i \in 1 .. n : FlagAt(i)' # f
        \/ \E i \in 1 .. n :
              /\ FlagAt(i)' = f /\ ~ queue'[i].up
              /\ \A j \in 1 .. n : j > i => FlagAt(j)' # f
  BY <1>1 DEF EndsDown
<1>5. EndsDown(f) <=>
        \/ held[f] /\ \A i \in 1 .. last : FlagAt(i) # f
        \/ \E i \in 1 .. last :
              FlagAt(i) = f /\ ~ queue[i].up /\ \A j \in 1 .. last : j > i => FlagAt(j) # f
  BY DEF EndsDown, last
<1>6. CASE FlagOf(k) = f
  <2>1. ASSUME ~ up PROVE EndsDown(f)'
    <3>1. \A j \in 1 .. n : ~ j > n
      BY <1>2
    <3>2. n \in 1 .. n /\ FlagAt(n)' = f /\ ~ queue'[n].up
      BY <1>2, <1>6, <2>1
    <3> QED
      BY <1>4, <3>1, <3>2
  <2>2. ASSUME EndsDown(f)' PROVE ~ up
    <3>1. PICK i \in 1 .. n :
             FlagAt(i)' = f /\ ~ queue'[i].up /\ \A j \in 1 .. n : j > i => FlagAt(j)' # f
      BY <1>2, <1>4, <1>6, <2>2
    <3>2. i = n
      BY <1>2, <1>6, <3>1
    <3> QED
      BY <1>2, <3>1, <3>2
  <2> QED
    BY <1>6, <2>1, <2>2
<1>7. CASE FlagOf(k) # f
  <2>1. \A i \in 1 .. n : i \in 1 .. last \/ FlagAt(i)' # f
    BY <1>2, <1>3, <1>7
  <2>2. (\A i \in 1 .. n : FlagAt(i)' # f) <=> \A i \in 1 .. last : FlagAt(i) # f
    BY <1>2, <2>1
  <2>3. ASSUME NEW i \in 1 .. last
        PROVE  (\A j \in 1 .. n : j > i => FlagAt(j)' # f)
                  <=> \A j \in 1 .. last : j > i => FlagAt(j) # f
    BY <1>2, <2>1
  <2>4. (\E i \in 1 .. n : /\ FlagAt(i)' = f /\ ~ queue'[i].up
                           /\ \A j \in 1 .. n : j > i => FlagAt(j)' # f)
           <=> \E i \in 1 .. last : /\ FlagAt(i) = f /\ ~ queue[i].up
                                    /\ \A j \in 1 .. last : j > i => FlagAt(j) # f
    BY <1>2, <2>1, <2>3
  <2> QED
    BY <1>4, <1>5, <1>7, <2>2, <2>4
<1> QED
  BY <1>6, <1>7

(* A key pressed or released matters to its own flag only.                 *)
LEMMA OtherKeys ==
    ASSUME NEW k \in Keys, NEW f \in Flags, NEW D
    PROVE  /\ FlagOf(k) # f => Its(f) \cap (D \cup {k}) = Its(f) \cap D
           /\ FlagOf(k) # f => Its(f) \cap (D \ {k}) = Its(f) \cap D
           /\ FlagOf(k) = f => k \in Its(f) \cap (D \cup {k})
           /\ FlagOf(k) = f => k \in Its(f) /\ k \notin D \ {k}
BY DEF Its

(* Reading the waiting bytes still leads to flags as the keys are.         *)
LEMMA ReadsOutKept ==
    ASSUME KeyTyped, Whole, ReadsOut, [Next]_vars
    PROVE  ReadsOut'
<1> DEFINE Holds(f) ==
             /\ Its(f) \cap down' = {} => ~ EndsDown(f)'
             /\ Its(f) \cap down' = Its(f) /\ Cardinality(Its(f)) = 1 => EndsDown(f)'
<1> SUFFICES ASSUME NEW f \in Flags PROVE Holds(f)
  BY DEF ReadsOut, Its
<1>1. /\ Its(f) \cap down = {} => ~ EndsDown(f)
      /\ Its(f) \cap down = Its(f) /\ Cardinality(Its(f)) = 1 => EndsDown(f)
  BY DEF ReadsOut
<1>2. CASE UNCHANGED <<held, e0, down, queue>>
  <2>1. EndsDown(f)' <=> EndsDown(f)
    BY <1>2 DEF EndsDown, FlagAt, Prefixed
  <2> QED
    BY <1>1, <1>2, <2>1
<1>3. CASE PollByte
  <2>1. EndsDown(f)' <=> EndsDown(f)
    BY <1>3, ReadingKeeps
  <2>2. down' = down
    BY <1>3 DEF PollByte
  <2> QED
    BY <1>1, <2>1, <2>2
<1>4. ASSUME NEW k \in Keys, Press(k) \/ Repeat(k) PROVE Holds(f)
  <2>1. queue' = queue \o Bytes(k, FALSE) /\ e0' = e0 /\ held' = held /\ down' = down \cup {k}
    BY <1>4 DEF Press, Repeat, Send, Outside
  <2>2. /\ FlagOf(k) = f => EndsDown(f)'
        /\ FlagOf(k) # f => (EndsDown(f)' <=> EndsDown(f))
    BY <2>1, SendingDecides
  <2> QED
    BY <1>1, <2>1, <2>2, OtherKeys
<1>5. ASSUME NEW k \in Keys, LetGo(k) PROVE Holds(f)
  <2>1. queue' = queue \o Bytes(k, TRUE) /\ e0' = e0 /\ held' = held /\ down' = down \ {k}
    BY <1>5 DEF LetGo, Send, Outside
  <2>2. /\ FlagOf(k) = f => ~ EndsDown(f)'
        /\ FlagOf(k) # f => (EndsDown(f)' <=> EndsDown(f))
    BY <2>1, SendingDecides
  <2> QED
    BY <1>1, <2>1, <2>2, OtherKeys
<1> QED
  BY <1>2, <1>3, <1>4, <1>5 DEF Next, Loop, Frame, Step, Stepped, Polled, Reboot, Halted, Clock,
     Keyboard, Outside, vars, loopVars

(* The keyboard's state keeps its type, and its bytes come as whole codes. *)
LEMMA TypedKept ==
    ASSUME KeyTyped, Whole, [Next]_vars
    PROVE  KeyTyped' /\ Whole'
<1>1. CASE UNCHANGED <<held, hit, e0, down, queue, presses, entered>>
  BY <1>1 DEF KeyTyped, Whole
<1>2. CASE Step
  <2>1. entered' \in Nat
    <3>1. entered' = AtMost(entered + (IF hit["ENTER"] THEN 1 ELSE 0), PRESSES + 1)
      BY <1>2 DEF Step
    <3>2. (IF hit["ENTER"] THEN 1 ELSE 0) \in Nat /\ entered \in Nat /\ PRESSES + 1 \in Nat
      BY LoopAssumption DEF KeyTyped
    <3> QED
      BY <3>1, <3>2 DEF AtMost
  <2>2. hit' \in [Flags -> BOOLEAN]
    BY <1>2 DEF Step, NoFlags
  <2> QED
    BY <1>2, <2>1, <2>2 DEF Step, KeyTyped, Whole
<1>3. CASE PollByte
  <2>1. UNCHANGED <<down, presses, entered>>
    BY <1>3 DEF PollByte
  <2> QED
    BY <1>3, <2>1, Shifted, ReadByte DEF KeyTyped
<1>4. ASSUME NEW k \in Keys, Press(k) \/ Repeat(k) \/ LetGo(k) PROVE KeyTyped' /\ Whole'
  <2>1. PICK up \in BOOLEAN : queue' = queue \o Bytes(k, up)
    BY <1>4 DEF Press, Repeat, LetGo, Send
  <2>2. /\ UNCHANGED <<e0, held, hit, entered>> /\ down' \subseteq Keys
        /\ presses' \in [all : Nat, enter : Nat]
    <3>1. UNCHANGED <<e0, held, hit, entered>> /\ down' \subseteq Keys
      BY <1>4 DEF Press, Repeat, LetGo, Outside, KeyTyped
    <3>2. CASE Press(k)
      <4>1. presses.all + 1 \in Nat /\ presses.enter + (IF FlagOf(k) = "ENTER" THEN 1 ELSE 0) \in Nat
        BY DEF KeyTyped
      <4> QED
        BY <3>1, <3>2, <4>1 DEF Press
    <3>3. CASE Repeat(k) \/ LetGo(k)
      BY <3>1, <3>3 DEF Repeat, LetGo, KeyTyped
    <3> QED
      BY <1>4, <3>1, <3>2, <3>3
  <2>3. queue' \in Seq(Byte) /\ Whole'
    BY <2>1, <2>2, Appended
  <2> QED
    BY <2>2, <2>3 DEF KeyTyped
<1> QED
  BY <1>1, <1>2, <1>3, <1>4 DEF Next, Loop, Frame, Stepped, Polled, Reboot, Halted, Clock,
     Keyboard, Outside, vars, loopVars

-----------------------------------------------------------------------------
(* Every press of Enter is spent once.                                     *)

(* The releases of Enter on their way can be counted.                      *)
LEMMA ReleasesFinite ==
    KeyTyped => IsFiniteSet(Releases) /\ Cardinality(Releases) \in Nat
<1> SUFFICES ASSUME KeyTyped PROVE IsFiniteSet(Releases) /\ Cardinality(Releases) \in Nat
  OBVIOUS
<1>1. IsFiniteSet(1 .. Len(queue)) /\ Releases \subseteq 1 .. Len(queue)
  BY FS_Interval DEF KeyTyped, Releases
<1> QED
  BY <1>1, FS_Subset, FS_CardinalityType

(* The Enter keys held down can be counted.                                *)
LEMMA EnterDownFinite ==
    KeyTyped => IsFiniteSet(EnterDown) /\ Cardinality(EnterDown) \in Nat
<1> SUFFICES ASSUME KeyTyped PROVE IsFiniteSet(EnterDown) /\ Cardinality(EnterDown) \in Nat
  OBVIOUS
<1> DEFINE all == {} \cup {"enter"} \cup {"keypad"} \cup {"escape"} \cup {"d"} \cup {"mute"}
<1>1. IsFiniteSet(all)
  BY ONLY FS_EmptySet, FS_AddElement, Zenon
<1>2. EnterDown \subseteq all
  BY KeysAssumption DEF EnterDown, Its, ScanCode
<1> QED
  BY <1>1, <1>2, FS_Subset, FS_CardinalityType

Counted ==
    /\ Cardinality(Releases) \in Nat /\ Cardinality(EnterDown) \in Nat
    /\ presses.enter \in Nat

(* The same of the next state.                                             *)
LEMMA CountsNext == KeyTyped' => Counted'
<1>1. KeyTyped => Counted
  BY ReleasesFinite, EnterDownFinite DEF KeyTyped, Counted
<1> QED
  BY <1>1, PTL

(* Reading a byte takes at most one release of Enter off the way.          *)
LEMMA ReleaseRead ==
    ASSUME KeyTyped, Whole, PollByte
    PROVE  Cardinality(Releases) = Cardinality(Releases') + One(1 \in Releases)
<1>1. /\ Len(queue) \in Nat \ {0} /\ Len(queue') = Len(queue) - 1
      /\ \A i \in 1 .. Len(queue') :
            i + 1 \in 1 .. Len(queue) /\ queue'[i] = queue[i + 1] /\ FlagAt(i)' = FlagAt(i + 1)
  BY Shifted
<1> DEFINE rest == Releases \ {1}  left == Releases'  shift == [i \in left |-> i + 1]
<1>2. \A i \in left : i \in 1 .. Len(queue) - 1 /\ i + 1 \in rest
  BY <1>1 DEF Releases
<1>3. \A i \in rest : i - 1 \in left /\ (i - 1) + 1 = i
  <2>1. SUFFICES ASSUME NEW i \in rest PROVE i - 1 \in left /\ (i - 1) + 1 = i
    OBVIOUS
  <2>2. i \in 1 .. Len(queue) /\ i # 1 /\ FlagAt(i) = "ENTER" /\ queue[i].up
    BY <2>1 DEF Releases
  <2>3. PICK p \in 1 .. Len(queue') : p + 1 = i /\ p = i - 1
    <3>1. i - 1 \in 1 .. Len(queue') /\ (i - 1) + 1 = i
      BY <1>1, <2>2
    <3> QED
      BY <3>1
  <2>4. p \in left
    BY <1>1, <2>2, <2>3 DEF Releases
  <2> QED
    BY <2>3, <2>4
<1> HIDE DEF rest, left
<1>4. shift \in Bijection(left, rest)
  <2>1. shift \in [left -> rest]
    BY <1>2
  <2>2. \A i, j \in left : shift[i] = shift[j] => i = j
    BY <1>2
  <2>3. \A j \in rest : \E i \in left : shift[i] = j
    BY <1>3
  <2> QED
    BY <2>1, <2>2, <2>3 DEF Bijection, Injection, IsInjective, Surjection
<1>5. IsFiniteSet(Releases) /\ Cardinality(Releases) \in Nat
  BY ReleasesFinite
<1>6. IsFiniteSet(rest) /\ Cardinality(rest) = Cardinality(Releases) - One(1 \in Releases)
  <2>1. /\ IsFiniteSet(rest)
        /\ Cardinality(rest) = IF 1 \in Releases THEN Cardinality(Releases) - 1 ELSE Cardinality(Releases)
    BY <1>5, FS_RemoveElement DEF rest
  <2> QED
    BY <1>5, <2>1 DEF One
<1>7. IsFiniteSet(left)
  <2>1. IsFiniteSet(1 .. Len(queue))
    BY FS_Interval DEF KeyTyped
  <2>2. left \subseteq 1 .. Len(queue)
    BY <1>1, <1>2
  <2> QED
    BY <2>1, <2>2, FS_Subset
<1>8. Cardinality(rest) = Cardinality(left)
  BY <1>4, <1>7, FS_Bijection DEF ExistsBijection
<1>9. Cardinality(left) \in Nat
  BY <1>7, FS_CardinalityType
<1> QED
  BY <1>5, <1>6, <1>8, <1>9 DEF left, One

(* A code sent puts at most one release of Enter on its way, behind all    *)
(* others.                                                                 *)
LEMMA ReleaseSent ==
    ASSUME KeyTyped, Whole, NEW k \in Keys, NEW up \in BOOLEAN,
           queue' = queue \o Bytes(k, up), e0' = e0
    PROVE  /\ Releases \subseteq Releases'
           /\ Cardinality(Releases') = Cardinality(Releases) + One(FlagOf(k) = "ENTER" /\ up)
           /\ FlagOf(k) = "ENTER" /\ up => \E j \in Releases' : j > Len(queue)
<1>1. PICK n : n = Len(queue')
  OBVIOUS
<1>2. /\ n \in 1 .. n /\ n > Len(queue) /\ FlagAt(n)' = FlagOf(k) /\ queue'[n].up = up
      /\ \A i \in 1 .. Len(queue) : i \in 1 .. n /\ queue'[i] = queue[i] /\ FlagAt(i)' = FlagAt(i)
      /\ \A i \in 1 .. n : i \in 1 .. Len(queue) \/ i = n \/ FlagAt(i)' = "none"
  BY <1>1, Appended
<1>3. Len(queue) \in Nat /\ n \notin Releases
  BY <1>2 DEF KeyTyped, Releases
<1>4. IsFiniteSet(Releases) /\ Cardinality(Releases) \in Nat
  BY ReleasesFinite
<1>5. CASE FlagOf(k) = "ENTER" /\ up
  <2>1. Releases' = Releases \cup {n}
    BY <1>1, <1>2, <1>5 DEF Releases
  <2>2. Cardinality(Releases') = Cardinality(Releases) + 1
    BY <1>3, <1>4, <2>1, FS_AddElement
  <2> QED
    BY <1>2, <1>5, <2>1, <2>2 DEF One
<1>6. CASE ~ (FlagOf(k) = "ENTER" /\ up)
  <2>1. Releases' = Releases
    BY <1>1, <1>2, <1>6 DEF Releases
  <2> QED
    BY <1>4, <1>6, <2>1 DEF One
<1> QED
  BY <1>5, <1>6

(* Only an Enter key changes the number of Enter keys held, and by one.    *)
LEMMA EnterKeys ==
    ASSUME KeyTyped, NEW k \in Keys
    PROVE  /\ FlagOf(k) # "ENTER" => /\ Its("ENTER") \cap (down \cup {k}) = EnterDown
                                     /\ Its("ENTER") \cap (down \ {k}) = EnterDown
           /\ FlagOf(k) = "ENTER" /\ k \notin down =>
                 Cardinality(Its("ENTER") \cap (down \cup {k})) = Cardinality(EnterDown) + 1
           /\ FlagOf(k) = "ENTER" /\ k \in down =>
                 Cardinality(Its("ENTER") \cap (down \ {k})) = Cardinality(EnterDown) - 1
<1>1. IsFiniteSet(EnterDown) /\ Cardinality(EnterDown) \in Nat
  BY EnterDownFinite
<1>2. "ENTER" \in Flags
  BY DEF Flags
<1>3. ASSUME FlagOf(k) # "ENTER"
      PROVE  Its("ENTER") \cap (down \cup {k}) = EnterDown /\ Its("ENTER") \cap (down \ {k}) = EnterDown
  BY <1>2, <1>3, OtherKeys DEF EnterDown
<1>4. ASSUME FlagOf(k) = "ENTER", k \notin down
      PROVE  Cardinality(Its("ENTER") \cap (down \cup {k})) = Cardinality(EnterDown) + 1
  <2>1. Its("ENTER") \cap (down \cup {k}) = EnterDown \cup {k} /\ k \notin EnterDown
    BY <1>4 DEF EnterDown, Its
  <2> QED
    BY <1>1, <2>1, FS_AddElement
<1>5. ASSUME FlagOf(k) = "ENTER", k \in down
      PROVE  Cardinality(Its("ENTER") \cap (down \ {k})) = Cardinality(EnterDown) - 1
  <2>1. Its("ENTER") \cap (down \ {k}) = EnterDown \ {k} /\ k \in EnterDown
    BY <1>5 DEF EnterDown, Its
  <2> QED
    BY <1>1, <2>1, FS_RemoveElement
<1> QED
  BY <1>3, <1>4, <1>5

(* While Enter's flag is down an Enter key is held or a release is on its  *)
(* way.                                                                    *)
LEMMA ReleasedKept ==
    ASSUME KeyTyped, Whole, Released, [Next]_vars
    PROVE  Released'
<1>1. /\ held["ENTER"] => EnterDown # {} \/ Releases # {}
      /\ \A i \in 1 .. Len(queue) :
            FlagAt(i) = "ENTER" /\ ~ queue[i].up => EnterDown # {} \/ \E j \in Releases : j > i
  BY DEF Released
<1>2. CASE UNCHANGED <<held, e0, down, queue>>
  BY <1>1, <1>2 DEF Released, EnterDown, Releases, FlagAt, Prefixed
<1>3. CASE PollByte
  <2>1. /\ Len(queue) \in Nat \ {0} /\ Len(queue') = Len(queue) - 1
        /\ \A i \in 1 .. Len(queue') :
              i + 1 \in 1 .. Len(queue) /\ queue'[i] = queue[i + 1] /\ FlagAt(i)' = FlagAt(i + 1)
        /\ queue[1].up \in BOOLEAN
    BY <1>3, Shifted DEF Byte
  <2>2. EnterDown' = EnterDown
    BY <1>3 DEF PollByte, EnterDown, Its
  <2>3. \A j \in Releases : j > 1 => j - 1 \in Releases' /\ (j - 1) + 1 = j
    <3>1. SUFFICES ASSUME NEW j \in Releases, j > 1 PROVE j - 1 \in Releases' /\ (j - 1) + 1 = j
      OBVIOUS
    <3>2. PICK p \in 1 .. Len(queue') : p + 1 = j /\ p = j - 1
      <4>1. j - 1 \in 1 .. Len(queue') /\ (j - 1) + 1 = j
        BY <2>1, <3>1 DEF Releases
      <4> QED
        BY <4>1
    <3>3. p \in Releases'
      BY <2>1, <3>1, <3>2 DEF Releases
    <3> QED
      BY <3>2, <3>3
  <2>4. ASSUME held'["ENTER"] PROVE EnterDown' # {} \/ Releases' # {}
    <3>1. "ENTER" \in Flags /\ 1 \in 1 .. Len(queue)
      BY <2>1 DEF Flags
    <3>2. CASE FlagAt(1) = "ENTER"
      <4>1. ~ queue[1].up
        BY <1>3, <2>1, <2>4, <3>1, <3>2, ReadByte
      <4> QED
        BY <1>1, <2>2, <2>3, <3>1, <3>2, <4>1
    <3>3. CASE FlagAt(1) # "ENTER"
      <4>1. held["ENTER"] /\ 1 \notin Releases
        BY <1>3, <2>4, <3>1, <3>3, ReadByte DEF Releases
      <4>2. \A j \in Releases : j > 1
        BY <4>1 DEF Releases
      <4> QED
        BY <1>1, <2>2, <2>3, <4>1, <4>2
    <3> QED
      BY <3>2, <3>3
  <2>5. ASSUME NEW i \in 1 .. Len(queue'), FlagAt(i)' = "ENTER", ~ queue'[i].up
        PROVE  EnterDown' # {} \/ \E j \in Releases' : j > i
    <3>1. i + 1 \in 1 .. Len(queue) /\ FlagAt(i + 1) = "ENTER" /\ ~ queue[i + 1].up
      BY <2>1, <2>5
    <3>2. CASE EnterDown # {}
      BY <2>2, <3>2
    <3>3. ASSUME NEW j \in Releases, j > i + 1 PROVE \E p \in Releases' : p > i
      <4>1. j > 1 /\ j - 1 > i
        BY <3>3 DEF Releases
      <4> QED
        BY <2>3, <4>1
    <3> QED
      BY <1>1, <3>1, <3>2, <3>3
  <2> QED
    BY <2>4, <2>5 DEF Released
<1>4. ASSUME NEW k \in Keys, Press(k) \/ Repeat(k) \/ LetGo(k) PROVE Released'
  <2>1. PICK up \in BOOLEAN :
           /\ queue' = queue \o Bytes(k, up)
           /\ up => down' = down \ {k}
           /\ ~ up => down' = down \cup {k}
    <3>1. CASE Press(k) \/ Repeat(k)
      BY <3>1 DEF Press, Repeat, Send
    <3>2. CASE LetGo(k)
      BY <3>2 DEF LetGo, Send
    <3> QED
      BY <1>4, <3>1, <3>2
  <2>2. e0' = e0 /\ held' = held /\ EnterDown' = Its("ENTER") \cap down'
    BY <1>4 DEF Press, Repeat, LetGo, Outside, EnterDown, Its
  <2>3. PICK n : n = Len(queue')
    OBVIOUS
  <2>4. /\ n \in 1 .. n /\ n > Len(queue) /\ FlagAt(n)' = FlagOf(k) /\ queue'[n].up = up
        /\ \A i \in 1 .. Len(queue) : i \in 1 .. n /\ queue'[i] = queue[i] /\ FlagAt(i)' = FlagAt(i)
        /\ \A i \in 1 .. n : i \in 1 .. Len(queue) \/ i = n \/ FlagAt(i)' = "none"
    BY <2>1, <2>2, <2>3, Appended
  <2>5. /\ Releases \subseteq Releases'
        /\ FlagOf(k) = "ENTER" /\ up => \E j \in Releases' : j > Len(queue)
    BY <2>1, <2>2, ReleaseSent
  <2>6. /\ FlagOf(k) # "ENTER" => EnterDown' = EnterDown
        /\ FlagOf(k) = "ENTER" /\ ~ up => EnterDown' # {}
    <3>1. FlagOf(k) = "ENTER" => k \in Its("ENTER")
      BY DEF Its
    <3> QED
      BY <2>1, <2>2, <3>1, EnterKeys
  <2>7. CASE FlagOf(k) = "ENTER" /\ ~ up
    BY <2>6, <2>7 DEF Released
  <2>8. CASE FlagOf(k) = "ENTER" /\ up
    <3>1. PICK j \in Releases' : j > Len(queue)
      BY <2>5, <2>8
    <3>2. \A i \in 1 .. n : FlagAt(i)' = "ENTER" /\ ~ queue'[i].up => i \in 1 .. Len(queue)
      BY <2>4, <2>8
    <3>3. Len(queue) \in Nat /\ j \in Nat
      BY <3>1 DEF KeyTyped, Releases
    <3>4. \A i \in 1 .. n : FlagAt(i)' = "ENTER" /\ ~ queue'[i].up => j > i
      BY <3>1, <3>2, <3>3
    <3> QED
      BY <2>3, <3>1, <3>4 DEF Released
  <2>9. CASE FlagOf(k) # "ENTER"
    <3>1. \A i \in 1 .. n : FlagAt(i)' = "ENTER" => i \in 1 .. Len(queue)
      BY <2>4, <2>9
    <3> QED
      BY <1>1, <2>2, <2>3, <2>4, <2>5, <2>6, <2>9, <3>1 DEF Released
  <2> QED
    BY <2>7, <2>8, <2>9
<1> QED
  BY <1>2, <1>3, <1>4 DEF Next, Loop, Frame, Step, Stepped, Polled, Reboot, Halted, Clock,
     Keyboard, Outside, vars, loopVars

(* A condition counts one or nothing.                                      *)
LEMMA OneIs ==
    ASSUME NEW b \in BOOLEAN
    PROVE  /\ One(b) \in {0, 1}
           /\ b => One(b) = 1
           /\ ~ b => One(b) = 0
BY DEF One

(* Enter seen, held, flagged or on its way never outnumbers the presses.   *)
LEMMA SpentKept ==
    ASSUME KeyTyped, Whole, Released, Spent, [Next]_vars
    PROVE  Spent'
<1>1. /\ entered \in Nat /\ presses.enter \in Nat
      /\ hit["ENTER"] \in BOOLEAN /\ held["ENTER"] \in BOOLEAN
      /\ Cardinality(EnterDown) \in Nat /\ Cardinality(Releases) \in Nat
  BY ReleasesFinite, EnterDownFinite DEF KeyTyped, Flags
<1>2. entered + One(hit["ENTER"]) + Cardinality(EnterDown) + Cardinality(Releases)
         <= presses.enter + One(held["ENTER"])
  BY DEF Spent
<1>3. CASE UNCHANGED <<held, hit, e0, down, queue, presses, entered>>
  BY <1>2, <1>3 DEF Spent, EnterDown, Releases, FlagAt, Prefixed
<1>4. CASE Step
  <2>1. /\ entered' = AtMost(entered + One(hit["ENTER"]), PRESSES + 1)
        /\ hit' = NoFlags /\ UNCHANGED <<held, presses>>
        /\ EnterDown' = EnterDown /\ Releases' = Releases
    BY <1>4 DEF Step, One, EnterDown, Its, Releases, FlagAt, Prefixed
  <2>2. One(hit["ENTER"]) \in {0, 1} /\ One(held["ENTER"]) \in {0, 1} /\ PRESSES + 1 \in Nat
    BY <1>1, OneIs, LoopAssumption
  <2>3. entered' \in Nat /\ entered' <= entered + One(hit["ENTER"])
    BY <1>1, <2>1, <2>2 DEF AtMost
  <2>4. One(hit["ENTER"]') = 0
    BY <2>1 DEF NoFlags, Flags, One
  <2>5. entered' + 0 + Cardinality(EnterDown) + Cardinality(Releases)
           <= presses.enter + One(held["ENTER"])
    BY <1>1, <1>2, <2>2, <2>3
  <2> QED
    BY <2>1, <2>4, <2>5 DEF Spent
<1>5. CASE PollByte
  <2>1. /\ UNCHANGED <<entered, presses>> /\ EnterDown' = EnterDown
    BY <1>5 DEF PollByte, EnterDown, Its
  <2>2. Cardinality(Releases) = Cardinality(Releases') + One(1 \in Releases)
    BY <1>5, ReleaseRead
  <2>3. "ENTER" \in Flags /\ 1 \in 1 .. Len(queue) /\ queue[1].up \in BOOLEAN
    BY <1>5, Shifted DEF Flags, Byte
  <2>4. 1 \in Releases <=> FlagAt(1) = "ENTER" /\ queue[1].up
    BY <2>3 DEF Releases
  <2>5. hit'["ENTER"] \in BOOLEAN /\ held'["ENTER"] \in BOOLEAN
    BY <1>5, <2>3, ReadByte
  <2>6. Cardinality(Releases') \in Nat
    BY <1>5, TypedKept, CountsNext DEF Counted
  <2>7. One(hit'["ENTER"]) + One(held["ENTER"])
           <= One(hit["ENTER"]) + One(held'["ENTER"]) + One(1 \in Releases)
    <3>1. /\ One(hit'["ENTER"]) \in {0, 1} /\ One(held["ENTER"]) \in {0, 1}
          /\ One(hit["ENTER"]) \in {0, 1} /\ One(held'["ENTER"]) \in {0, 1}
          /\ One(1 \in Releases) \in {0, 1}
      BY <1>1, <2>5, OneIs DEF One
    <3>2. CASE FlagAt(1) # "ENTER"
      <4>1. hit'["ENTER"] = hit["ENTER"] /\ held'["ENTER"] = held["ENTER"]
        BY <1>5, <2>3, <3>2, ReadByte
      <4> QED
        BY <3>1, <4>1
    <3>3. CASE FlagAt(1) = "ENTER" /\ queue[1].up
      <4>1. hit'["ENTER"] = (hit["ENTER"] \/ (~ queue[1].up /\ ~ held["ENTER"]))
        BY <1>5, <2>3, <3>3, ReadByte
      <4>2. hit'["ENTER"] <=> hit["ENTER"]
        BY <3>3, <4>1
      <4>3. One(hit'["ENTER"]) = One(hit["ENTER"])
        BY <1>1, <2>5, <4>2, OneIs
      <4>4. One(1 \in Releases) = 1
        BY <2>4, <3>3 DEF One
      <4> QED
        BY <3>1, <4>3, <4>4
    <3>4. CASE FlagAt(1) = "ENTER" /\ ~ queue[1].up
      <4>1. /\ hit'["ENTER"] = (hit["ENTER"] \/ (~ queue[1].up /\ ~ held["ENTER"]))
            /\ held'["ENTER"] = ~ queue[1].up
        BY <1>5, <2>3, <3>4, ReadByte
      <4>2. held'["ENTER"]
        BY <3>4, <4>1
      <4>3. One(held'["ENTER"]) = 1
        BY <2>5, <4>2, OneIs
      <4>4. CASE held["ENTER"]
        <5>1. hit'["ENTER"] <=> hit["ENTER"]
          BY <4>1, <4>4
        <5>2. One(hit'["ENTER"]) = One(hit["ENTER"])
          BY <1>1, <2>5, <5>1, OneIs
        <5> QED
          BY <3>1, <4>3, <5>2
      <4>5. CASE ~ held["ENTER"]
        <5>1. One(held["ENTER"]) = 0
          BY <1>1, <4>5, OneIs
        <5> QED
          BY <3>1, <4>3, <5>1
      <4> QED
        BY <4>4, <4>5
    <3> QED
      BY <3>2, <3>3, <3>4
  <2>8. One(1 \in Releases) \in {0, 1} /\ One(hit'["ENTER"]) \in {0, 1}
        /\ One(held'["ENTER"]) \in {0, 1} /\ One(hit["ENTER"]) \in {0, 1}
        /\ One(held["ENTER"]) \in {0, 1}
    BY <1>1, <2>5, OneIs DEF One
  <2>9. entered + One(hit'["ENTER"]) + Cardinality(EnterDown) + Cardinality(Releases')
           <= presses.enter + One(held'["ENTER"])
    BY <1>1, <1>2, <2>2, <2>6, <2>7, <2>8
  <2> QED
    BY <2>1, <2>9 DEF Spent
<1>6. ASSUME NEW k \in Keys, Press(k) \/ Repeat(k) \/ LetGo(k) PROVE Spent'
  <2>1. UNCHANGED <<hit, held, entered, e0>> /\ EnterDown' = Its("ENTER") \cap down'
    BY <1>6 DEF Press, Repeat, LetGo, Outside, EnterDown, Its
  <2>2. SUFFICES Cardinality(EnterDown') + Cardinality(Releases') - presses'.enter
                    = Cardinality(EnterDown) + Cardinality(Releases) - presses.enter
                 /\ presses'.enter \in Nat
                 /\ Cardinality(EnterDown') \in Nat /\ Cardinality(Releases') \in Nat
    <3>1. One(hit["ENTER"]) \in {0, 1} /\ One(held["ENTER"]) \in {0, 1}
      BY <1>1, OneIs
    <3> QED
      BY <1>1, <1>2, <2>1, <2>2, <3>1 DEF Spent
  <2>3. /\ Cardinality(EnterDown') \in Nat /\ Cardinality(Releases') \in Nat
        /\ presses'.enter \in Nat
    BY TypedKept, CountsNext DEF Counted
  <2>4. CASE Press(k)
    <3>1. queue' = queue \o Bytes(k, FALSE) /\ down' = down \cup {k} /\ k \notin down
          /\ presses'.enter = presses.enter + (IF FlagOf(k) = "ENTER" THEN 1 ELSE 0)
      BY <2>4 DEF Press, Send
    <3>2. Cardinality(Releases') = Cardinality(Releases)
      <4>1. Cardinality(Releases') = Cardinality(Releases) + One(FlagOf(k) = "ENTER" /\ FALSE)
        BY <2>1, <3>1, ReleaseSent
      <4> QED
        BY <1>1, <4>1 DEF One
    <3>3. Cardinality(EnterDown') = Cardinality(EnterDown) + (IF FlagOf(k) = "ENTER" THEN 1 ELSE 0)
      <4>1. CASE FlagOf(k) = "ENTER"
        BY <2>1, <3>1, <4>1, EnterKeys
      <4>2. CASE FlagOf(k) # "ENTER"
        <5>1. EnterDown' = EnterDown
          BY <2>1, <3>1, <4>2, EnterKeys
        <5> QED
          BY <1>1, <4>2, <5>1
      <4> QED
        BY <4>1, <4>2
    <3> QED
      BY <1>1, <2>3, <3>1, <3>2, <3>3
  <2>5. CASE Repeat(k)
    <3>1. queue' = queue \o Bytes(k, FALSE) /\ UNCHANGED <<down, presses>>
      BY <2>5 DEF Repeat, Send
    <3>2. Cardinality(Releases') = Cardinality(Releases)
      <4>1. Cardinality(Releases') = Cardinality(Releases) + One(FlagOf(k) = "ENTER" /\ FALSE)
        BY <2>1, <3>1, ReleaseSent
      <4> QED
        BY <1>1, <4>1 DEF One
    <3>3. EnterDown' = EnterDown
      BY <2>1, <3>1 DEF EnterDown
    <3> QED
      BY <1>1, <2>3, <3>1, <3>2, <3>3
  <2>6. CASE LetGo(k)
    <3>1. queue' = queue \o Bytes(k, TRUE) /\ down' = down \ {k} /\ k \in down /\ presses' = presses
      BY <2>6 DEF LetGo, Send
    <3>2. Cardinality(Releases') = Cardinality(Releases) + (IF FlagOf(k) = "ENTER" THEN 1 ELSE 0)
      BY <1>1, <2>1, <3>1, ReleaseSent DEF One
    <3>3. Cardinality(EnterDown') = Cardinality(EnterDown) - (IF FlagOf(k) = "ENTER" THEN 1 ELSE 0)
      <4>1. CASE FlagOf(k) = "ENTER"
        BY <2>1, <3>1, <4>1, EnterKeys
      <4>2. CASE FlagOf(k) # "ENTER"
        <5>1. EnterDown' = EnterDown
          BY <2>1, <3>1, <4>2, EnterKeys
        <5> QED
          BY <1>1, <4>2, <5>1
      <4> QED
        BY <4>1, <4>2
    <3> QED
      BY <1>1, <2>3, <3>1, <3>2, <3>3, SMTT(30)
  <2> QED
    BY <1>6, <2>3, <2>4, <2>5, <2>6
<1> QED
  BY <1>3, <1>4, <1>5, <1>6 DEF Next, Loop, Frame, Stepped, Polled, Reboot, Halted, Clock,
     Keyboard, Outside, vars, loopVars

-----------------------------------------------------------------------------

KeyInv == KeyTyped /\ Whole /\ ReadsOut /\ Released /\ Spent

(* Nothing is pressed and no byte waits at the start.                      *)
LEMMA InitKeys == Init => KeyInv
<1> SUFFICES ASSUME Init PROVE KeyInv
  OBVIOUS
<1> USE DEF Init, NoFlags
<1>1. KeyTyped
  <2>1. <<>> \in Seq(Byte) /\ [all |-> 0, enter |-> 0] \in [all : Nat, enter : Nat]
    OBVIOUS
  <2>2. NoFlags \in [Flags -> BOOLEAN]
    OBVIOUS
  <2> QED
    BY <2>1, <2>2 DEF KeyTyped
<1>2. Whole
  BY DEF Whole
<1>3. Len(queue) = 0 /\ 1 .. Len(queue) = {}
  OBVIOUS
<1>4. \A f \in Flags : ~ EndsDown(f) /\ Its(f) \cap down = {}
  BY <1>3 DEF EndsDown
<1>5. ReadsOut
  <2>1. SUFFICES ASSUME NEW f \in Flags, Its(f) \subseteq down, Cardinality(Its(f)) = 1 PROVE FALSE
    BY <1>4 DEF ReadsOut
  <2>2. Its(f) = {}
    BY <2>1
  <2> QED
    BY <2>1, <2>2, FS_EmptySet
<1>6. EnterDown = {} /\ Releases = {} /\ ~ held["ENTER"] /\ ~ hit["ENTER"]
  BY <1>3 DEF EnterDown, Releases, Flags
<1>7. Released
  BY <1>3, <1>6 DEF Released
<1>8. Spent
  BY <1>6, FS_EmptySet DEF Spent, One
<1> QED
  BY <1>1, <1>2, <1>5, <1>7, <1>8 DEF KeyInv

(* Every step keeps the invariant of the keyboard.                         *)
LEMMA KeysKept == KeyInv /\ [Next]_vars => KeyInv'
BY TypedKept, ReadsOutKept, ReleasedKept, SpentKept DEF KeyInv

(* A held key on which Enter depends stands for a key or a release: so     *)
(* what was spent is no more than what was pressed.                        *)
LEMMA SpentEnough == KeyInv => EnterOnce
<1> SUFFICES ASSUME KeyInv PROVE EnterOnce
  OBVIOUS
<1>1. KeyTyped /\ Released /\ Spent
  BY DEF KeyInv
<1>2. /\ entered \in Nat /\ presses.enter \in Nat
      /\ hit["ENTER"] \in BOOLEAN /\ held["ENTER"] \in BOOLEAN
      /\ Cardinality(EnterDown) \in Nat /\ Cardinality(Releases) \in Nat
      /\ IsFiniteSet(EnterDown) /\ IsFiniteSet(Releases)
  BY <1>1, ReleasesFinite, EnterDownFinite DEF KeyTyped, Flags
<1>3. One(hit["ENTER"]) \in {0, 1} /\ One(held["ENTER"]) \in {0, 1}
  BY <1>2, OneIs
<1>4. One(held["ENTER"]) <= Cardinality(EnterDown) + Cardinality(Releases)
  <2>1. CASE held["ENTER"]
    <3>1. Cardinality(EnterDown) # 0 \/ Cardinality(Releases) # 0
      BY <1>1, <1>2, <2>1, FS_EmptySet DEF Released
    <3> QED
      BY <1>2, <1>3, <3>1
  <2>2. CASE ~ held["ENTER"]
    BY <1>2, <2>2, OneIs
  <2> QED
    BY <2>1, <2>2
<1> QED
  BY <1>1, <1>2, <1>3, <1>4 DEF Spent, EnterOnce

(* When nothing waits to be read, KEYS says what the keys are: no flag is  *)
(* stuck after its keys are up, and the flag of a lone key is up with it.  *)
THEOREM FlagsFollow == Spec => []FlagsTrue
<1>1. KeyInv => FlagsTrue
  <2>1. SUFFICES ASSUME KeyInv, queue = <<>>, NEW f \in Flags
                 PROVE  /\ Its(f) \cap down = {} => ~ held[f]
                        /\ Its(f) \subseteq down /\ Cardinality(Its(f)) = 1 => held[f]
    BY DEF FlagsTrue, Its
  <2>2. 1 .. Len(queue) = {}
    BY <2>1
  <2>3. EndsDown(f) <=> held[f]
    BY <2>2 DEF EndsDown
  <2> QED
    BY <2>1, <2>3 DEF KeyInv, ReadsOut
<1> QED
  BY <1>1, InitKeys, KeysKept, PTL DEF Spec

(* However a key repeats and whichever of the two Enter keys is down, no   *)
(* more steps see Enter than presses were made.                            *)
THEOREM EnterSpentOnce == Spec => []EnterOnce
BY SpentEnough, InitKeys, KeysKept, PTL DEF Spec

-----------------------------------------------------------------------------
(* The race.                                                               *)

USE KartAssumption

(* Waypoints counted from the start of the lap before the first: the upper *)
(* part of the ranking key.                                                *)
Band(l, w) == l * WAYPOINTS + (IF w = 0 THEN WAYPOINTS ELSE w)
Index(k) == Band(lap[k], wp[k])

-----------------------------------------------------------------------------
(* Arithmetic.                                                             *)

(* Products of naturals keep the order.                                    *)
LEMMA TimesMonotone ==
    ASSUME NEW a \in Nat, NEW b \in Nat, NEW c \in Nat, a <= b
    PROVE  a * c <= b * c /\ a * c \in Nat /\ b * c \in Nat
  <1>1. PICK e \in Nat : b = a + e
    <2>1. b - a \in Nat /\ b = a + (b - a)
      OBVIOUS
    <2>. QED
      BY <2>1
  <1>2. b * c = a * c + e * c
    BY <1>1
  <1>3. e * c \in Nat /\ a * c \in Nat
    OBVIOUS
  <1>. QED
    BY <1>2, <1>3

(* The key of the ranking is a band for lap and waypoint, and a place      *)
(* inside it.                                                              *)
LEMMA KeyBand ==
    ASSUME NEW l \in Nat, NEW w \in 0 .. WAYPOINTS - 1, NEW d \in 0 .. FAR
    PROVE  /\ Band(l, w) \in Nat
           /\ Key(l, w, d) \in Nat
           /\ Band(l, w) * (FAR + 1) \in Nat
           /\ Key(l, w, d) = Band(l, w) * (FAR + 1) + (FAR - d)
  <1>1. Band(l, w) \in Nat
    BY TimesMonotone DEF Band
  <1>2. Band(l, w) * (FAR + 1) \in Nat
    BY <1>1
  <1>3. Key(l, w, d) = Band(l, w) * (FAR + 1) + (FAR - d)
    BY DEF Key, Band
  <1>. QED
    BY <1>1, <1>2, <1>3

(* A higher index is a higher key, whatever the distances.                 *)
LEMMA BandsApart ==
    ASSUME NEW i \in Nat, NEW j \in Nat, i < j
    PROVE  i * (FAR + 1) + FAR < j * (FAR + 1)
  <1>1. (i + 1) * (FAR + 1) <= j * (FAR + 1)
    BY TimesMonotone
  <1>2. (i + 1) * (FAR + 1) = i * (FAR + 1) + FAR + 1
    OBVIOUS
  <1>. QED
    BY <1>1, <1>2

(* The lap that ends the race, told from the index.                        *)
LEMMA IndexOfLaps ==
    ASSUME NEW l \in Nat, NEW w \in 0 .. WAYPOINTS - 1
    PROVE  /\ l < LAPS_DONE => Band(l, w) <= LAPS_DONE * WAYPOINTS
           /\ l >= LAPS_DONE => Band(l, w) > LAPS_DONE * WAYPOINTS
           /\ l >= LAPS_DONE /\ (l > LAPS_DONE \/ w # 1) => Band(l, w) > LAPS_DONE * WAYPOINTS + 1
  <1>1. ASSUME l < LAPS_DONE PROVE l * WAYPOINTS + WAYPOINTS <= LAPS_DONE * WAYPOINTS
    <2>1. (l + 1) * WAYPOINTS <= LAPS_DONE * WAYPOINTS
      BY <1>1, TimesMonotone
    <2>. QED
      BY <2>1
  <1>2. ASSUME l >= LAPS_DONE PROVE l * WAYPOINTS >= LAPS_DONE * WAYPOINTS
    BY <1>2, TimesMonotone
  <1>3. ASSUME l > LAPS_DONE PROVE l * WAYPOINTS >= LAPS_DONE * WAYPOINTS + WAYPOINTS
    <2>1. (LAPS_DONE + 1) * WAYPOINTS <= l * WAYPOINTS
      BY <1>3, TimesMonotone
    <2>. QED
      BY <2>1
  <1>4. l * WAYPOINTS \in Nat /\ LAPS_DONE * WAYPOINTS \in Nat
    BY TimesMonotone
  <1>. QED
    BY <1>1, <1>2, <1>3, <1>4 DEF Band

-----------------------------------------------------------------------------
(* Places.                                                                 *)

(* The karts ahead of one are fewer than all.                              *)
LEMMA AheadFinite ==
    ASSUME NEW keys \in [Karts -> Nat], NEW k \in Karts
    PROVE  /\ IsFiniteSet(Ahead(keys, k))
           /\ Cardinality(Ahead(keys, k)) \in 0 .. Cardinality(Karts) - 1
  <1>1. Ahead(keys, k) \subseteq Karts \ {k}
    BY DEF Ahead
  <1>2. IsFiniteSet(Karts \ {k}) /\ Cardinality(Karts \ {k}) = Cardinality(Karts) - 1
    BY FS_RemoveElement
  <1>3. IsFiniteSet(Ahead(keys, k)) /\ Cardinality(Ahead(keys, k)) <= Cardinality(Karts \ {k})
    BY <1>1, <1>2, FS_Subset
  <1>4. Cardinality(Ahead(keys, k)) \in Nat /\ Cardinality(Karts) \in Nat
    BY <1>3, FS_CardinalityType
  <1>. QED
    BY <1>2, <1>3, <1>4

(* Places are numbers from one to the number of karts.                     *)
LEMMA PlacesType ==
    ASSUME NEW keys \in [Karts -> Nat]
    PROVE  Places(keys) \in [Karts -> 1 .. Cardinality(Karts)]
  <1>1. \A k \in Karts : 1 + Cardinality(Ahead(keys, k)) \in 1 .. Cardinality(Karts)
    BY AheadFinite, FS_CardinalityType
  <1>. QED
    BY <1>1 DEF Places

(* A greater key is a better place.                                        *)
LEMMA PlacesOrdered ==
    ASSUME NEW keys \in [Karts -> Nat], NEW j \in Karts, NEW k \in Karts, keys[j] > keys[k]
    PROVE  Places(keys)[j] < Places(keys)[k]
  <1>1. Ahead(keys, j) \subseteq Ahead(keys, k) /\ j \in Ahead(keys, k) /\ j \notin Ahead(keys, j)
    BY DEF Ahead
  <1>2. IsFiniteSet(Ahead(keys, k)) /\ IsFiniteSet(Ahead(keys, j))
    BY AheadFinite
  <1>3. Cardinality(Ahead(keys, j)) < Cardinality(Ahead(keys, k))
    BY <1>1, <1>2, FS_Subset, FS_CardinalityType
  <1>4. Cardinality(Ahead(keys, j)) \in Nat /\ Cardinality(Ahead(keys, k)) \in Nat
    BY <1>2, FS_CardinalityType
  <1>. QED
    BY <1>3, <1>4 DEF Places

-----------------------------------------------------------------------------
(* The inductive invariant.                                                *)

(* Before the line at the start is crossed it is the next waypoint.        *)
StartLine == \A k \in Karts : lap[k] = 0 => wp[k] = 0

DoneExact == \A k \in Karts : done[k] <=> lap[k] >= LAPS_DONE

TimesPast == \A k \in Karts : done[k] => time[k] <= raceTicks

Fresh == \A k \in Karts : lap[k] = 0 /\ wp[k] = 0

(* Each key lies in the band of its index.                                 *)
Bands == \A k \in Karts :
    /\ Index(k) * (FAR + 1) <= prog[k]
    /\ prog[k] <= Index(k) * (FAR + 1) + FAR

(* After the first step of a race keys and places are those of the karts.  *)
Ranked == Fresh \/ (Bands /\ place = Places(prog))

SceneFacts ==
    /\ scene = "COUNTDOWN" => Fresh /\ count <= 3 * STAGE
    /\ scene = "RACE" => ~ done[Player]
    /\ scene = "FINISH" => done[Player] /\ time[Player] = raceTicks

IInv ==
    /\ TypeOK /\ StartLine /\ DoneExact /\ TimesPast /\ Ranked /\ SceneFacts
    /\ FinishPlace

(* The race's invariant holds on the title screen.                         *)
LEMMA InitIInv == RaceInit => IInv
  <1>. SUFFICES ASSUME RaceInit PROVE IInv
    OBVIOUS
  <1>. USE DEF RaceInit, Zeros, Undone
  <1>1. Cardinality(Karts) \in Nat /\ Cardinality(Karts) # 0
    BY FS_CardinalityType, FS_EmptySet
  <1>2. lap \in [Karts -> Nat] /\ wp \in [Karts -> 0 .. WAYPOINTS - 1] /\ time \in [Karts -> Nat]
    OBVIOUS
  <1>3. place \in [Karts -> 1 .. Cardinality(Karts)] /\ finPlace \in 0 .. Cardinality(Karts)
    BY <1>1 DEF Last
  <1>4. count \in 0 .. 3 * STAGE + 1
    OBVIOUS
  <1>5. TypeOK
    BY <1>2, <1>3, <1>4 DEF TypeOK, Scenes
  <1>6. StartLine /\ DoneExact /\ TimesPast /\ Ranked
    BY DEF StartLine, DoneExact, TimesPast, Ranked, Fresh
  <1>7. SceneFacts /\ FinishPlace
    BY DEF SceneFacts, FinishPlace
  <1>. QED
    BY <1>5, <1>6, <1>7 DEF IInv

(* One step of the race for one kart.                                      *)
KartStep(k, P, dist) ==
    /\ lap[k] \in Nat /\ wp[k] \in 0 .. WAYPOINTS - 1 /\ time[k] \in Nat
    /\ lap'[k] \in Nat /\ wp'[k] \in 0 .. WAYPOINTS - 1
    /\ lap'[k] = IF k \in P /\ wp[k] = 0 THEN lap[k] + 1 ELSE lap[k]
    /\ wp'[k] = IF k \in P THEN Following(wp[k]) ELSE wp[k]
    /\ prog'[k] = Key(lap'[k], wp'[k], IF k \in P THEN FAR ELSE dist[k])
    /\ (done'[k] = TRUE) <=> (done[k] = TRUE \/ Finishes(k, P))
    /\ time'[k] = IF Finishes(k, P) THEN raceTicks' ELSE time[k]

(* What a step of the race does to one kart is the kart's own step.        *)
LEMMA StepOfKart ==
    ASSUME TypeOK, NEW P \in SUBSET Karts, NEW dist \in [Karts \ P -> Distances],
           RaceCommon(P, dist), NEW k \in Karts
    PROVE  KartStep(k, P, dist)
  <1>1. lap[k] \in Nat /\ wp[k] \in 0 .. WAYPOINTS - 1 /\ time[k] \in Nat /\ done[k] \in BOOLEAN
    BY DEF TypeOK
  <1>2. /\ lap'[k] = IF k \in P /\ wp[k] = 0 THEN lap[k] + 1 ELSE lap[k]
        /\ wp'[k] = IF k \in P THEN Following(wp[k]) ELSE wp[k]
        /\ prog'[k] = Key(lap'[k], wp'[k], IF k \in P THEN FAR ELSE dist[k])
        /\ time'[k] = IF Finishes(k, P) THEN raceTicks' ELSE time[k]
        /\ done'[k] = (done[k] \/ Finishes(k, P))
    BY DEF RaceCommon
  <1>3. (done'[k] = TRUE) <=> (done[k] = TRUE \/ Finishes(k, P))
    BY <1>1, <1>2, Zenon
  <1>4. lap'[k] \in Nat /\ wp'[k] \in 0 .. WAYPOINTS - 1
    BY <1>1, <1>2 DEF Following
  <1>. QED
    BY <1>1, <1>2, <1>3, <1>4 DEF KartStep

(* What a step of the race does to the karts, in the race and behind the   *)
(* results.                                                                *)
LEMMA RaceCommonFacts ==
    ASSUME TypeOK, StartLine, DoneExact, TimesPast, raceTicks' \in Nat, raceTicks' >= raceTicks,
           NEW P \in SUBSET Karts, NEW dist \in [Karts \ P -> Distances], RaceCommon(P, dist)
    PROVE  /\ lap' \in [Karts -> Nat] /\ wp' \in [Karts -> 0 .. WAYPOINTS - 1]
           /\ prog' \in [Karts -> Nat] /\ done' \in [Karts -> BOOLEAN]
           /\ time' \in [Karts -> Nat] /\ place' \in [Karts -> 1 .. Cardinality(Karts)]
           /\ StartLine' /\ DoneExact' /\ TimesPast' /\ Bands' /\ place' = Places(prog')
  <1>0. \A k \in Karts : KartStep(k, P, dist)
    BY StepOfKart
  <1>1. lap' \in [Karts -> Nat] /\ wp' \in [Karts -> 0 .. WAYPOINTS - 1]
    <2>1. /\ lap' = [k \in Karts |-> IF k \in P /\ wp[k] = 0 THEN lap[k] + 1 ELSE lap[k]]
          /\ wp' = [k \in Karts |-> IF k \in P THEN Following(wp[k]) ELSE wp[k]]
      BY DEF RaceCommon
    <2>. QED
      BY <2>1, <1>0 DEF KartStep
  <1>2. \A k \in Karts : (IF k \in P THEN FAR ELSE dist[k]) \in 0 .. FAR
    BY DEF Distances
  <1>3. ASSUME NEW k \in Karts
        PROVE  /\ prog'[k] \in Nat
               /\ Index(k)' * (FAR + 1) <= prog'[k]
               /\ prog'[k] <= Index(k)' * (FAR + 1) + FAR
    <2>1. PICK d \in 0 .. FAR : prog'[k] = Key(lap'[k], wp'[k], d)
      BY <1>0, <1>2 DEF KartStep
    <2>2. lap'[k] \in Nat /\ wp'[k] \in 0 .. WAYPOINTS - 1
      BY <1>1
    <2>3. /\ prog'[k] \in Nat /\ Band(lap'[k], wp'[k]) * (FAR + 1) \in Nat
          /\ prog'[k] = Band(lap'[k], wp'[k]) * (FAR + 1) + (FAR - d)
      <3>. DEFINE l == lap'[k]
                  w == wp'[k]
      <3>1. l \in Nat /\ w \in 0 .. WAYPOINTS - 1 /\ prog'[k] = Key(l, w, d)
        BY <2>1, <2>2
      <3>. HIDE DEF l, w
      <3>2. Key(l, w, d) \in Nat /\ Band(l, w) * (FAR + 1) \in Nat
            /\ Key(l, w, d) = Band(l, w) * (FAR + 1) + (FAR - d)
        BY ONLY <3>1, KeyBand
      <3>3. prog'[k] \in Nat /\ Band(l, w) * (FAR + 1) \in Nat
            /\ prog'[k] = Band(l, w) * (FAR + 1) + (FAR - d)
        BY <3>1, <3>2, Zenon
      <3>. QED
        BY <3>3 DEF l, w
    <2>4. Index(k)' = Band(lap'[k], wp'[k])
      BY DEF Index
    <2>. QED
      BY <2>3, <2>4
  <1>4. prog' \in [Karts -> Nat]
    BY <1>3 DEF RaceCommon
  <1>5. Bands'
    BY <1>3 DEF Bands
  <1>6. done' \in [Karts -> BOOLEAN]
    BY DEF RaceCommon, TypeOK
  <1>7. time' \in [Karts -> Nat]
    BY DEF RaceCommon, TypeOK
  <1>8. place' = Places(prog') /\ place' \in [Karts -> 1 .. Cardinality(Karts)]
    BY <1>4, PlacesType DEF RaceCommon
  <1>9. StartLine'
    BY <1>0 DEF StartLine, KartStep
  <1>10. DoneExact'
    BY <1>0 DEF DoneExact, KartStep, Finishes
  <1>11. TimesPast'
    BY <1>0 DEF TimesPast, KartStep, Finishes, TypeOK
  <1>. QED
    BY <1>1, <1>4, <1>5, <1>6, <1>7, <1>8, <1>9, <1>10, <1>11

(* In the step in which the player finishes, the karts ranked before it    *)
(* are those that were done before the step.                               *)
LEMMA AheadAtTheLine ==
    ASSUME TypeOK, StartLine, DoneExact, TimesPast, raceTicks' = raceTicks + 1,
           NEW P \in SUBSET Karts, NEW dist \in [Karts \ P -> Distances], RaceCommon(P, dist),
           ~ done[Player], done'[Player]
    PROVE  /\ Ahead(prog', Player) = {k \in Karts : done'[k] /\ time'[k] < time'[Player]}
           /\ time'[Player] = raceTicks'
  <1>. DEFINE line == LAPS_DONE * WAYPOINTS + 1
  <1>0. \A k \in Karts : KartStep(k, P, dist)
    BY StepOfKart
  <1>1. Finishes(Player, P)
    BY <1>0 DEF KartStep
  <1>2. lap'[Player] = LAPS_DONE /\ wp'[Player] = 1 /\ Player \in P
    BY <1>0, <1>1 DEF KartStep, Finishes, Following
  <1>3. time'[Player] = raceTicks'
    BY <1>0, <1>1 DEF KartStep
  <1>4. line \in Nat /\ line * (FAR + 1) \in Nat
    <2>1. LAPS_DONE * WAYPOINTS \in Nat
      BY TimesMonotone
    <2>. HIDE DEF line
    <2>2. line \in Nat
      BY <2>1 DEF line
    <2>. QED
      BY <2>2
  <1>5. prog'[Player] = line * (FAR + 1)
    <2>1. prog'[Player] = Key(LAPS_DONE, 1, FAR)
      <3>1. KartStep(Player, P, dist)
        BY <1>0
      <3>. QED
        BY <1>2, <3>1 DEF KartStep
    <2>2. Key(LAPS_DONE, 1, FAR) = Band(LAPS_DONE, 1) * (FAR + 1) + (FAR - FAR)
      <3>1. LAPS_DONE \in Nat /\ 1 \in 0 .. WAYPOINTS - 1 /\ FAR \in 0 .. FAR
        OBVIOUS
      <3>. QED
        BY ONLY <3>1, KeyBand
    <2>3. Band(LAPS_DONE, 1) = line
      BY DEF Band
    <2>. QED
      BY <1>4, <2>1, <2>2, <2>3
  <1>6. ASSUME NEW k \in Karts
        PROVE  k \in Ahead(prog', Player) <=> done[k]
    <2>. DEFINE d == IF k \in P THEN FAR ELSE dist[k]
                i == Band(lap'[k], wp'[k])
    <2>0. KartStep(k, P, dist)
      BY <1>0
    <2>1. d \in 0 .. FAR /\ (k \notin P => d < FAR) /\ (k \in P => d = FAR)
      BY DEF Distances
    <2>2. prog'[k] = Key(lap'[k], wp'[k], d)
      BY <2>0 DEF KartStep
    <2>. HIDE DEF d, line
    <2>3. i \in Nat /\ i * (FAR + 1) \in Nat /\ prog'[k] = i * (FAR + 1) + (FAR - d)
      BY <2>0, <2>1, <2>2, KeyBand DEF KartStep
    <2>4. k \in Ahead(prog', Player) <=> i * (FAR + 1) + (FAR - d) > line * (FAR + 1)
      BY <1>5, <2>3 DEF Ahead
    <2>5. CASE done[k] /\ k \in P
      <3>1. lap'[k] >= LAPS_DONE /\ (lap'[k] > LAPS_DONE \/ wp'[k] # 1)
        BY <2>0, <2>5 DEF DoneExact, KartStep, Following
      <3>2. i > line
        BY <2>0, <3>1, IndexOfLaps DEF KartStep, line
      <3>3. line * (FAR + 1) + FAR < i * (FAR + 1)
        BY <1>4, <2>3, <3>2, BandsApart
      <3>. QED
        BY <1>4, <2>1, <2>3, <2>4, <2>5, <3>3
    <2>6. CASE done[k] /\ k \notin P
      <3>1. lap'[k] >= LAPS_DONE
        BY <2>0, <2>6 DEF DoneExact, KartStep
      <3>2. i >= line
        BY <1>4, <2>0, <2>3, <3>1, IndexOfLaps DEF KartStep, line
      <3>3. line * (FAR + 1) <= i * (FAR + 1)
        BY <1>4, <2>3, <3>2, TimesMonotone
      <3>. QED
        BY <1>4, <2>1, <2>3, <2>4, <2>6, <3>3
    <2>7. CASE ~ done[k]
      <3>1. lap'[k] < LAPS_DONE \/ (lap'[k] = LAPS_DONE /\ wp'[k] = 1 /\ k \in P)
        BY <2>0, <2>7 DEF DoneExact, KartStep, Following
      <3>2. CASE lap'[k] < LAPS_DONE
        <4>1. i < line
          BY <1>4, <2>0, <2>3, <3>2, IndexOfLaps DEF KartStep, line
        <4>2. i * (FAR + 1) + FAR < line * (FAR + 1)
          BY <1>4, <2>3, <4>1, BandsApart
        <4>. QED
          BY <1>4, <2>1, <2>3, <2>4, <2>7, <4>2
      <3>3. CASE lap'[k] = LAPS_DONE /\ wp'[k] = 1 /\ k \in P
        <4>1. i = line
          BY <3>3 DEF Band, line
        <4>. QED
          BY <1>4, <2>1, <2>3, <2>4, <2>7, <3>3, <4>1
      <3>. QED
        BY <3>1, <3>2, <3>3
    <2>. QED
      BY <2>5, <2>6, <2>7
  <1>7. ASSUME NEW k \in Karts
        PROVE  done'[k] /\ time'[k] < time'[Player] <=> done[k]
    <2>1. KartStep(k, P, dist) /\ raceTicks \in Nat
      BY <1>0 DEF TypeOK
    <2>2. CASE Finishes(k, P)
      BY <1>3, <2>1, <2>2 DEF Finishes, KartStep
    <2>3. CASE ~ Finishes(k, P)
      BY <1>3, <2>1, <2>3 DEF KartStep, TimesPast
    <2>. QED
      BY <2>2, <2>3
  <1>8. Ahead(prog', Player) \subseteq Karts
    BY DEF Ahead
  <1>. QED
    BY <1>3, <1>6, <1>7, <1>8

-----------------------------------------------------------------------------
(* Every action keeps the invariant.                                       *)

(* The speaker's state keeps its type.                                     *)
LEMMA SoundType ==
    ASSUME TypeOK, NEW beep \in Nat, Sound(beep)
    PROVE  tone' \in Nat /\ speaker' \in BOOLEAN
  <1>1. tone \in Nat /\ speaker \in BOOLEAN
    BY DEF TypeOK
  <1>2. tone' \in Nat
    BY <1>1 DEF Sound
  <1>3. speaker' \in BOOLEAN
    BY <1>1, Zenon DEF Sound
  <1>. QED
    BY <1>2, <1>3

(* The title screen, which resets the race, keeps the invariant.           *)
LEMMA TitleKeeps ==
    ASSUME IInv, NEW enter \in BOOLEAN, Title(enter)
    PROVE  IInv'
  <1>0. TypeOK /\ StartLine /\ DoneExact /\ TimesPast /\ Ranked /\ SceneFacts /\ scene = "TITLE"
    BY DEF IInv, Title
  <1>1. tone' \in Nat /\ speaker' \in BOOLEAN
    BY <1>0, SoundType DEF Title
  <1>2. Cardinality(Karts) \in Nat /\ Cardinality(Karts) # 0
    BY FS_CardinalityType, FS_EmptySet
  <1>3. CASE enter
    <2>0. RaceReset /\ scene' = "COUNTDOWN" /\ UNCHANGED results
      BY <1>3 DEF Title
    <2>1. place' \in [Karts -> 1 .. Cardinality(Karts)]
      BY <1>2, <2>0 DEF RaceReset, Last
    <2>2. TypeOK'
      BY <1>0, <1>1, <2>0, <2>1 DEF TypeOK, RaceReset, Zeros, Undone, Scenes, results
    <2>3. StartLine' /\ DoneExact' /\ TimesPast' /\ Ranked'
      BY <2>0 DEF RaceReset, Zeros, Undone, StartLine, DoneExact, TimesPast, Ranked, Fresh
    <2>4. SceneFacts' /\ FinishPlace'
      BY <2>0 DEF RaceReset, Zeros, SceneFacts, Fresh, FinishPlace
    <2>. QED
      BY <2>2, <2>3, <2>4 DEF IInv
  <1>4. CASE ~ enter
    <2>0. UNCHANGED <<scene, lap, wp, prog, done, time, place, raceTicks, count, finPlace, finishTicks, best>>
      BY <1>4 DEF Title, karts, results
    <2>1. TypeOK'
      BY <1>0, <1>1, <2>0 DEF TypeOK
    <2>2. StartLine' /\ DoneExact' /\ TimesPast' /\ Ranked'
      BY <1>0, <2>0 DEF StartLine, DoneExact, TimesPast, Ranked, Fresh, Bands, Index
    <2>3. SceneFacts' /\ FinishPlace'
      BY <1>0, <2>0 DEF SceneFacts, FinishPlace
    <2>. QED
      BY <2>1, <2>2, <2>3 DEF IInv
  <1>. QED
    BY <1>3, <1>4

(* The countdown keeps the invariant.                                      *)
LEMMA CountdownKeeps ==
    ASSUME IInv, Countdown
    PROVE  IInv'
  <1>0. TypeOK /\ StartLine /\ DoneExact /\ TimesPast /\ Ranked /\ SceneFacts /\ scene = "COUNTDOWN"
    BY DEF IInv, Countdown
  <1>1. UNCHANGED <<lap, wp, prog, done, time, place, raceTicks, finPlace, finishTicks, best>> /\ count' = count + 1
    BY DEF Countdown, karts, results
  <1>2. Fresh /\ count \in Nat /\ count <= 3 * STAGE
    BY <1>0 DEF SceneFacts, TypeOK
  <1>3. /\ tone' \in Nat /\ speaker' \in BOOLEAN
        /\ \/ scene' = "RACE"
           \/ scene' = "COUNTDOWN" /\ count' # 3 * STAGE + 1
    <2>1. CASE count' = 3 * STAGE + 1
      <3>1. scene' = "RACE" /\ Sound(GO_BEEP)
        BY <2>1 DEF Countdown
      <3>. QED
        BY <1>0, <3>1, SoundType
    <2>2. CASE count' # 3 * STAGE + 1 /\ count' \in {1, STAGE + 1, 2 * STAGE + 1}
      <3>1. UNCHANGED scene /\ Sound(LOW_BEEP)
        BY <2>2 DEF Countdown
      <3>. QED
        BY <1>0, <2>2, <3>1, SoundType
    <2>3. CASE count' # 3 * STAGE + 1 /\ count' \notin {1, STAGE + 1, 2 * STAGE + 1}
      <3>1. UNCHANGED scene /\ Sound(0)
        BY <2>3 DEF Countdown
      <3>. QED
        BY <1>0, <2>3, <3>1, SoundType
    <2>. QED
      BY <2>1, <2>2, <2>3
  <1>4. count' \in 0 .. 3 * STAGE + 1 /\ (scene' = "COUNTDOWN" => count' <= 3 * STAGE)
    BY <1>1, <1>2, <1>3
  <1>5. TypeOK'
    BY <1>0, <1>1, <1>3, <1>4 DEF TypeOK, Scenes
  <1>6. Fresh'
    BY <1>1, <1>2 DEF Fresh
  <1>7. StartLine' /\ DoneExact' /\ TimesPast' /\ Ranked'
    BY <1>0, <1>1, <1>6 DEF StartLine, DoneExact, TimesPast, Ranked
  <1>8. ~ done'[Player]
    BY <1>0, <1>1, <1>2 DEF Fresh, DoneExact
  <1>9. SceneFacts' /\ FinishPlace'
    BY <1>3, <1>4, <1>6, <1>8 DEF SceneFacts, FinishPlace
  <1>. QED
    BY <1>5, <1>7, <1>9 DEF IInv

(* A step of the race keeps the invariant.                                 *)
LEMMA RaceKeeps ==
    ASSUME IInv, Race
    PROVE  IInv'
  <1>0. TypeOK /\ StartLine /\ DoneExact /\ TimesPast /\ SceneFacts /\ ~ done[Player]
    BY DEF IInv, Race, SceneFacts
  <1>1. raceTicks' = raceTicks + 1 /\ raceTicks \in Nat /\ UNCHANGED count
    BY <1>0 DEF Race, TypeOK
  <1>2. PICK P \in SUBSET Karts : \E dist \in [Karts \ P -> Distances] : RaceCommon(P, dist)
    BY DEF Race
  <1>3. PICK dist \in [Karts \ P -> Distances] : RaceCommon(P, dist)
    BY <1>2
  <1>4. /\ lap' \in [Karts -> Nat] /\ wp' \in [Karts -> 0 .. WAYPOINTS - 1]
        /\ prog' \in [Karts -> Nat] /\ done' \in [Karts -> BOOLEAN]
        /\ time' \in [Karts -> Nat] /\ place' \in [Karts -> 1 .. Cardinality(Karts)]
        /\ StartLine' /\ DoneExact' /\ TimesPast' /\ Bands' /\ place' = Places(prog')
    <2>1. raceTicks' \in Nat /\ raceTicks' >= raceTicks
      BY <1>1
    <2>. QED
      BY <1>0, <1>3, <2>1, RaceCommonFacts
  <1>5. Ranked'
    BY <1>4 DEF Ranked
  <1>6. CASE done'[Player]
    <2>1. /\ scene' = "FINISH" /\ finPlace' = place'[Player] /\ finishTicks' = time'[Player]
          /\ Record /\ Sound(FINISH_BEEP)
      BY <1>6 DEF Race
    <2>2. tone' \in Nat /\ speaker' \in BOOLEAN
      BY <1>0, <2>1, SoundType
    <2>3. best' \in Nat
      BY <1>0, <1>4, <2>1 DEF Record, TypeOK
    <2>4. finPlace' \in 0 .. Cardinality(Karts)
      BY <1>4, <2>1, FS_CardinalityType
    <2>5. TypeOK'
      BY <1>0, <1>1, <1>4, <2>1, <2>2, <2>3, <2>4 DEF TypeOK, Scenes
    <2>6. /\ Ahead(prog', Player) = {k \in Karts : done'[k] /\ time'[k] < time'[Player]}
          /\ time'[Player] = raceTicks'
      BY <1>0, <1>1, <1>3, <1>6, AheadAtTheLine
    <2>7. SceneFacts'
      BY <1>6, <2>1, <2>6 DEF SceneFacts
    <2>8. FinishPlace'
      BY <1>4, <2>1, <2>6 DEF FinishPlace, Places
    <2>. QED
      BY <1>4, <1>5, <2>5, <2>7, <2>8 DEF IInv
  <1>7. CASE ~ done'[Player]
    <2>1. scene' = "RACE" /\ UNCHANGED results /\ Sound(0)
      BY <1>7 DEF Race
    <2>2. tone' \in Nat /\ speaker' \in BOOLEAN
      BY <1>0, <2>1, SoundType
    <2>3. TypeOK'
      BY <1>0, <1>1, <1>4, <2>1, <2>2 DEF TypeOK, Scenes, results
    <2>4. SceneFacts' /\ FinishPlace'
      BY <1>7, <2>1 DEF SceneFacts, FinishPlace
    <2>. QED
      BY <1>4, <1>5, <2>3, <2>4 DEF IInv
  <1>. QED
    BY <1>6, <1>7

(* The results screen keeps the invariant.                                 *)
LEMMA FinishKeeps ==
    ASSUME IInv, NEW enter \in BOOLEAN, Finish(enter)
    PROVE  IInv'
  <1>0. /\ TypeOK /\ StartLine /\ DoneExact /\ TimesPast /\ FinishPlace
        /\ scene = "FINISH" /\ done[Player] /\ time[Player] = raceTicks
    BY DEF IInv, Finish, SceneFacts
  <1>1. PICK P \in SUBSET Karts : \E dist \in [Karts \ P -> Distances] :
          UNCHANGED raceTicks /\ RaceCommon(P, dist)
    BY DEF Finish
  <1>2. PICK dist \in [Karts \ P -> Distances] : UNCHANGED raceTicks /\ RaceCommon(P, dist)
    BY <1>1
  <1>3. raceTicks \in Nat /\ UNCHANGED <<raceTicks, count, finPlace, finishTicks, best>>
    BY <1>0, <1>2 DEF Finish, TypeOK, results
  <1>4. /\ lap' \in [Karts -> Nat] /\ wp' \in [Karts -> 0 .. WAYPOINTS - 1]
        /\ prog' \in [Karts -> Nat] /\ done' \in [Karts -> BOOLEAN]
        /\ time' \in [Karts -> Nat] /\ place' \in [Karts -> 1 .. Cardinality(Karts)]
        /\ StartLine' /\ DoneExact' /\ TimesPast' /\ Bands' /\ place' = Places(prog')
    <2>1. raceTicks' \in Nat /\ raceTicks' >= raceTicks
      BY <1>3
    <2>. QED
      BY <1>0, <1>2, <2>1, RaceCommonFacts
  <1>5. tone' \in Nat /\ speaker' \in BOOLEAN
    BY <1>0, SoundType DEF Finish
  <1>6. scene' \in {"TITLE", "FINISH"}
    BY <1>0 DEF Finish
  <1>7. TypeOK'
    BY <1>0, <1>3, <1>4, <1>5, <1>6 DEF TypeOK, Scenes
  <1>8. Ranked'
    BY <1>4 DEF Ranked
  <1>9. \A k \in Karts : KartStep(k, P, dist)
    BY <1>0, <1>2, StepOfKart
  <1>10. done'[Player] /\ time'[Player] = raceTicks'
    BY <1>0, <1>3, <1>9 DEF KartStep, Finishes
  <1>11. SceneFacts'
    BY <1>6, <1>10 DEF SceneFacts
  <1>12. ASSUME NEW k \in Karts
         PROVE  done'[k] /\ time'[k] < time'[Player] <=> done[k] /\ time[k] < time[Player]
    <2>1. KartStep(k, P, dist)
      BY <1>9
    <2>2. CASE Finishes(k, P)
      BY <1>0, <1>3, <1>10, <2>1, <2>2 DEF Finishes, KartStep
    <2>3. CASE ~ Finishes(k, P)
      BY <1>0, <1>3, <1>10, <2>1, <2>3 DEF KartStep
    <2>. QED
      BY <2>2, <2>3
  <1>13. {k \in Karts : done'[k] /\ time'[k] < time'[Player]}
            = {k \in Karts : done[k] /\ time[k] < time[Player]}
    BY <1>12
  <1>14. FinishPlace'
    BY <1>0, <1>3, <1>13 DEF FinishPlace
  <1>. QED
    BY <1>4, <1>7, <1>8, <1>11, <1>14 DEF IInv

(* Nothing changes, the invariant stays.                                   *)
LEMMA StutterKeeps ==
    ASSUME IInv, UNCHANGED raceVars
    PROVE  IInv'
  BY DEF IInv, raceVars, karts, results, TypeOK, StartLine, DoneExact, TimesPast, Ranked,
         Fresh, Bands, Index, SceneFacts, FinishPlace

(* In every reachable state of the race.                                   *)
THEOREM Invariant == RaceSpec => []IInv
  <1>1. IInv /\ [RaceNext]_raceVars => IInv'
    <2>. SUFFICES ASSUME IInv, [RaceNext]_raceVars PROVE IInv'
      OBVIOUS
    <2>1. CASE UNCHANGED raceVars
      BY <2>1, StutterKeeps
    <2>2. ASSUME NEW enter \in BOOLEAN, Tick(enter) PROVE IInv'
      BY <2>2, TitleKeeps, CountdownKeeps, RaceKeeps, FinishKeeps DEF Tick
    <2>. QED
      BY <2>1, <2>2 DEF RaceNext
  <1>. QED
    BY <1>1, InitIInv, PTL DEF RaceSpec

-----------------------------------------------------------------------------
(* What it says to a reader.                                               *)

(* Laps, waypoints, places and counters stay in their ranges: the waypoint *)
(* indexes the track's table, the place is one of the karts' number.       *)
THEOREM Typed == RaceSpec => []TypeOK
  <1>1. IInv => TypeOK
    BY DEF IInv
  <1>. QED
    BY <1>1, Invariant, PTL

(* A kart's index counts the waypoints it has passed, one lap ahead.       *)
LEMMA PassedFromIndex ==
    ASSUME TypeOK, StartLine, NEW k \in Karts
    PROVE  Passed(k) = Index(k) - WAYPOINTS /\ Index(k) \in Nat
  <1>1. lap[k] \in Nat /\ wp[k] \in 0 .. WAYPOINTS - 1 /\ (lap[k] = 0 => wp[k] = 0)
    BY DEF TypeOK, StartLine
  <1>. DEFINE l == lap[k]
              w == IF wp[k] = 0 THEN WAYPOINTS ELSE wp[k]
              whole == l * WAYPOINTS
  <1>2. whole \in Nat /\ w \in Nat /\ (l = 0 => w = WAYPOINTS /\ whole = 0)
    BY <1>1, TimesMonotone
  <1>3. (l - 1) * WAYPOINTS = whole - WAYPOINTS
    <2>1. l \in Nat
      BY <1>1
    <2>. HIDE DEF l
    <2>. QED
      BY <2>1
  <1>4. Passed(k) = IF l = 0 THEN 0 ELSE (l - 1) * WAYPOINTS + w
    BY DEF Passed
  <1>5. Index(k) = whole + w
    BY DEF Index, Band
  <1>. HIDE DEF whole, w
  <1>6. Index(k) \in Nat
    BY <1>2, <1>5
  <1>7. Passed(k) = Index(k) - WAYPOINTS
    BY <1>2, <1>3, <1>4, <1>5
  <1>. QED
    BY <1>6, <1>7

(* Whoever has passed more waypoints is placed before whoever has passed   *)
(* fewer, for any resolution of the distance and any number of karts.      *)
THEOREM RankingFollowsWaypoints == RaceSpec => []MoreWaypointsAhead
  <1>1. IInv => MoreWaypointsAhead
    <2>. SUFFICES ASSUME IInv, NEW j \in Karts, NEW k \in Karts, Passed(j) > Passed(k)
                  PROVE  place[j] < place[k]
      BY DEF MoreWaypointsAhead
    <2>1. TypeOK /\ StartLine /\ Ranked
      BY DEF IInv
    <2>2. Index(j) \in Nat /\ Index(k) \in Nat /\ Index(j) > Index(k)
      BY <2>1, PassedFromIndex
    <2>3. ~ Fresh
      BY <2>2 DEF Fresh, Index
    <2>4. Bands /\ place = Places(prog) /\ prog \in [Karts -> Nat]
      BY <2>1, <2>3 DEF Ranked, TypeOK
    <2>5. Index(k) * (FAR + 1) + FAR < Index(j) * (FAR + 1)
      BY <2>2, BandsApart
    <2>6. Index(k) * (FAR + 1) \in Nat /\ Index(j) * (FAR + 1) \in Nat
      BY <2>2
    <2>7. prog[j] > prog[k]
      <3>1. /\ Index(j) * (FAR + 1) <= prog[j]
            /\ prog[k] <= Index(k) * (FAR + 1) + FAR
            /\ prog[j] \in Nat /\ prog[k] \in Nat
        BY <2>4 DEF Bands
      <3>. QED
        BY <2>5, <2>6, <3>1
    <2>. QED
      BY <2>4, <2>7, PlacesOrdered
  <1>. QED
    BY <1>1, Invariant, PTL

(* The place shown with the results is the one at the line.                *)
THEOREM PlaceAtTheLine == RaceSpec => []FinishPlace
  <1>1. IInv => FinishPlace
    BY DEF IInv
  <1>. QED
    BY <1>1, Invariant, PTL

(* A kart is done exactly when it has driven its laps, and the race ends   *)
(* with the player's.                                                      *)
THEOREM LapsCounted == RaceSpec => []DoneAfterLaps
  <1>1. IInv => DoneAfterLaps
    <2>. SUFFICES ASSUME IInv PROVE DoneAfterLaps
      OBVIOUS
    <2>0. TypeOK /\ StartLine /\ DoneExact /\ SceneFacts
      BY DEF IInv
    <2>1. ASSUME NEW k \in Karts
          PROVE  done[k] <=> Passed(k) > (LAPS_DONE - 1) * WAYPOINTS
      <3>1. lap[k] \in Nat /\ wp[k] \in 0 .. WAYPOINTS - 1 /\ (done[k] <=> lap[k] >= LAPS_DONE)
        BY <2>0 DEF TypeOK, DoneExact
      <3>2. Passed(k) = Index(k) - WAYPOINTS /\ Index(k) \in Nat
        BY <2>0, PassedFromIndex
      <3>3. (LAPS_DONE - 1) * WAYPOINTS = LAPS_DONE * WAYPOINTS - WAYPOINTS
        OBVIOUS
      <3>4. LAPS_DONE * WAYPOINTS \in Nat
        BY TimesMonotone
      <3>5. Index(k) > LAPS_DONE * WAYPOINTS <=> lap[k] >= LAPS_DONE
        BY <3>1, <3>2, <3>4, IndexOfLaps DEF Index
      <3>. QED
        BY <3>1, <3>2, <3>3, <3>4, <3>5
    <2>2. (scene = "RACE" => ~ done[Player]) /\ (scene = "FINISH" => done[Player])
      BY <2>0 DEF SceneFacts
    <2>. QED
      BY <2>1, <2>2 DEF DoneAfterLaps
  <1>. QED
    BY <1>1, Invariant, PTL
-----------------------------------------------------------------------------
(* The race inside the main loop.                                          *)

(* Every step of the loop is a step of the race with what Enter was, or    *)
(* leaves the race alone, or silences the machine as it leaves.            *)
LEMMA RaceInLoop == IInv /\ KeyInv /\ [Next]_vars => IInv'
<1> SUFFICES ASSUME IInv, KeyInv, [Next]_vars PROVE IInv'
  OBVIOUS
<1>1. CASE UNCHANGED raceVars
  BY <1>1, StutterKeeps
<1>2. CASE Step
  <2>1. hit["ENTER"] \in BOOLEAN /\ Tick(hit["ENTER"])
    BY <1>2 DEF Step, KeyInv, KeyTyped, Flags
  <2> QED
    BY <2>1, TitleKeeps, CountdownKeeps, RaceKeeps, FinishKeeps DEF Tick
<1>3. CASE Reboot
  <2>1. speaker' = FALSE /\ UNCHANGED <<scene, count, raceTicks, karts, results, tone>>
    BY <1>3 DEF Reboot
  <2> QED
    BY <2>1 DEF IInv, karts, results, TypeOK, StartLine, DoneExact, TimesPast, Ranked,
       Fresh, Bands, Index, SceneFacts, FinishPlace
<1> QED
  BY <1>1, <1>2, <1>3 DEF Next, Loop, Frame, Stepped, PollByte, Polled, Halted, Clock,
     Press, Repeat, LetGo, Outside, vars

(* In the game, too, whatever is pressed and however time goes by, the     *)
(* place shown with the results is the one at the line.                    *)
THEOREM PlaceInTheGame == Spec => []FinishPlace
<1>1. Init => IInv /\ KeyInv
  BY InitIInv, InitKeys DEF Init
<1>2. IInv => FinishPlace
  BY DEF IInv
<1> QED
  BY <1>1, <1>2, RaceInLoop, KeysKept, PTL DEF Spec

-----------------------------------------------------------------------------
(* The picture.  Once the geometry is set, screen belongs to the mode the  *)
(* machine is in, and no call before the kernel owns it changes either.    *)

ScaleOf(m) == IF m.width >= 640 /\ m.height >= 400 THEN 2 ELSE 1
Geometric(m) ==
    [width |-> m.width, height |-> m.height, rowbytes |-> 4 * m.stride, scale |-> ScaleOf(m),
     origin |-> ((m.height - 200 * ScaleOf(m)) \div 2) * 4 * m.stride
                + ((m.width - 320 * ScaleOf(m)) \div 2) * 4]

BootInv ==
    /\ mode \in DOMAIN Modes
    /\ chosen \in {Boot!None} \cup DOMAIN Modes
    /\ next \in Nat \ {0}
    /\ stage \in {"map", "exit", "owned"} => screen = Geometric(Modes[mode])

(* What the assumption says of a mode.                                     *)
LEMMA ModesTyped ==
    ASSUME NEW m \in DOMAIN Modes
    PROVE  /\ Modes[m].width \in Nat /\ Modes[m].height \in Nat /\ Modes[m].stride \in Nat
           /\ 320 <= Modes[m].width /\ Modes[m].width <= Modes[m].stride /\ 200 <= Modes[m].height
  <1>. DEFINE Shape == [width : Nat, height : Nat, format : Nat, stride : Nat]
  <1>1. Modes \in Seq(Shape)
    BY BootAssumption DEF Boot!BootAssumption
  <1>. HIDE DEF Shape
  <1>2. Modes[m] \in Shape
    BY <1>1, ElementOfSeq
  <1>3. Modes[m].width \in Nat /\ Modes[m].height \in Nat /\ Modes[m].stride \in Nat
    BY <1>2 DEF Shape
  <1>. QED
    BY <1>3, BootAssumption DEF Boot!BootAssumption, Boot!PICTURE_W, Boot!PICTURE_H

(* Every step of the boot keeps what is known of the mode and the picture. *)
LEMMA BootStep == BootInv /\ Boot!Next => BootInv'
  <1>. SUFFICES ASSUME BootInv, Boot!Next PROVE BootInv'
    OBVIOUS
  <1>1. DOMAIN Modes = 1 .. Len(Modes) /\ Len(Modes) \in Nat
    BY BootAssumption DEF Boot!BootAssumption
  <1>2. CASE Boot!Query
    BY <1>1, <1>2 DEF BootInv, Boot!Query, Geometric
  <1>3. CASE Boot!SetMode
    BY <1>1, <1>3 DEF BootInv, Boot!SetMode, Boot!None
  <1>4. CASE Boot!Geometry
    BY <1>4 DEF BootInv, Boot!Geometry, Boot!Scale, Boot!PICTURE_W, Boot!PICTURE_H, Geometric, ScaleOf
  <1>5. ASSUME NEW label \in {"allocate", "locate"}, NEW then \in {"locate", "query"}, NEW c,
               Boot!Acquire(label, then, c)
        PROVE  BootInv'
    BY <1>5 DEF BootInv, Boot!Acquire, Boot!Fail
  <1>6. CASE Boot!GetMemoryMap \/ Boot!ExitBootServices \/ Boot!MapChanges \/ Boot!Done
    BY <1>6 DEF BootInv, Boot!GetMemoryMap, Boot!ExitBootServices, Boot!MapChanges, Boot!Done, Boot!Fail, Boot!vars
  <1>. QED
    BY <1>2, <1>3, <1>4, <1>5, <1>6 DEF Boot!Next

(* A row and a column below it, taken apart again.                         *)
LEMMA Division ==
    ASSUME NEW d \in Nat \ {0}, NEW q \in Nat, NEW r \in Nat, r < d
    PROVE  (q * d + r) \div d = q /\ (q * d + r) % d = r
  OBVIOUS

(* Half of what is left over, and the picture behind it, is no more than   *)
(* the whole.                                                              *)
LEMMA Halves ==
    ASSUME NEW n \in Nat, NEW k \in Nat, k <= n
    PROVE  (n - k) \div 2 \in Nat /\ (n - k) \div 2 + k <= n
  OBVIOUS

(* Byte dx, dy of pixel (x, y) of a picture of geometry g, in mode m.      *)
Inside(m, g, x, y, dx, dy) ==
    LET byte == g.origin + (y * g.scale + dy) * g.rowbytes + (x * g.scale + dx) * 4 IN
    byte >= 0 /\ byte \div g.rowbytes < m.height /\ (byte % g.rowbytes) \div 4 < m.width

(* The boot's invariant puts the picture inside the screen.                *)
LEMMA BootInside == BootInv => Boot!PictureInside
  <1>. SUFFICES ASSUME BootInv, stage \in {"map", "exit", "owned"},
                       NEW x \in {0, 319}, NEW y \in {0, 199},
                       NEW dx \in 0 .. screen.scale - 1, NEW dy \in 0 .. screen.scale - 1
                PROVE  Inside(Modes[mode], screen, x, y, dx, dy)
    BY DEF Inside, Boot!Pixel, Boot!PictureInside, Boot!Corners, Boot!PICTURE_W, Boot!PICTURE_H
  <1>1. PICK m, g : m \in DOMAIN Modes /\ m = mode /\ g = screen /\ g = Geometric(Modes[m])
    BY DEF BootInv
  <1>2. x \in 0 .. 319 /\ y \in 0 .. 199
    OBVIOUS
  <1>3. PICK s \in {1, 2} : s = g.scale
    BY <1>1 DEF Geometric, ScaleOf
  <1>4. dx \in 0 .. s - 1 /\ dy \in 0 .. s - 1
    BY <1>1, <1>3
  <1>. DEFINE w == Modes[m].width
              h == Modes[m].height
              st == Modes[m].stride
              top == (h - 200 * s) \div 2
              left == (w - 320 * s) \div 2
              byte == g.origin + (y * g.scale + dy) * g.rowbytes + (x * g.scale + dx) * 4
  <1>5. /\ w \in Nat /\ h \in Nat /\ st \in Nat /\ w <= st /\ 320 <= w /\ 200 <= h
    BY <1>1, ModesTyped
  <1>6. s = ScaleOf(Modes[m]) /\ 320 * s <= w /\ 200 * s <= h
    BY <1>1, <1>3, <1>5 DEF ScaleOf, Geometric
  <1>7. /\ g.rowbytes = 4 * st
        /\ g.origin = top * 4 * st + left * 4
    BY <1>1, <1>6 DEF Geometric
  <1>8. byte = g.origin + (y * s + dy) * g.rowbytes + (x * s + dx) * 4
    BY <1>3 DEF byte
  <1>. HIDE DEF w, h, st, byte
  <1>. DEFINE row == top + (y * s + dy)
              column == left + (x * s + dx)
  <1>9. top \in Nat /\ top + 200 * s <= h /\ left \in Nat /\ left + 320 * s <= w
    BY <1>5, <1>6, Halves
  <1>. HIDE DEF top, left
  <1>10. y * s + dy \in Nat /\ y * s + dy < 200 * s /\ x * s + dx \in Nat /\ x * s + dx < 320 * s
    <2>1. CASE s = 1
      BY <1>2, <1>4, <2>1
    <2>2. CASE s = 2
      BY <1>2, <1>4, <2>2
    <2>. QED
      BY <2>1, <2>2
  <1>11. row \in Nat /\ row < h /\ column \in Nat /\ column < w
    <2>1. CASE s = 1
      BY <1>5, <1>9, <1>10, <2>1
    <2>2. CASE s = 2
      BY <1>5, <1>9, <1>10, <2>2
    <2>. QED
      BY <2>1, <2>2
  <1>12. byte = row * (4 * st) + 4 * column
    <2>. DEFINE b == y * s + dy
                a == x * s + dx
    <2>1. a \in Nat /\ b \in Nat
      BY <1>10
    <2>. HIDE DEF a, b
    <2>2. byte = top * 4 * st + left * 4 + b * (4 * st) + a * 4
      BY <1>7, <1>8 DEF a, b
    <2>3. top * 4 * st + left * 4 + b * (4 * st) + a * 4 = (top + b) * (4 * st) + 4 * (left + a)
      BY <1>5, <1>9, <2>1
    <2>. QED
      BY <2>2, <2>3 DEF a, b
  <1>. HIDE DEF row, column
  <1>13. 4 * st \in Nat \ {0} /\ 4 * column \in Nat /\ 4 * column < 4 * st
    BY <1>5, <1>11
  <1>14. byte \div (4 * st) = row /\ byte % (4 * st) = 4 * column
    <2>. DEFINE d == 4 * st
                r == 4 * column
    <2>1. d \in Nat \ {0} /\ r \in Nat /\ r < d /\ byte = row * d + r
      BY <1>12, <1>13
    <2>. HIDE DEF d, r
    <2>2. byte \div d = row /\ byte % d = r
      BY <1>11, <2>1, Division
    <2>. QED
      BY <2>2 DEF d, r
  <1>15. (4 * column) \div 4 = column
    BY <1>11
  <1>16. row * (4 * st) \in Nat
    BY <1>11, <1>13
  <1>17. byte >= 0
    BY <1>12, <1>13, <1>16
  <1>18. Inside(Modes[m], g, x, y, dx, dy)
    BY <1>7, <1>11, <1>14, <1>15, <1>17 DEF Inside, w, h, byte
  <1>. QED
    BY <1>1, <1>18

(* In whatever mode of whatever machine the kernel is left, and whatever   *)
(* calls fail, what present writes is in the framebuffer.                  *)
THEOREM PictureFits == MCSpec => []PictureInside
  <1>1. MCInit => BootInv
    BY DEF MCInit, Boot!Init, BootInv, Boot!None
  <1>2. BootInv /\ [MCNext]_MCVars => BootInv'
    <2>. SUFFICES ASSUME BootInv, [MCNext]_MCVars PROVE BootInv'
      OBVIOUS
    <2>1. CASE Boot!Next
      BY <2>1, BootStep
    <2>2. CASE UNCHANGED bootVars
      BY <2>2 DEF bootVars, BootInv, Geometric
    <2>. QED
      BY <2>1, <2>2 DEF MCNext, MCVars
  <1>3. BootInv => PictureInside
    BY BootInside DEF PictureInside
  <1>. QED
    BY <1>1, <1>2, <1>3, PTL DEF MCSpec
=============================================================================
