------------------------------ MODULE KartLoop ------------------------------
(***************************************************************************)
(* The main loop of Nexora Kart (game_main in game.ntasm) over the race:   *)
(* fixed steps paid for by the clock, one poll of the keyboard for each    *)
(* frame (keyboard_poll in kernel.ntasm), Escape to leave.  The clock and  *)
(* the person at the keyboard act at any moment; a key sends the bytes of  *)
(* scan code set 1, some after the prefix E0, and repeats while it is      *)
(* down.                                                                   *)
(***************************************************************************)
EXTENDS KartRace, Sequences

CONSTANTS
    Keys,     \* the keys of this keyboard: a subset of DOMAIN ScanCode
    RATE,     \* 60 steps a second, so 60 units of G_ACC a millisecond
    STEP,     \* 1000 units for a step
    CAP,      \* 100 ms: a longer frame counts as this
    LIMIT,    \* 8 steps a frame
    POLL,     \* 64 bytes a poll
    Delays,   \* how many milliseconds may go by at once
    QUEUE,    \* bound: bytes a keyboard holds back
    PRESSES   \* bound: keys pressed in a run

(* The numbers of the game: a frame that counts as 100 ms, and what is     *)
(* left of the one before, make up no more steps than a frame may take.    *)
ASSUME LoopAssumption ==
    /\ {RATE, STEP, CAP, LIMIT, POLL, QUEUE} \subseteq Nat \ {0}
    /\ CAP * RATE <= (LIMIT - 1) * STEP
    /\ Delays \subseteq Nat \ {0}
    /\ PRESSES \in Nat

VARIABLES
    pc,           \* where the loop is
    acc, steps,   \* G_ACC, G_STEPS
    elapsed,      \* milliseconds since G_LAST, CAP + 1 when more than CAP
    held, hit,    \* KEYS, KEYS_HIT
    e0,           \* S_E0
    polled,       \* bytes of this poll
    down, queue,  \* the keys that are down, bytes the kernel has not read
    presses,      \* history: how often keys were pressed, and Enter keys
    entered,      \* history: steps that saw Enter
    lag           \* history: units the clock has paid for, less STEP a step

loopVars == <<pc, acc, steps, elapsed, held, hit, e0, polled, down, queue, presses, entered, lag>>
vars == <<raceVars, loopVars>>

(* Some keys and what they send: both Enter keys, Escape, D, and the key   *)
(* that mutes the sound, which differs from D by the prefix only.          *)
ScanCode ==
    [enter |-> [extended |-> FALSE, code |-> "1C"], keypad |-> [extended |-> TRUE, code |-> "1C"],
     escape |-> [extended |-> FALSE, code |-> "01"],
     d |-> [extended |-> FALSE, code |-> "20"], mute |-> [extended |-> TRUE, code |-> "20"]]

ASSUME KeysAssumption == Keys \subseteq DOMAIN ScanCode

Flags == {"ENTER", "ESC", "RIGHT"}

(* keymap, which gen_assets.py makes: the flag of a scan code, if any.     *)
Keymap(extended, code) ==
    CASE code = "1C" -> "ENTER"
      [] code = "01" /\ ~ extended -> "ESC"
      [] code = "20" /\ ~ extended -> "RIGHT"
      [] OTHER -> "none"

FlagOf(k) == Keymap(ScanCode[k].extended, ScanCode[k].code)

NoFlags == [f \in Flags |-> FALSE]

Init ==
    /\ RaceInit
    /\ pc = "frame" /\ acc = 0 /\ steps = 0 /\ elapsed = 0
    /\ held = NoFlags /\ hit = NoFlags /\ e0 = FALSE /\ polled = 0
    /\ down = {} /\ queue = <<>>
    /\ presses = [all |-> 0, enter |-> 0] /\ entered = 0 /\ lag = 0

-----------------------------------------------------------------------------
(* The world outside the kernel.                                           *)

Bytes(k, up) ==
    (IF ScanCode[k].extended THEN <<[code |-> "E0", up |-> FALSE]>> ELSE <<>>)
    \o <<[code |-> ScanCode[k].code, up |-> up]>>

Send(bytes) == Len(queue \o bytes) <= QUEUE /\ queue' = queue \o bytes

Outside == <<raceVars, pc, acc, steps, held, hit, e0, polled, entered, lag>>

Press(k) ==
    /\ k \notin down /\ presses.all < PRESSES
    /\ down' = down \cup {k}
    /\ presses' = [all |-> presses.all + 1,
                   enter |-> presses.enter + (IF FlagOf(k) = "ENTER" THEN 1 ELSE 0)]
    /\ Send(Bytes(k, FALSE))
    /\ UNCHANGED <<Outside, elapsed>>

Repeat(k) ==
    /\ k \in down
    /\ Send(Bytes(k, FALSE))
    /\ UNCHANGED <<Outside, elapsed, down, presses>>

LetGo(k) ==
    /\ k \in down
    /\ down' = down \ {k}
    /\ Send(Bytes(k, TRUE))
    /\ UNCHANGED <<Outside, elapsed, presses>>

Clock ==
    /\ elapsed <= CAP
    /\ \E ms \in Delays : elapsed' = IF elapsed + ms > CAP THEN CAP + 1 ELSE elapsed + ms
    /\ UNCHANGED <<Outside, down, queue, presses>>

-----------------------------------------------------------------------------
(* The loop.                                                               *)

Keyboard == <<held, hit, e0, polled, down, queue, presses>>

AtMost(n, bound) == IF n > bound THEN bound ELSE n

(* Mutant: a frame keeps no more than what was hit in its own poll.        *)
Frame_ForgetsHits ==
    /\ pc = "frame"
    /\ acc' = acc + AtMost(elapsed, CAP) * RATE
    /\ lag' = lag + AtMost(elapsed, CAP) * RATE
    /\ elapsed' = 0
    /\ steps' = 0
    /\ pc' = "step"
    /\ hit' = IF acc + elapsed * RATE < STEP THEN NoFlags ELSE hit
    /\ UNCHANGED <<raceVars, held, e0, polled, down, queue, presses, entered>>

(* The head of a frame: what the clock says, at most CAP of it.            *)
Frame ==
    /\ pc = "frame"
    /\ acc' = acc + AtMost(elapsed, CAP) * RATE
    /\ lag' = lag + AtMost(elapsed, CAP) * RATE
    /\ elapsed' = 0
    /\ steps' = 0
    /\ pc' = "step"
    /\ UNCHANGED <<raceVars, Keyboard, entered>>

(* Mutant: after three steps the rest of the frame is given up.            *)
Step_ThreeAtMost ==
    /\ pc = "step" /\ acc >= STEP
    /\ Tick(hit["ENTER"])
    /\ entered' = AtMost(entered + (IF hit["ENTER"] THEN 1 ELSE 0), PRESSES + 1)
    /\ hit' = NoFlags
    /\ steps' = steps + 1
    /\ lag' = lag - STEP
    /\ IF steps' < 3
       THEN acc' = acc - STEP /\ UNCHANGED pc
       ELSE acc' = 0 /\ pc' = "poll"
    /\ polled' = 0
    /\ UNCHANGED <<elapsed, held, e0, down, queue, presses>>

(* Mutant: what was hit is left for the next step too.                     *)
Step_KeepsHits ==
    /\ pc = "step" /\ acc >= STEP
    /\ Tick(hit["ENTER"])
    /\ entered' = AtMost(entered + (IF hit["ENTER"] THEN 1 ELSE 0), PRESSES + 1)
    /\ hit' = hit
    /\ steps' = steps + 1
    /\ lag' = lag - STEP
    /\ IF steps' < LIMIT
       THEN acc' = acc - STEP /\ UNCHANGED pc
       ELSE acc' = 0 /\ pc' = "poll"
    /\ polled' = 0
    /\ UNCHANGED <<elapsed, held, e0, down, queue, presses>>

(* A step: tick() sees what was hit since the last one and forgets it.     *)
(* After LIMIT steps the rest of the time is given up.                     *)
Step ==
    /\ pc = "step" /\ acc >= STEP
    /\ Tick(hit["ENTER"])
    /\ entered' = AtMost(entered + (IF hit["ENTER"] THEN 1 ELSE 0), PRESSES + 1)
    /\ hit' = NoFlags
    /\ steps' = steps + 1
    /\ lag' = lag - STEP
    /\ IF steps' < LIMIT
       THEN acc' = acc - STEP /\ UNCHANGED pc
       ELSE acc' = 0 /\ pc' = "poll"
    /\ polled' = 0
    /\ UNCHANGED <<elapsed, held, e0, down, queue, presses>>

(* No step is due (any more): render, then present, which polls first.     *)
Stepped ==
    /\ pc = "step" /\ acc < STEP
    /\ pc' = "poll"
    /\ polled' = 0
    /\ UNCHANGED <<raceVars, acc, steps, elapsed, held, hit, e0, down, queue, presses, entered, lag>>

(* Mutant: a prefix that came last in a poll is forgotten.                 *)
PollByte_ForgetsPrefix ==
    /\ pc = "poll" /\ polled < POLL /\ queue # <<>>
    /\ LET byte == Head(queue)
           flag == Keymap(e0 /\ polled > 0, byte.code)
       IN  IF byte.code = "E0"
           THEN e0' = TRUE /\ UNCHANGED <<held, hit>>
           ELSE /\ e0' = FALSE
                /\ IF flag \in Flags
                   THEN /\ held' = [held EXCEPT ![flag] = ~ byte.up]
                        /\ hit' = [hit EXCEPT ![flag] = @ \/ (~ byte.up /\ ~ held[flag])]
                   ELSE UNCHANGED <<held, hit>>
    /\ queue' = Tail(queue)
    /\ polled' = polled + 1
    /\ UNCHANGED <<raceVars, pc, acc, steps, elapsed, down, presses, entered, lag>>

(* One byte of keyboard_poll.  Only a key that was up is hit, and its flag *)
(* stays until a step has seen it.                                         *)
PollByte ==
    /\ pc = "poll" /\ polled < POLL /\ queue # <<>>
    /\ LET byte == Head(queue)
           flag == Keymap(e0, byte.code)
       IN  IF byte.code = "E0"
           THEN e0' = TRUE /\ UNCHANGED <<held, hit>>
           ELSE /\ e0' = FALSE
                /\ IF flag \in Flags
                   THEN /\ held' = [held EXCEPT ![flag] = ~ byte.up]
                        /\ hit' = [hit EXCEPT ![flag] = @ \/ (~ byte.up /\ ~ held[flag])]
                   ELSE UNCHANGED <<held, hit>>
    /\ queue' = Tail(queue)
    /\ polled' = polled + 1
    /\ UNCHANGED <<raceVars, pc, acc, steps, elapsed, down, presses, entered, lag>>

(* The poll ends after POLL bytes or when no byte is there, which may be   *)
(* before the last one of a key has come: a byte that waits for a whole    *)
(* frame is there.  Then the picture is drawn and Escape looked at.        *)
Polled ==
    /\ pc = "poll"
    /\ polled > 0 \/ queue = <<>>
    /\ pc' = IF held["ESC"] THEN "reboot" ELSE "frame"
    /\ UNCHANGED <<raceVars, acc, steps, elapsed, Keyboard, entered, lag>>

(* reboot.                                                                 *)
Reboot ==
    /\ pc = "reboot"
    /\ pc' = "halted"
    /\ speaker' = FALSE
    /\ UNCHANGED <<scene, count, raceTicks, karts, results, tone>>
    /\ UNCHANGED <<acc, steps, elapsed, Keyboard, entered, lag>>

(* It never comes back: hlt, for ever.                                     *)
Halted == pc = "halted" /\ UNCHANGED vars

Loop == Frame \/ Step \/ Stepped \/ PollByte \/ Polled \/ Reboot

Next ==
    \/ Loop
    \/ Halted
    \/ Clock
    \/ \E k \in Keys : Press(k) \/ Repeat(k) \/ LetGo(k)

Spec == Init /\ [][Next]_vars

(* The processor runs and the clock advances; nobody has to press a key.   *)
FairSpec == Spec /\ WF_vars(Loop) /\ WF_vars(Clock)

-----------------------------------------------------------------------------

(* "A fixed 60 steps per second": the steps taken are those the clock has  *)
(* paid for, none more and none lost, but for the part of a frame beyond   *)
(* CAP; the limit of steps never cuts one off.                             *)
KeepsTime == lag = acc

(* When the kernel has read all there is to read, a flag is up unless one  *)
(* of its keys is down, and it is down if its only key is.                 *)
FlagsTrue ==
    queue = <<>> =>
        \A f \in Flags :
            LET its == {k \in Keys : FlagOf(k) = f} IN
            /\ its \cap down = {} => ~ held[f]
            /\ its \subseteq down /\ Cardinality(its) = 1 => held[f]

(* A press of Enter is never two: however a key repeats, and though both   *)
(* Enter keys share a flag, no more steps see Enter than presses were made. *)
EnterOnce == entered <= presses.enter

(* It is never none: a step sees it, though the key may be up again before *)
(* the kernel looks and frames without a step may come first.              *)
EnterSeen == presses.enter > 0 ~> entered > 0 \/ pc = "halted"

(* "Escape leaves (the kernel then reboots the machine)".                  *)
EscapeLeaves == "escape" \in down ~> pc = "halted"
=============================================================================
