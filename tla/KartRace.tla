------------------------------ MODULE KartRace ------------------------------
(***************************************************************************)
(* The race of Nexora Kart: tick() of game.ntasm with the laps, the        *)
(* ranking and the results of race.ntasm.  Where the karts are is left to  *)
(* chance: a step says which karts cross the line of their next waypoint   *)
(* and how far the others are from theirs.  Camera, sprites and the two    *)
(* banners on the screen are left out.                                     *)
(***************************************************************************)
EXTENDS Integers, FiniteSets

CONSTANTS
    Karts,        \* four of them
    Player,       \* kart 0
    WAYPOINTS,    \* 64 around the track; 0 is the finish line
    LAPS_DONE,    \* 4: the start crosses the line once, then three laps
    FAR,          \* 4095, the greatest distance the ranking key tells apart
    STAGE,        \* 60 steps for each number of the countdown
    LOW_BEEP, GO_BEEP, FINISH_BEEP,  \* 10, 24 and 40 steps
    RACE_BOUND,   \* bound: the player is done by then
    LAP_BOUND     \* bound: nobody drives more laps

ASSUME KartAssumption ==
    /\ IsFiniteSet(Karts)
    /\ Player \in Karts
    /\ WAYPOINTS \in Nat /\ WAYPOINTS >= 2
    /\ LAPS_DONE \in Nat \ {0}
    /\ FAR \in Nat \ {0}
    /\ {STAGE, LOW_BEEP, GO_BEEP, FINISH_BEEP} \subseteq Nat \ {0}
    /\ RACE_BOUND \in Nat /\ LAP_BOUND \in Nat
    /\ LAP_BOUND >= LAPS_DONE

VARIABLES
    scene,                  \* G_SCENE
    count,                  \* G_COUNT
    raceTicks,              \* G_RACE_TICKS
    lap, wp, prog,          \* KLAP, KWP, KPROG
    done, time,             \* KDONE, KTIME
    place,                  \* KPLACE
    finPlace, finishTicks,  \* G_FIN_PLACE, G_FINISH_TICKS
    best,                   \* G_BEST
    tone, speaker           \* G_TONE_TICKS and whether the speaker is on

karts == <<lap, wp, prog, done, time, place>>
results == <<finPlace, finishTicks, best>>
raceVars == <<scene, count, raceTicks, karts, results, tone, speaker>>

Scenes == {"TITLE", "COUNTDOWN", "RACE", "FINISH"}

Zeros == [k \in Karts |-> 0]
Undone == [k \in Karts |-> FALSE]
Last == [k \in Karts |-> Cardinality(Karts)]

(* game_main, before its loop.                                             *)
RaceInit ==
    /\ scene = "TITLE"
    /\ lap = Zeros /\ wp = Zeros /\ prog = Zeros
    /\ done = Undone /\ time = Zeros /\ place = Last
    /\ raceTicks = 0 /\ count = 0
    /\ finPlace = 0 /\ finishTicks = 0 /\ best = 0
    /\ tone = 0 /\ speaker = FALSE

(* race_reset.                                                             *)
RaceReset ==
    /\ lap' = Zeros /\ wp' = Zeros /\ prog' = Zeros
    /\ done' = Undone /\ time' = Zeros /\ place' = Last
    /\ raceTicks' = 0 /\ count' = 0

-----------------------------------------------------------------------------

(* Mutant: the finish line counts as waypoint 0 of the lap it ends.        *)
Key_LineFirst(l, w, d) == (l * WAYPOINTS + w) * (FAR + 1) + (FAR - d)

(* The ranking key: laps, waypoints, distance left to the next one.  Before *)
(* it is crossed the finish line counts as the last waypoint of the lap.   *)
Key(l, w, d) == (l * WAYPOINTS + (IF w = 0 THEN WAYPOINTS ELSE w)) * (FAR + 1) + (FAR - d)

(* Mutant: no mask.                                                        *)
Following_Unmasked(w) == w + 1

(* The waypoints go round.                                                 *)
Following(w) == IF w + 1 = WAYPOINTS THEN 0 ELSE w + 1

Ahead(keys, k) == {j \in Karts : keys[j] > keys[k]}

(* update_ranks.                                                           *)
Places(keys) == [k \in Karts |-> 1 + Cardinality(Ahead(keys, k))]

(* Mutant: a lap too early.                                                *)
Finishes_Early(k, P) == k \in P /\ wp[k] = 0 /\ lap[k] + 2 = LAPS_DONE /\ ~ done[k]

(* The lap that ends the race for a kart.                                  *)
Finishes(k, P) == k \in P /\ wp[k] = 0 /\ lap[k] + 1 = LAPS_DONE /\ ~ done[k]

(* Mutant: the ranks are made before the progress of the step.             *)
RaceCommon_RanksFirst(P, dist) ==
    /\ lap' = [k \in Karts |-> IF k \in P /\ wp[k] = 0 THEN lap[k] + 1 ELSE lap[k]]
    /\ wp' = [k \in Karts |-> IF k \in P THEN Following(wp[k]) ELSE wp[k]]
    /\ prog' = [k \in Karts |-> Key(lap'[k], wp'[k], IF k \in P THEN FAR ELSE dist[k])]
    /\ done' = [k \in Karts |-> done[k] \/ Finishes(k, P)]
    /\ time' = [k \in Karts |-> IF Finishes(k, P) THEN raceTicks' ELSE time[k]]
    /\ place' = Places(prog)

(* race_common: kart_progress for every kart, then update_ranks.  The      *)
(* karts of P pass their waypoint; the next one then counts as far away.   *)
RaceCommon(P, dist) ==
    /\ lap' = [k \in Karts |-> IF k \in P /\ wp[k] = 0 THEN lap[k] + 1 ELSE lap[k]]
    /\ wp' = [k \in Karts |-> IF k \in P THEN Following(wp[k]) ELSE wp[k]]
    /\ prog' = [k \in Karts |-> Key(lap'[k], wp'[k], IF k \in P THEN FAR ELSE dist[k])]
    /\ done' = [k \in Karts |-> done[k] \/ Finishes(k, P)]
    /\ time' = [k \in Karts |-> IF Finishes(k, P) THEN raceTicks' ELSE time[k]]
    /\ place' = Places(prog')

(* Where the karts may get to in one step.  A world of 496 units is too    *)
(* small for a distance of FAR.                                            *)
Distances == 0 .. FAR - 1

(* Waypoints a kart has passed since the start.                            *)
Passed(k) ==
    IF lap[k] = 0 THEN 0
    ELSE (lap[k] - 1) * WAYPOINTS + (IF wp[k] = 0 THEN WAYPOINTS ELSE wp[k])

(* The bounds of the model: a player short of time passes a waypoint in    *)
(* each step, and no kart drives more than LAP_BOUND laps.                 *)
InTime(P) ==
    /\ \A k \in P : lap[k] < LAP_BOUND \/ wp[k] # 0
    /\ \/ Player \in P
       \/ scene # "RACE"
       \/ raceTicks + (LAPS_DONE - 1) * WAYPOINTS + 1 - Passed(Player) < RACE_BOUND

-----------------------------------------------------------------------------

(* The head of tick counts the tone down and ends it; a beep of the scene  *)
(* comes after it (0: none).                                               *)
Sound(beep) ==
    IF beep > 0 THEN tone' = beep /\ speaker' = TRUE
    ELSE /\ tone' = IF tone = 0 THEN 0 ELSE tone - 1
         /\ speaker' = (speaker /\ tone # 1)

Title(enter) ==
    /\ scene = "TITLE"
    /\ IF enter THEN scene' = "COUNTDOWN" /\ RaceReset ELSE UNCHANGED <<scene, karts, raceTicks, count>>
    /\ Sound(0)
    /\ UNCHANGED results

Countdown ==
    /\ scene = "COUNTDOWN"
    /\ count' = count + 1
    /\ CASE count' = 3 * STAGE + 1 -> scene' = "RACE" /\ Sound(GO_BEEP)
         [] count' \in {1, STAGE + 1, 2 * STAGE + 1} -> UNCHANGED scene /\ Sound(LOW_BEEP)
         [] OTHER -> UNCHANGED scene /\ Sound(0)
    /\ UNCHANGED <<raceTicks, karts, results>>

Record == best' = IF best = 0 \/ time'[Player] < best THEN time'[Player] ELSE best

Race ==
    /\ scene = "RACE"
    /\ raceTicks' = raceTicks + 1
    /\ \E P \in SUBSET Karts : \E dist \in [Karts \ P -> Distances] :
          InTime(P) /\ RaceCommon(P, dist)
    /\ IF done'[Player]
       THEN /\ scene' = "FINISH"
            /\ finPlace' = place'[Player]
            /\ finishTicks' = time'[Player]
            /\ Record
            /\ Sound(FINISH_BEEP)
       ELSE UNCHANGED <<scene, results>> /\ Sound(0)
    /\ UNCHANGED count

(* The karts drive on behind the results; the clock of the race stands.    *)
Finish(enter) ==
    /\ scene = "FINISH"
    /\ \E P \in SUBSET Karts : \E dist \in [Karts \ P -> Distances] :
          InTime(P) /\ UNCHANGED raceTicks /\ RaceCommon(P, dist)
    /\ scene' = IF enter THEN "TITLE" ELSE scene
    /\ Sound(0)
    /\ UNCHANGED <<count, results>>

(* tick(), with what Enter was when it was called.                         *)
Tick(enter) == Title(enter) \/ Countdown \/ Race \/ Finish(enter)

RaceNext == \E enter \in BOOLEAN : Tick(enter)

RaceSpec == RaceInit /\ [][RaceNext]_raceVars

-----------------------------------------------------------------------------

TypeOK ==
    /\ scene \in Scenes
    /\ count \in 0 .. 3 * STAGE + 1
    /\ raceTicks \in Nat
    /\ lap \in [Karts -> Nat]
    /\ wp \in [Karts -> 0 .. WAYPOINTS - 1]
    /\ prog \in [Karts -> Nat]
    /\ done \in [Karts -> BOOLEAN]
    /\ time \in [Karts -> Nat]
    /\ place \in [Karts -> 1 .. Cardinality(Karts)]
    /\ finPlace \in 0 .. Cardinality(Karts)
    /\ finishTicks \in Nat
    /\ best \in Nat
    /\ tone \in Nat
    /\ speaker \in BOOLEAN

(* "The ranking key combines laps, waypoints and the distance left": a     *)
(* kart that has passed more waypoints is placed before one that has       *)
(* passed fewer, on both sides of the finish line too.                     *)
MoreWaypointsAhead ==
    scene \in {"RACE", "FINISH"} =>
        \A j, k \in Karts : Passed(j) > Passed(k) => place[j] < place[k]

(* The place shown with the results is the one at the line: the karts      *)
(* before the player are those that finished in an earlier step, however   *)
(* the others drive on.                                                    *)
FinishPlace ==
    scene = "FINISH" =>
        finPlace = 1 + Cardinality({k \in Karts : done[k] /\ time[k] < time[Player]})

(* A kart is done when it has crossed the line at the start and driven     *)
(* round LAPS_DONE - 1 times, never before, and the race lasts until the   *)
(* player is.                                                              *)
DoneAfterLaps ==
    /\ \A k \in Karts : done[k] <=> Passed(k) > (LAPS_DONE - 1) * WAYPOINTS
    /\ scene = "RACE" => ~ done[Player]
    /\ scene = "FINISH" => done[Player]

=============================================================================
