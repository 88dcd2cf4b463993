------------------------------- MODULE MCKart -------------------------------
(***************************************************************************)
(* The game around the race, one machine for each question: taking the     *)
(* computer over, the keys pressed in a main loop of short steps, and the  *)
(* clock of a main loop with the game's own numbers.  A run is a run of    *)
(* one machine; the constants of the configuration are those of the clock. *)
(***************************************************************************)
EXTENDS KartLoop

CONSTANTS Modes, TRIES, CHANGES  \* of KartBoot

VARIABLES machine, stage, mode, next, chosen, screen, map, mapKey, tries, code, changes

bootVars == <<stage, mode, next, chosen, screen, map, mapKey, tries, code, changes>>

Mode(w, h, f, s) == [width |-> w, height |-> h, format |-> f, stride |-> s]

(* A machine whose modes are just large enough, too flat to be doubled,    *)
(* suitable, in another format, and with rows longer than what they show.  *)
MCModes ==
    <<Mode(320, 200, 1, 320), Mode(640, 399, 0, 640), Mode(640, 480, 1, 640),
      Mode(640, 480, 2, 640), Mode(801, 601, 0, 832)>>

Boot == INSTANCE KartBoot WITH pc <- stage

ASSUME BootAssumption == Boot!BootAssumption

Keyed ==
    INSTANCE KartLoop WITH
        Keys <- {"enter", "keypad", "escape", "mute"},
        RATE <- 1, STEP <- 2, CAP <- 2, LIMIT <- 3, POLL <- 2, Delays <- {1}, QUEUE <- 3, PRESSES <- 2

ASSUME Keyed!LoopAssumption /\ Keyed!KeysAssumption

MCInit ==
    /\ Boot!Init
    /\ \/ machine \in {"boot", "clock"} /\ Init
       \/ machine = "keys" /\ Keyed!Init
    /\ machine = "boot" \/ mode = 1

KeyedLoop == machine = "keys" /\ Keyed!Loop /\ UNCHANGED <<machine, bootVars>>
KeyedClock == machine = "keys" /\ Keyed!Clock /\ UNCHANGED <<machine, bootVars>>

MCNext ==
    \/ machine = "boot" /\ Boot!Next /\ UNCHANGED <<machine, vars>>
    \/ machine = "keys" /\ Keyed!Next /\ UNCHANGED <<machine, bootVars>>
    \/ machine = "clock" /\ Next /\ UNCHANGED <<machine, bootVars>>

MCVars == <<machine, bootVars, vars>>

MCSpec == MCInit /\ [][MCNext]_MCVars /\ WF_MCVars(KeyedLoop) /\ WF_MCVars(KeyedClock)

-----------------------------------------------------------------------------
(* The properties of the modules, each of its machine.                     *)

(* PictureInside of KartBoot: all that present writes is in the            *)
(* framebuffer, whatever mode setup_video leaves the machine in.           *)
PictureInside == machine = "boot" => Boot!PictureInside

(* EnterSeen of KartLoop: a press of Enter is seen by a step.  FlagsTrue   *)
(* and EnterOnce are about the same variables in both loops, and hold as   *)
(* they stand.                                                             *)
EnterNotLost == machine = "keys" => Keyed!EnterSeen
=============================================================================
