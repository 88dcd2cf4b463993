------------------------------ MODULE KartBoot ------------------------------
(***************************************************************************)
(* How Nexora Kart takes the machine over (boot and setup_video in         *)
(* kernel.ntasm): memory and the graphics output from the firmware, a      *)
(* video mode, the place of the picture in it, and the exit from the boot  *)
(* services, which the firmware refuses unless it is given the key of the  *)
(* current memory map.  The firmware is the environment: any call may      *)
(* fail, and the map may change between any two.                           *)
(***************************************************************************)
EXTENDS Integers, Sequences

CONSTANTS
    Modes,        \* the modes of this machine: width, height, format, stride
    TRIES,        \* 4
    CHANGES       \* bound: how often the map changes or does not fit

PICTURE_W == 320
PICTURE_H == 200

(* UEFI has no mode smaller than the picture, and a row is in its stride.  *)
BootAssumption ==
    /\ TRIES \in Nat \ {0} /\ CHANGES \in Nat
    /\ Modes \in Seq([width : Nat, height : Nat, format : Nat, stride : Nat])
    /\ \A m \in DOMAIN Modes :
           /\ PICTURE_W <= Modes[m].width /\ Modes[m].width <= Modes[m].stride
           /\ PICTURE_H <= Modes[m].height

None == 0

VARIABLES
    pc,
    mode,              \* the mode the machine is in
    next, chosen,      \* r13, r14 of setup_video
    screen,            \* S_WIDTH, S_HEIGHT, S_ROWBYTES, S_SCALE, S_ORIGIN
    map, mapKey,       \* the version of the memory map; g_map_key
    tries,             \* r13 of boot
    code,              \* what fail_boot is given
    changes            \* how many maps changed or did not fit

vars == <<pc, mode, next, chosen, screen, map, mapKey, tries, code, changes>>

NoScreen == [width |-> 0, height |-> 0, rowbytes |-> 0, scale |-> 1, origin |-> 0]

Init ==
    /\ pc = "allocate" /\ mode \in DOMAIN Modes /\ next = 1 /\ chosen = None
    /\ screen = NoScreen
    /\ map = 1 /\ mapKey = 0 /\ tries = TRIES /\ code = 0 /\ changes = 0

-----------------------------------------------------------------------------

Fail(c) == pc' = "failed" /\ code' = c

(* AllocatePages, then LocateProtocol.                                     *)
Acquire(label, then, c) ==
    /\ pc = label
    /\ (pc' = then /\ UNCHANGED code) \/ Fail(c)
    /\ UNCHANGED <<mode, next, chosen, screen, map, mapKey, tries, changes>>

(* Formats 0 and 1 are the two orders of the colours.                      *)
Suits(m) == m.width = 640 /\ m.height = 480 /\ m.format <= 1

(* QueryMode for each mode: one that fails is passed over, the last that   *)
(* suits is chosen.                                                        *)
Query ==
    /\ pc = "query" /\ next <= Len(Modes)
    /\ \E answered \in BOOLEAN :
           chosen' = IF answered /\ Suits(Modes[next]) THEN next ELSE chosen
    /\ next' = next + 1
    /\ UNCHANGED <<pc, mode, screen, map, mapKey, tries, code, changes>>

(* SetMode, whose status is not looked at: what follows reads the mode the *)
(* machine is in.                                                          *)
SetMode ==
    /\ pc = "query" /\ next > Len(Modes)
    /\ mode' \in {mode} \cup ({chosen} \ {None})
    /\ pc' = "geometry"
    /\ UNCHANGED <<next, chosen, screen, map, mapKey, tries, code, changes>>

(* Mutant: wide enough is taken for large enough.                          *)
Scale_ByWidth(m) == IF m.width >= 640 THEN 2 ELSE 1

Scale(m) == IF m.width >= 640 /\ m.height >= 400 THEN 2 ELSE 1

(* The picture is centred: its first byte in the framebuffer.              *)
Geometry ==
    /\ pc = "geometry"
    /\ LET m == Modes[mode]
           s == Scale(m)
           rows == (m.height - PICTURE_H * s) \div 2
           columns == (m.width - PICTURE_W * s) \div 2
       IN  screen' = [width |-> m.width, height |-> m.height, rowbytes |-> 4 * m.stride,
                      scale |-> s, origin |-> rows * 4 * m.stride + columns * 4]
    /\ pc' = "map"
    /\ UNCHANGED <<mode, next, chosen, map, mapKey, tries, code, changes>>

(* The status is not looked at: when the buffer is too small the key is    *)
(* the old one and the exit will fail.                                     *)
GetMemoryMap ==
    /\ pc = "map" /\ pc' = "exit"
    /\ \/ mapKey' = map /\ UNCHANGED changes
       \/ changes < CHANGES /\ changes' = changes + 1 /\ UNCHANGED mapKey
    /\ UNCHANGED <<mode, next, chosen, screen, map, tries, code>>

ExitBootServices ==
    /\ pc = "exit"
    /\ IF mapKey = map
       THEN pc' = "owned" /\ UNCHANGED <<tries, code>>
       ELSE /\ tries' = tries - 1
            /\ IF tries' > 0 THEN pc' = "map" /\ UNCHANGED code ELSE Fail(3)
    /\ UNCHANGED <<mode, next, chosen, screen, map, mapKey, changes>>

(* The firmware, while it lives: an event of its own allocates memory.     *)
MapChanges ==
    /\ pc \notin {"owned", "failed"} /\ changes < CHANGES
    /\ map' = map + 1 /\ changes' = changes + 1
    /\ UNCHANGED <<pc, mode, next, chosen, screen, mapKey, tries, code>>

(* game_main, or hlt for ever.                                             *)
Done == pc \in {"owned", "failed"} /\ UNCHANGED vars

Next ==
    \/ Acquire("allocate", "locate", 1) \/ Acquire("locate", "query", 2)
    \/ Query \/ SetMode \/ Geometry
    \/ GetMemoryMap \/ ExitBootServices
    \/ MapChanges \/ Done

Spec == Init /\ [][Next]_vars

-----------------------------------------------------------------------------

(* present writes the pixel (x, y) of the picture scale times scale times. *)
Pixel(x, y) ==
    {screen.origin + (y * screen.scale + dy) * screen.rowbytes + (x * screen.scale + dx) * 4 :
        dx \in 0 .. screen.scale - 1, dy \in 0 .. screen.scale - 1}

Corners == {0, PICTURE_W - 1} \X {0, PICTURE_H - 1}

(* Whatever mode the machine is left in, all that present writes is in the *)
(* framebuffer and in the visible part of a row.                           *)
PictureInside ==
    pc \in {"map", "exit", "owned"} =>
        \A c \in Corners : \A byte \in Pixel(c[1], c[2]) :
            /\ byte >= 0 /\ byte \div screen.rowbytes < Modes[mode].height
            /\ (byte % screen.rowbytes) \div 4 < Modes[mode].width
=============================================================================
