SPECIFICATION MCSpec
CONSTANTS
    Karts = {k0}
    Player = k0
    WAYPOINTS = 2
    LAPS_DONE = 1
    FAR = 1
    STAGE = 1
    LOW_BEEP = 1
    GO_BEEP = 1
    FINISH_BEEP = 1
    RACE_BOUND = 1
    LAP_BOUND = 1
    Keys = {"enter", "keypad", "escape", "mute"}
    RATE = 60
    STEP = 1000
    CAP = 100
    LIMIT = 8
    POLL = 2
    Delays = {1, 7, 50}
    QUEUE = 3
    PRESSES = 0
    Modes <- MCModes
    TRIES = 4
    CHANGES = 4
INVARIANTS PictureInside KeepsTime FlagsTrue EnterOnce
PROPERTY EnterNotLost
