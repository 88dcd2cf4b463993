SPECIFICATION FairSpec
CONSTANTS
    Karts = {k0}
    Player = k0
    WAYPOINTS = 2
    LAPS_DONE = 1
    FAR = 1
    STAGE = 1
    LOW_BEEP = 1
    GO_BEEP = 1
    FINISH_BEEP = 1
    RACE_BOUND = 1
    LAP_BOUND = 1
    Keys = {"escape"}
    RATE = 1
    STEP = 2
    CAP = 2
    LIMIT = 3
    POLL = 2
    Delays = {1}
    QUEUE = 3
    PRESSES = 2
PROPERTY EscapeLeaves
