SPECIFICATION RaceSpec
CONSTANTS
    Karts = {k0, k1, k2}
    Player = k0
    WAYPOINTS = 2
    LAPS_DONE = 2
    FAR = 2
    STAGE = 2
    LOW_BEEP = 1
    GO_BEEP = 2
    FINISH_BEEP = 2
    RACE_BOUND = 5
    LAP_BOUND = 2
INVARIANTS MoreWaypointsAhead FinishPlace DoneAfterLaps
