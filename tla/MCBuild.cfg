SPECIFICATION MCSpec
CONSTANTS
    r1 = r1
    r2 = r2
    r3 = r3
    Procs = {r1, r2, r3}
    Pid <- SharedPid
    MAX_ATTEMPTS = 2
    Absent = absent
    Limit <- SmallLimit
    JOB_LENGTH = 1
    CAPACITY = 4
    Buffers = {"b1"}
    Streams = {"f1"}
    REFUSALS = 2
INVARIANTS OutputComplete SuccessIsMine ReleasedOnce OnlyVerifiedBytesRun ResultFaithful Accounted
PROPERTIES PutsOnce Terminates
