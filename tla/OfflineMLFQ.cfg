SPECIFICATION ShareSpec
CONSTANTS
    N = 3
    Fates = {"ok", "fail", "crash"}
    MaxNeed = 3
    MaxForkFailures = 1
    Overrun = 1
    quantum0 = 1
    quantum1 = 1
    quantum2 = 2
    boostTime = 3
    MAX_QUEUE_SIZE = 3
    Overhead = 1
    MaxTime = 3
INVARIANTS
    Inv
    OnePlace
    FairShare
PROPERTIES
    ImplementsScheduler
    ReportedIfWell
