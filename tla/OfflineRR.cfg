SPECIFICATION Spec
CONSTANTS
    N = 3
    Fates = {"ok", "fail", "crash"}
    MaxNeed = 4
    MaxForkFailures = 1
    Overrun = 1
    quantum = 2
INVARIANTS
    Inv
PROPERTIES
    ImplementsScheduler
    ReportedIfWell
