SPECIFICATION Spec
CONSTANTS
    N = 4
    Fates = {"ok", "fail", "crash"}
    MaxNeed = 2
    MaxForkFailures = 2
    Overrun = 0
INVARIANTS
    Inv
PROPERTIES
    ImplementsScheduler
