SPECIFICATION Spec
CONSTANTS
    N = 2
    Fates = {"ok", "fail"}
    MaxNeed = 4
    MaxForkFailures = 0
    Overrun = 0
    quantum = 2
PROPERTIES
    Reported
