SPECIFICATION Spec
CONSTANTS
    N = 3
    Fates = {"ok"}
    MaxNeed = 2
    MaxForkFailures = 1
    Overrun = 0
    Commands = {"ls", "sleep"}
    DefaultBurst = 2
    MAX_QUEUE_SIZE = 3
    quantum0 = 1
    quantum1 = 1
    quantum2 = 2
    boostTime = 3
    MaxGarbled = 1
INVARIANTS
    Inv
    NothingForgotten
    SameCommandInOrder
PROPERTIES
    ShortestFirst
    EverybodyReported
