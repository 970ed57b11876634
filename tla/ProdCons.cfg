SPECIFICATION Spec
CONSTANTS
    BUFFER_SIZE = 2
    MaxLen = 4
    Inputs <- Files
INVARIANTS
    Inv
    Fifo
    NothingLeftBehind
PROPERTIES
    Terminates
    ImplementsQueue
