SPECIFICATION Spec
CONSTANTS
    Dirs = {"/home", "/tmp"}
    HOME = "/home"
    INITIAL_CAPACITY = 1
    PipeSize = 1
    MaxWrites = 2
    MaxLines = 3
    MaxFailures = 2
INVARIANTS
    Inv
    Balanced
    EarlyOnlyForOrphans
PROPERTIES
    PromptReturns
