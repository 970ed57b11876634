SPECIFICATION Spec
CONSTANTS
    Readers = {r1, r2}
    Writers = {w1, w2}
INVARIANTS
    Inv
PROPERTIES
    StepsOfRW
    ReadersNotDelayed
    TerminatesIfReadingEnds
