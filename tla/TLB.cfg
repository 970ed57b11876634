SPECIFICATION Spec
CONSTANTS
    PageNumbers = {1, 2, 3, 4}
    MaxN = 6
    Capacities = {1, 2, 3}
INVARIANTS
    Inv
    OptimalIsBest
PROPERTIES
    ImplementsPolicies
