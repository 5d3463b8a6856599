SPECIFICATION Spec
CONSTANTS
    Requests = {r1, r2}
    Cases = {c1}
    c1 = c1
    Inputs <- MCInputs
    HandInputs <- MCHandInputs
    Refs = {x1, x2}
    NoRow = NoRow
    NoRef = NoRef
    MaxSwitches = 1
SYMMETRY Symmetry
INVARIANTS StoreInv OutcomesAreTrue
PROPERTIES KeepsContract
CHECK_DEADLOCK FALSE
