CONSTANTS
    a = a
    b = b
    Objects <- MCObjects
    Consts = {1}
    Ops <- MCOps
    ValueBound = 3
    CmpOps <- MCCmpOps
    Programs <- MCPrograms

SYMMETRY ObjectSymmetry
SPECIFICATION Spec
INVARIANT EveryCallBuilds
CHECK_DEADLOCK FALSE
