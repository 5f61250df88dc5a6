CONSTANTS
    Vars <- MCVars
    Labels <- MCLabels
    ValueBound = 4
    Target = "v3d"
    NumRegs = 1
    Alphabet <- StraightAlphabet
    MaxLen = 3
    Fuel = 8

SPECIFICATION Spec
INVARIANT ErrorNamesFailingInstruction
CHECK_DEADLOCK FALSE
