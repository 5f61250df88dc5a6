CONSTANT Inputs <- RotateRangeInputs
SPECIFICATION Spec
INVARIANT RoundTrip
CHECK_DEADLOCK FALSE
