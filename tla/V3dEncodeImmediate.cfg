CONSTANT Inputs <- CompilerInputs
CONSTANT Uninit <- UninitBytes
SPECIFICATION Spec
INVARIANT ImmediateEncoded
CHECK_DEADLOCK FALSE
