SPECIFICATION Spec
INVARIANT TypeOK
INVARIANT LivenessIsLeastFixpoint
INVARIANT NoLiveValueClobbered
INVARIANT SemanticsPreserved
INVARIANT LivenessPassesBounded
CHECK_DEADLOCK FALSE
