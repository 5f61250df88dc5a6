SPECIFICATION Spec
INVARIANT TypeOK
INVARIANT ResultIsRotation
INVARIANT StoresInBounds
INVARIANT TriResult
PROPERTY Terminates
CHECK_DEADLOCK FALSE
