CONSTANTS
    a = a
    b = b

SYMMETRY ObjectSymmetry
SPECIFICATION Spec
INVARIANT TypeOK
INVARIANT RoundTrip
INVARIANT AcceptedIffEncodable
INVARIANT DestPreserved
INVARIANT BuiltKernelMeansSource
CHECK_DEADLOCK FALSE
