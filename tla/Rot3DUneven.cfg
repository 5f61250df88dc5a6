CONSTANTS
    NB = 4
    Kernels = {0}
    QpuCounts <- UnevenCounts

SPECIFICATION Spec
INVARIANT StoresInBounds
CHECK_DEADLOCK FALSE
