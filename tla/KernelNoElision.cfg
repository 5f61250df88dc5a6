CONSTANTS
    Kernels = {k1, k2, k3}
    Arrays = {a1, a2, a3}
    NoArray = NoArray
    Platforms = {TRUE}
    Elide = FALSE
    QPUCounts <- SpecQPUCounts
    CodeWords = 8
    MaxKernelParams = 128
    PageSize = 4096

SPECIFICATION Spec
INVARIANT CodeMemValid
CHECK_DEADLOCK FALSE
