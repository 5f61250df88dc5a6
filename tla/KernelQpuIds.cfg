CONSTANTS
    Kernels = {k1, k2, k3}
    Arrays = {a1, a2, a3}
    NoArray = NoArray
    Platforms = {FALSE}
    Elide = TRUE
    QPUCounts <- AnyQPUCounts
    CodeWords = 8
    MaxKernelParams = 128
    PageSize = 4096

SPECIFICATION Spec
INVARIANT DistinctQpuIds
CHECK_DEADLOCK FALSE
