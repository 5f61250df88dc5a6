CONSTANTS
    Kernels = {k1, k2, k3}
    Arrays = {a1, a2, a3}
    NoArray = NoArray
    Platforms = {TRUE, FALSE}
    Elide = TRUE
    QPUCounts <- SpecQPUCounts
    CodeWords = 8
    MaxKernelParams = 128
    PageSize = 4096

SPECIFICATION Spec
INVARIANT TypeOK
INVARIANT CodeMemValid
INVARIANT QPUUsersCountKernels
INVARIANT DistinctQpuIds
PROPERTY QpuUseRefined
CHECK_DEADLOCK FALSE
