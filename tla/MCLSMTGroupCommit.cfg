CONSTANTS
    t1 = t1
    t2 = t2
    v1 = v1
    v2 = v2
    Threads <- MCThreads
    Values <- MCValues
    NBlocks = 2
    Hybrid = FALSE
    BufSize = 2
    MayFail = {"index"}
    Ops = {"pwrite", "discard", "fsync"}
    MaxCalls = 4
    MaxLayers = 3
SPECIFICATION Spec
SYMMETRY Symmetry
INVARIANTS
    LogMatchesIndex
