CONSTANTS
    t1 = t1
    t2 = t2
    v1 = v1
    v2 = v2
    Threads <- MCThreads
    Values <- MCValues
    NBlocks = 2
    Hybrid = TRUE
    BufSize = 0
    MayFail = {"data", "index"}
    Ops = {"pwrite", "discard", "pread", "fsync", "restack"}
    MaxCalls = 3
    MaxLayers = 4
SPECIFICATION FairSpec
INVARIANTS
    TypeOK
    ReadersSeeView
    NoAliasing
PROPERTIES
    ImplementsBlockDevice
    SealedImmutable
    CallsReturn
