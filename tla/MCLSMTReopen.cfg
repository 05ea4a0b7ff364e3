CONSTANTS
    t1 = t1
    t2 = t2
    v1 = v1
    v2 = v2
    Threads <- MCThreads
    Values <- MCValues
    NBlocks = 2
    Hybrid = FALSE
    BufSize = 0
    MayFail = {}
    Ops = {"pwrite", "discard", "fsync", "restack"}
    MaxCalls = 3
    MaxLayers = 3
    MaxRestarts = 0
    PowerCuts = FALSE
SPECIFICATION RSpec
INVARIANTS
    Reopenable
