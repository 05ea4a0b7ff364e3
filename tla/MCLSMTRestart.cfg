CONSTANTS
    t1 = t1
    t2 = t2
    v1 = v1
    v2 = v2
    Threads <- MCThreads
    Values <- MCValues
    NBlocks = 2
    Hybrid = TRUE
    BufSize = 0
    MayFail = {"sync", "config"}
    Ops = {"pwrite", "fsync", "restack"}
    MaxCalls = 4
    MaxLayers = 3
    MaxRestarts = 1
    PowerCuts = TRUE
SPECIFICATION RSpec
SYMMETRY Symmetry
INVARIANTS
    RTypeOK
    CrashLosesNothing
    LogMatchesIndex
    Reopenable
    SyncedSurvives
