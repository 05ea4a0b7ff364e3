CONSTANTS
    h1 = h1
    h2 = h2
    w = w
    r = r
    None = None
    Handlers <- MCHandlers
    Issues <- MCIssuesWriters
    Images <- MCImages
    Writable <- MCWritable
    Ids <- MCIds
    PoolLows = {1}
    PoolHigh = 1
    MaxLeases = 2
    MaxSlots = 2
SPECIFICATION Spec
INVARIANT OneWriter
CHECK_DEADLOCK FALSE
