CONSTANTS
    h1 = h1
    h2 = h2
    w = w
    r = r
    None = None
    Handlers <- MCHandlers
    Issues <- MCIssuesPool
    Images <- MCImages
    Writable <- MCImages
    Ids <- MCIds
    PoolLows = {1}
    PoolHigh = 1
    MaxLeases = 2
    MaxSlots = 2
SPECIFICATION Spec
INVARIANT LeasedIsServed
CHECK_DEADLOCK FALSE
