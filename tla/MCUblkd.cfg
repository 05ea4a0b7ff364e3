CONSTANTS
    h1 = h1
    h2 = h2
    w = w
    r = r
    None = None
    Handlers <- MCHandlers
    Issues <- MCIssues
    Images <- MCImages
    Writable <- MCWritable
    Ids <- MCIds
    PoolLows = {0, 1}
    PoolHigh = 1
    MaxLeases = 2
    MaxSlots = 2
SPECIFICATION FairSpec
INVARIANTS
    TypeOK
    LeasedIsServed
    RefcountExact
    OneSharedDevice
    CreatedOnce
    SlotsDistinct
    PoolClean
    NothingLeaks
PROPERTY RequestsAnswered
