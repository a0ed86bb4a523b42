SPECIFICATION Spec
CONSTANTS
    None = None
    Nothing = Nothing
    Publisher = {pa, pb}
    Identity = {ia, ib}
    MaxTime = 2
    future_tolerance = 0
    max_age = 1
    require_timestamp = FALSE
    Batch = 2
    MaxMessages = 2
    MaxBatches = 1
    MaxFaults = 1
    Model = {1, 2}
    Snapshot = {1}
    Client = {ca, cb}
    Kind <- MCKind
    Chunks = 2
    MaxStarts = 2
    MaxRequests = 2
    Failed = Failed
    Panic = Panic
    Empty = Empty
    sa = sa
    sb = sb
    collection = collection
    w1 = w1
    w2 = w2
    ua = ua
    ub = ub
    raster = raster
    svg = svg
    ca = ca
    cb = cb
INVARIANT AnsweredIsStored
INVARIANT RelayedEverywhere
INVARIANT MetadataFollowsEvents
INVARIANT ControllersFound
INVARIANT CallsAgree
INVARIANT ImagesCurrent
INVARIANT SchemaCurrent
INVARIANT DatabaseKept
PROPERTY TimestampsGrow
CHECK_DEADLOCK FALSE
