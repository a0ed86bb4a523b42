SPECIFICATION Spec
CONSTANTS
    NULL = NULL
    ERR = ERR
    None = None
    Unreadable = Unreadable
    t1 = t1
    t2 = t2
    red = red
    big = big
    g1 = g1
    g2 = g2
    a1 = a1
    a2 = a2
    k1 = k1
    k2 = k2
    k3 = k3
    p1 = p1
    p2 = p2
    c1 = c1
    c2 = c2
    move = move
    wrap = wrap
    n1 = n1
    n2 = n2
    m1 = m1
    m2 = m2
    m3 = m3
    MaxPending = 3
    MaxMetadataUpdates = 4
    MaxAggregationUpdates = 4
    MaxCreations = 2
    MaxProgress = 3
    MaxTime = 7
    s1 = s1
    subscription_buffer_size = 2
    MaxWrites = 2
    MaxRequests = 1
    MaxChanges = 2
INVARIANT RowIsRecord
INVARIANT AttributesMatch
INVARIANT StatisticsAgree
INVARIANT SessionsAreRuns
INVARIANT Mirrors
INVARIANT SubscriptionFollowsQuery
INVARIANT StableRowsOnce
CHECK_DEADLOCK FALSE
