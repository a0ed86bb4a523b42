SPECIFICATION Spec
CONSTANTS
    s1 = s1
    Client <- MCClient
    Member <- MCMember
    Clause <- MCClause
    subscription_buffer_size = 2
    MaxWrites = 3
    MaxRequests = 1
INVARIANT MirrorsPartialUpdates
CHECK_DEADLOCK FALSE
