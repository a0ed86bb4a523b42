SPECIFICATION TMSpec
CONSTANTS
    Task = {t1, t2}
    EventKey = {k1, k2}
    HISTORICAL = HISTORICAL
    Permits = 1
    MaxDeps = 1
    MaxEvents = 3
INVARIANT HandledAsSubmitted
PROPERTY Terminates
