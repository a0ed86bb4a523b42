SPECIFICATION Spec
CONSTANTS
    Entity = {e1}
    Model = {m1, m2}
    Value = {v1, v2}
    None = None
    MaxOps = 2
    MaxAttempts = 2
    MaxErrors = 1
INVARIANT Consistent
INVARIANT CommittedAsWanted
PROPERTY Answered
PROPERTY AnnouncedIffCommitted
CHECK_DEADLOCK FALSE
