SPECIFICATION FairSpec
CONSTANTS
    s1 = s1
    s2 = s2
    Slot <- MCSlot
    None = None
    MaxTime = 3
    MaxRestarts = 1
INVARIANT NothingSkipped
PROPERTY StoredUnlessRolledBack
PROPERTY RoundEnds
