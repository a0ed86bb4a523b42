SPECIFICATION FairSpec
CONSTANTS
    s1 = s1
    s2 = s2
    Slot <- MCOneSlot
    None = None
    MaxTime = 2
    MaxRestarts = 1
PROPERTY EventuallyStored
