SPECIFICATION Spec
CONSTANTS
    Account = {alice, bob}
    One = One
    Zero = Zero
    Nft = {t1, t2}
    Contract = Contract
    Unreadable = {t1}
    MaxEvents = 3
    MaxValue = 2
    MaxFaults = 1
INVARIANT RegisteredOnce
INVARIANT BalancesAgree
PROPERTY Completes
CHECK_DEADLOCK FALSE
