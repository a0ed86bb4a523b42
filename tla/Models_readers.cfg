SPECIFICATION Spec
CONSTANTS
    m1 = m1
    m2 = m2
    Model <- MCOneModel
    TableOf <- OwnTable
    NamespaceOf <- Ns
    Config <- MCReaders
    MaxVersion = 3
    MaxEvents = 4
    MaxFaults = 2
INVARIANT StoredInFull
CHECK_DEADLOCK FALSE
