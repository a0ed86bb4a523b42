SPECIFICATION Spec
CONSTANTS
    m1 = m1
    m2 = m2
    Model <- MCModel
    TableOf <- OwnTables
    NamespaceOf <- Ns
    Config <- MCConfig
    MaxVersion = 3
    MaxEvents = 4
    MaxFaults = 1
INVARIANT TableMatchesSchema
INVARIANT StoredWithoutReaders
PROPERTY ReplayCompletes
CHECK_DEADLOCK FALSE
