SPECIFICATION Spec
CONSTANTS
    c1 = c1
    c2 = c2
    None = None
    Contract <- MCContract
    Emits <- MCEmits
    blocks_chunk_size = 1
    events_chunk_size = 2
    world_block = 0
    Preconfirmed = TRUE
    MaxTxs = 3
    MaxBlocks = 2
    MaxFaults = 1
INVARIANT CursorCovered
PROPERTY ImplementsIndexer
PROPERTY CatchesUp
CHECK_DEADLOCK FALSE
