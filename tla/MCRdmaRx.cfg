CONSTANTS
    Bufs = {b1, b2}
    Eps = 2
    REORDER_WINDOW = 4
    MaxSeq = 6
    Faults = 1
    Skips = 1
    FirstArrivesFirst = TRUE
    NoBuf = NoBuf
SPECIFICATION FairSpec
INVARIANTS OneOwner InOrder
PROPERTIES FramesDelivered ShutdownJoins
CHECK_DEADLOCK FALSE
