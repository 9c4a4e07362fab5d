CONSTANTS
    Bufs = {b1, b2, b3}
    NoBuf = NoBuf
    Slow = FALSE
SPECIFICATION FairSpec
INVARIANTS TypeOK OneOwner NoLostWakeup
PROPERTIES BuffersReplenished ShutdownJoins
CHECK_DEADLOCK FALSE
