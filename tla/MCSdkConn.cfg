SPECIFICATION Spec
CONSTANTS
    RingSize = 2
    IndexMod = 8
    WorkBufs = 2
    MaxHeld = 2
INVARIANTS  NoneLost
PROPERTIES ShutdownEnds
