SPECIFICATION Spec
CONSTANTS
    RingSize = 4
    IndexMod = 8
    WorkBufs = 2
    MaxHeld = 1
INVARIANTS NoneLost
