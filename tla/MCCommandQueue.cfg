SPECIFICATION Spec
CONSTANTS
    MaxVersion = 1
    MaxStreams = 2
    QueueCap = 1
CHECK_DEADLOCK FALSE
INVARIANTS
    MapEntryIsOpen
PROPERTIES
    NeverOlder
    
