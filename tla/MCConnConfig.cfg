SPECIFICATION Spec
CONSTANTS
    Jsons <- MCJsons
    MaxMembers = 2
    UInt32 = 1073741824
    None = None
INVARIANTS
    LayoutSound
    
    TransferIsPayload
CHECK_DEADLOCK FALSE
