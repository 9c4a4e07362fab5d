CONSTANTS
    Classes = {"ST2110Rx", "ST2110Tx", "Rdma", "Local"}
    ThreadsFail = TRUE
SPECIFICATION FairSpec
INVARIANTS NoThreadOutlives  ActiveIsOpen
PROPERTIES ShutdownCompletes
CHECK_DEADLOCK FALSE
