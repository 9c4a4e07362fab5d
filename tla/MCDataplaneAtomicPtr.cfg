CONSTANTS
    Ptrs = {0, 4, 8, 12}
    Writers = {w1, w2}
    Distinct = TRUE
SPECIFICATION FairSpec
INVARIANTS TypeOK NoStaleUse LoadReturnsLatest
PROPERTIES StoreWaitReturns ImplementsGracePeriod
