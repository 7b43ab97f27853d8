SPECIFICATION FairSpec
CONSTANTS
    Workers = {w1}
    Horizon = 3
    MaxDate = 3
INVARIANTS
    TypeOK
    ClosedAfterOpened
    LossIsReal
PROPERTIES
    ClosedFrozen
    LostTradeCloses
CHECK_DEADLOCK FALSE
