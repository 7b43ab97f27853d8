SPECIFICATION Spec
CONSTANTS
    Workers = {w1, w2}
    Horizon = 3
    MaxDate = 3
PROPERTIES
    ClosedFrozen
CHECK_DEADLOCK FALSE
