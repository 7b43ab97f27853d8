SPECIFICATION Spec
CONSTANTS
    Workers = {w1}
    Kinds = {"daily"}
    Horizon = 2
    MaxDate = 4
    MaxCorrections = 0
    MaxCrashes = 0
INVARIANTS
    ExitNotBeforeEntry
CHECK_DEADLOCK FALSE
