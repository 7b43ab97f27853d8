SPECIFICATION Spec
CONSTANTS
    Workers = {w1, w2}
    Horizon = 3
    MaxDate = 3
SYMMETRY WorkerSymmetry
INVARIANTS
    OneActive
    EpisodeTradedOnce
    MarkStable
PROPERTIES
    NeverReopened
CHECK_DEADLOCK FALSE
