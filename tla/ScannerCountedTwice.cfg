SPECIFICATION Spec
CONSTANTS
    Workers = {w1,w2}
    Kinds = {"page"}
    Horizon = 2
    MaxDate = 2
    MaxCorrections = 0
    MaxCrashes = 0
SYMMETRY WorkerSymmetry
INVARIANTS
    ObservedOncePerDate
CHECK_DEADLOCK FALSE
