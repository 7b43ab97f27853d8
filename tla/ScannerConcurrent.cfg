SPECIFICATION Spec
CONSTANTS
    Workers = {w1,w2}
    Kinds = {"daily", "page", "export", "manual"}
    Horizon = 2
    MaxDate = 2
    MaxCorrections = 1
    MaxCrashes = 0
SYMMETRY WorkerSymmetry
INVARIANTS
    ExitIsWhole
    JournalEntriesMatch
PROPERTIES
    HistoryFrozen
CHECK_DEADLOCK FALSE
