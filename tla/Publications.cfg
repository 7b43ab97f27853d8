SPECIFICATION Spec
CONSTANTS
    Signals = {s1, s2}
    TickerOf <- OwnTicker
    Quotes = {q1, q2}
    NoQuote = NoQuote
    NoSignal = NoSignal
    RepeatDays = 0
    UpdateLimit = 1
    MaxDay = 2
    MaxFaults = 1
    MaxCrashes = 1
SYMMETRY SymmetrySets
INVARIANTS
    TypeOK
    EntryIsTold
    ExitIsTold
    OneSignalPerDate
PROPERTIES
    ImplementsFeed
CHECK_DEADLOCK FALSE
