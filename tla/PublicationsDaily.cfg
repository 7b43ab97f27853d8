SPECIFICATION FairSpec
CONSTANTS
    Signals = {s1, s2}
    TickerOf <- OwnTicker
    Quotes = {q1}
    NoQuote = NoQuote
    NoSignal = NoSignal
    RepeatDays = 1
    UpdateLimit = 1
    MaxDay = 3
    MaxFaults = 0
    MaxCrashes = 1
PROPERTIES
    EndIsKept
CHECK_DEADLOCK FALSE
