SPECIFICATION FairSpec
CONSTANTS
    Workers = {w1, w2}
    Tickers = {t1}
    Prices = {1, 2}
    NoPrice = NoPrice
    Target = 1
    Stop = 1
    MaxHoldBars = 2
    BatchLimit = 1
    MaxAttempts = 2
    MaxBar = 4
    MaxTroubles = 2
INVARIANTS
    TypeOK
    ExitIsFirst
    PositionsApart
    ToldOnce
PROPERTIES
    EventsAreTold
CHECK_DEADLOCK FALSE
