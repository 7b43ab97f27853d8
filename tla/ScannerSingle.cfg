SPECIFICATION FairSpec
CONSTANTS
    Workers = {w1}
    Kinds = {"daily", "tab", "page", "manual"}
    Horizon = 2
    MaxDate = 3
    MaxCorrections = 0
    MaxCrashes = 1
INVARIANTS
    TypeOK
    ObservedOncePerDate
    QuotesMatchDates
    ExitFrozenTogether
    JournalMatchesPeriods
    ExitNotBeforeEntryIfDaily
    ReentryOnlyAfterGap
PROPERTIES
    OverReachesJournal
CHECK_DEADLOCK FALSE
