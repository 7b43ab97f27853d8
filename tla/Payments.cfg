SPECIFICATION FairSpec
CONSTANTS
    Workers = {w1, w2}
    Users = {u1, u2}
    Orders = {o1, o2}
    Operations = {p1, p2}
    NoOrder = NoOrder
    NoOperation = NoOperation
    Variants = {"global", "regional"}
    LegacyOrders = {o2}
    TrialEnd = 3
    TimeSteps = {40}
    MaxTime = 40
    MaxCrashes = 1
INVARIANTS
    TypeOK
    PaidIffCredited
    CreditedMeansPaid
    SuccessMeansCredited
    PayPalCreditsOnce
    PaidTimeKept
    NoFreeTime
PROPERTIES
    ImplementsLedger
    PaymentHonoured
CHECK_DEADLOCK FALSE
