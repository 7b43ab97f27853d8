SPECIFICATION Spec
CONSTANTS
    Workers = {w1, w2}
    Users = {u1}
    Orders = {o1}
    Operations = {p1, p2}
    NoOrder = NoOrder
    NoOperation = NoOperation
    Variants = {"global"}
    LegacyOrders = {}
    TrialEnd = 3
    TimeSteps = {40}
    MaxTime = 0
    MaxCrashes = 0
SYMMETRY RequestSymmetry
INVARIANTS
    OrderCreditedOnce
CHECK_DEADLOCK FALSE
