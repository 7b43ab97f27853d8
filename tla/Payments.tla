------------------------------ MODULE Payments ------------------------------
(***************************************************************************)
(* Orders, payment notifications and subscriptions (app/api/payments.py).  *)
(*                                                                         *)
(* The product runs in one of two variants.  "global" sells through        *)
(* PayAnyWay: the checkout inserts an order and the provider calls the     *)
(* notify handler, again and again until it reads SUCCESS.  "regional"     *)
(* (br, id) sells through PayPal: an order is created at PayPal and then   *)
(* inserted, and the customer's browser asks the capture handler to take   *)
(* the money.                                                              *)
(*                                                                         *)
(* Handlers of several requests run at the same time, each on a database   *)
(* connection of its own.  A SELECT before the first INSERT is a snapshot  *)
(* of its own; the INSERT of the notification, the reads and writes of     *)
(* _activate_subscription and the commit are one transaction.              *)
(***************************************************************************)
EXTENDS Integers, FiniteSets

CONSTANTS
    Workers,        \* requests in progress
    Users,
    Orders,         \* transaction_id
    Operations,     \* MNT_OPERATION_ID, or the capture id of PayPal
    NoOrder, NoOperation,
    Variants,       \* the product variants a deployment may run: "global", "regional"
    LegacyOrders,   \* orders of the test7 plan, which is no longer sold
    TrialEnd,       \* the day the trial of every user ends
    TimeSteps,      \* bound: numbers of days that may pass at once
    MaxTime,        \* bound: the last day
    MaxCrashes      \* bound: requests that die half way

ASSUME PaymentsAssumption ==
    /\ NoOrder \notin Orders /\ NoOperation \notin Operations
    /\ LegacyOrders \subseteq Orders
    /\ Variants \subseteq {"global", "regional"}
    /\ TrialEnd \in Nat /\ MaxTime \in Nat /\ MaxCrashes \in Nat
    /\ TimeSteps \subseteq Nat

VARIABLES
    variant,         \* the variant this deployment runs
    now,             \* today
    orders,          \* payment_orders
    notifications,   \* payment_notifications, UNIQUE (provider, operation_id)
    until,           \* user_subscriptions.access_until, 0 for no row
    bank,            \* the provider's books: what each operation has paid
    offered,         \* orders created at PayPal and not yet inserted
    answered,        \* operations whose caller was told SUCCESS or COMPLETED
    proc,            \* what each worker is doing
    crashes          \* how many requests have died so far

vars == <<variant, now, orders, notifications, until, bank, offered, answered, proc, crashes>>

-----------------------------------------------------------------------------
(* Values *)

Plans == {"test7", "month", "year"}
PublicPlans == {"month", "year"}

Absent == [status |-> "absent"]
Pending(u, plan) == [status |-> "pending", user |-> u, plan |-> plan, op |-> NoOperation]

Order == [status: {"pending", "paid"}, user: Users, plan: Plans,
          op: Operations \cup {NoOperation}]

Notification == [op: Operations, order: Orders]

\* agreed: amount, currency, subscriber and test mode are those of the order.
Terms == {"agreed", "other"}
NoPayment == [order |-> NoOrder, terms |-> "other"]
Payment == [order: Orders, terms: Terms]

Offer == [order: Orders, user: Users, plan: PublicPlans]

Idle == [at |-> "idle", order |-> NoOrder, op |-> NoOperation, seen |-> "absent"]

Proc == [at: {"idle", "lookup", "capture", "recheck", "write", "reply"},
         order: Orders \cup {NoOrder}, op: Operations \cup {NoOperation},
         seen: {"absent", "pending", "paid"}]

Exists(o) == orders[o].status # "absent"
Fresh(o) == ~Exists(o) /\ \A x \in offered : x.order # o
Paid(op) == bank[op] # NoPayment
Notified(op) == \E n \in notifications : n.op = op

Received == {op \in Operations : bank[op].terms = "agreed"}

\* The ledger's view: what each operation was for, and which ones gave access.
ReceivedFor == [op \in Received |-> [user |-> orders[bank[op].order].user,
                                     plan |-> orders[bank[op].order].plan]]
Credited == {n.op : n \in notifications}

Ledger == INSTANCE SubscriptionLedger WITH received <- ReceivedFor, credited <- Credited

-----------------------------------------------------------------------------
(* Orders *)

\* payanyway_checkout
Checkout(o, u, plan) ==
    /\ variant = "global"
    /\ Fresh(o)
    /\ orders' = [orders EXCEPT ![o] = Pending(u, plan)]
    /\ UNCHANGED <<now, notifications, until, bank, offered, answered, proc, crashes, variant>>

\* paypal_create_order: the order exists at PayPal before it does here ...
CreateRemote(o, u, plan) ==
    /\ variant = "regional"
    /\ Fresh(o)
    /\ offered' = offered \cup {[order |-> o, user |-> u, plan |-> plan]}
    /\ UNCHANGED <<now, orders, notifications, until, bank, answered, proc, crashes, variant>>

\* ... and a request that dies in between leaves it unknown here for good.
InsertOrder(x) ==
    /\ offered' = offered \ {x}
    /\ orders' = [orders EXCEPT ![x.order] = Pending(x.user, x.plan)]
    /\ UNCHANGED <<now, notifications, until, bank, answered, proc, crashes, variant>>

-----------------------------------------------------------------------------
(* _activate_subscription and the transaction around it *)

\* Mutant: the running subscription is replaced instead of extended.
ExtendedFromToday(current, today, plan) ==
    LET base == IF plan = "test7" THEN today ELSE Ledger!Later(today, TrialEnd)
    IN  base + Ledger!Days(plan)

\* access_until of a subscription that ends at current, after buying plan today.
Extended(current, today, plan) ==
    LET base == IF plan = "test7" THEN today
                ELSE Ledger!Later(Ledger!Later(today, current), TrialEnd)
    IN  base + Ledger!Days(plan)

\* Mutant: the amount, currency and mode of the notification are not compared.
MatchesOrderLoosely(op, o) == Exists(o)

\* _validate_order_notification, or the checks of a PayPal capture.
MatchesOrder(op, o) == Exists(o) /\ bank[op].terms = "agreed"

\* Mutant: the order is left pending.
SettledHalf(row, op) == [row EXCEPT !.op = op]

\* Mutant: the status column is given the operation.
SettledShifted(row, op) == [row EXCEPT !.status = op]

Settled(row, op) == [row EXCEPT !.status = "paid", !.op = op]

\* Mutant: the notification table has no unique index.
Insertable(op) == TRUE

\* UNIQUE (provider, operation_id)
Unique(op) == ~Notified(op)

\* Insert the notification, extend the subscription, settle the order and commit, in one
\* transaction;
\* a second insert of the operation is an IntegrityError, which nothing catches.
Record(w) ==
    LET o == proc[w].order
        op == proc[w].op
    IN  /\ proc[w].at = "write"
        /\ IF Unique(op)
           THEN /\ notifications' = notifications \cup {[op |-> op, order |-> o]}
                /\ until' = [until EXCEPT ![orders[o].user] =
                                Extended(@, now, orders[o].plan)]
                /\ orders' = [orders EXCEPT ![o] = Settled(@, op)]
                /\ proc' = [proc EXCEPT ![w].at = "reply"]
           ELSE /\ proc' = [proc EXCEPT ![w] = Idle]
                /\ UNCHANGED <<notifications, until, orders>>
        /\ UNCHANGED <<now, bank, offered, answered, crashes, variant>>

\* The caller reads SUCCESS (PayAnyWay) or COMPLETED (the browser).
Reply(w) ==
    /\ proc[w].at = "reply"
    /\ answered' = answered \cup {proc[w].op}
    /\ proc' = [proc EXCEPT ![w] = Idle]
    /\ UNCHANGED <<now, orders, notifications, until, bank, offered, crashes, variant>>

-----------------------------------------------------------------------------
(* PayAnyWay *)

\* A customer pays for an order, which PayAnyWay accepts as often as it is paid.
Pay(op, o) ==
    /\ variant = "global"
    /\ ~Paid(op) /\ Exists(o)
    /\ \E t \in Terms : bank' = [bank EXCEPT ![op] = [order |-> o, terms |-> t]]
    /\ UNCHANGED <<now, orders, notifications, until, offered, answered, proc, crashes, variant>>

\* payanyway_notify reads the order; what does not match it is answered FAIL.
Notify(w, op) ==
    /\ variant = "global"
    /\ proc[w] = Idle /\ Paid(op)
    /\ LET o == bank[op].order IN
          /\ MatchesOrder(op, o)
          /\ proc' = [proc EXCEPT ![w] = [at |-> "lookup", order |-> o, op |-> op,
                                          seen |-> orders[o].status]]
    /\ UNCHANGED <<now, orders, notifications, until, bank, offered, answered, crashes, variant>>

\* Mutant: an order that is already paid is answered SUCCESS.
AfterLookUpLenient(w) ==
    IF Notified(proc[w].op) \/ proc[w].seen = "paid"
    THEN [proc[w] EXCEPT !.at = "reply"]
    ELSE [proc[w] EXCEPT !.at = "write"]

\* Mutant: SUCCESS is answered first.
AfterLookUpEager(w) == [proc[w] EXCEPT !.at = "reply"]

\* A known operation is answered SUCCESS, a new one for a paid order FAIL.
AfterLookUp(w) ==
    IF Notified(proc[w].op) THEN [proc[w] EXCEPT !.at = "reply"]
    ELSE IF proc[w].seen = "paid" THEN Idle
    ELSE [proc[w] EXCEPT !.at = "write"]

LookUp(w) ==
    /\ proc[w].at = "lookup"
    /\ proc' = [proc EXCEPT ![w] = AfterLookUp(w)]
    /\ UNCHANGED <<now, orders, notifications, until, bank, offered, answered, crashes, variant>>

-----------------------------------------------------------------------------
(* PayPal *)

\* paypal_capture_order: an order that is paid is answered at once.
StartCapture(w, o) ==
    /\ variant = "regional"
    /\ proc[w] = Idle
    /\ orders[o].status = "pending"
    /\ proc' = [proc EXCEPT ![w] = [Idle EXCEPT !.at = "capture", !.order = o]]
    /\ UNCHANGED <<now, orders, notifications, until, bank, offered, answered, crashes, variant>>

\* Mutant: no PayPal-Request-Id, each request takes the money once more.
CapturesAgain(o) == {op \in Operations : ~Paid(op)}

\* The PayPal-Request-Id "capture-<order>" makes a retry return the first capture.
Captures(o) ==
    IF \E op \in Operations : bank[op].order = o
    THEN {op \in Operations : bank[op].order = o}
    ELSE {op \in Operations : ~Paid(op)}

\* PayPal takes the money; its answer may be lost, or not match the order.
CaptureRemote(w) ==
    LET o == proc[w].order IN
    /\ proc[w].at = "capture"
    /\ \E op \in Captures(o), t \in Terms :
          /\ bank' = [bank EXCEPT ![op] =
                         IF Paid(op) THEN @ ELSE [order |-> o, terms |-> t]]
          /\ \/ proc' = [proc EXCEPT ![w] = Idle]
             \/ /\ bank'[op].terms = "agreed"
                /\ proc' = [proc EXCEPT ![w].at = "recheck", ![w].op = op]
    /\ UNCHANGED <<now, orders, notifications, until, offered, answered, crashes, variant>>

\* PayPal refuses, or cannot be reached.
CaptureFails(w) ==
    /\ proc[w].at = "capture"
    /\ proc' = [proc EXCEPT ![w] = Idle]
    /\ UNCHANGED <<now, orders, notifications, until, bank, offered, answered, crashes, variant>>

\* The order is read again on a new connection.
Recheck(w) ==
    /\ proc[w].at = "recheck"
    /\ proc' = [proc EXCEPT ![w].at = IF orders[proc[w].order].status = "paid"
                                      THEN "reply" ELSE "write"]
    /\ UNCHANGED <<now, orders, notifications, until, bank, offered, answered, crashes, variant>>

-----------------------------------------------------------------------------

\* The process stops, or the request is cancelled, between two steps.
Crash(w) ==
    /\ proc[w] # Idle
    /\ crashes < MaxCrashes
    /\ crashes' = crashes + 1
    /\ proc' = [proc EXCEPT ![w] = Idle]
    /\ UNCHANGED <<now, orders, notifications, until, bank, offered, answered, variant>>

Tick ==
    /\ \E d \in TimeSteps : now + d <= MaxTime /\ now' = now + d
    /\ UNCHANGED <<orders, notifications, until, bank, offered, answered, proc, crashes, variant>>

Init ==
    /\ variant \in Variants
    /\ now = 0
    /\ \E buyer \in [LegacyOrders -> Users] :
          orders = [o \in Orders |-> IF o \in LegacyOrders /\ variant = "global"
                                     THEN Pending(buyer[o], "test7") ELSE Absent]
    /\ notifications = {}
    /\ until = [u \in Users |-> 0]
    /\ bank = [op \in Operations |-> NoPayment]
    /\ offered = {}
    /\ answered = {}
    /\ proc = [w \in Workers |-> Idle]
    /\ crashes = 0

Handle(w) == LookUp(w) \/ CaptureRemote(w) \/ CaptureFails(w) \/ Recheck(w)
                \/ Record(w) \/ Reply(w)

Next ==
    \/ \E o \in Orders, u \in Users, plan \in PublicPlans :
          Checkout(o, u, plan) \/ CreateRemote(o, u, plan)
    \/ \E x \in offered : InsertOrder(x)
    \/ \E op \in Operations, o \in Orders : Pay(op, o)
    \/ \E w \in Workers, op \in Operations : Notify(w, op)
    \/ \E w \in Workers, o \in Orders : StartCapture(w, o)
    \/ \E w \in Workers : Handle(w) \/ Crash(w)
    \/ Tick

Spec == Init /\ [][Next]_vars

\* A running request is scheduled, and PayAnyWay repeats a notification until it
\* is answered SUCCESS.
FairSpec ==
    /\ Spec
    /\ \A w \in Workers : WF_vars(Handle(w))
    /\ \A op \in Operations :
          SF_vars(op \notin answered /\ \E w \in Workers : Notify(w, op))

-----------------------------------------------------------------------------
(* Properties *)

\* Every table and program counter holds values of its type.
TypeOK ==
    /\ variant \in Variants
    /\ now \in Nat
    /\ orders \in [Orders -> Order \cup {Absent}]
    /\ notifications \subseteq Notification
    /\ until \in [Users -> Nat]
    /\ bank \in [Operations -> Payment \cup {NoPayment}]
    /\ offered \subseteq Offer
    /\ answered \subseteq Operations
    /\ proc \in [Workers -> Proc]
    /\ crashes \in 0..MaxCrashes

\* An order is paid exactly if an operation was recorded for it, and it names one.
PaidIffCredited ==
    \A o \in Orders :
        IF orders[o].status = "paid"
        THEN \E n \in notifications : n.op = orders[o].op /\ n.order = o
        ELSE \A n \in notifications : n.order # o

\* Access is only given for an operation that has paid this order in full.
CreditedMeansPaid ==
    \A n \in notifications : bank[n.op].order = n.order /\ bank[n.op].terms = "agreed"

\* No caller is told of success for an operation that was not credited.
SuccessMeansCredited == \A op \in answered : Notified(op)

Credits(u, plan) == {n \in notifications : /\ orders[n.order].user = u
                                           /\ orders[n.order].plan = plan}

\* How long the purchases of a plan are worth.
PaidDays(u, plan) == Ledger!Days(plan) * Cardinality(Credits(u, plan))

\* Whatever order requests come in, every day a user has paid for is in the
\* subscription (the seven day test resets it).
PaidTimeKept ==
    \A u \in Users : Credits(u, "test7") = {} =>
        until[u] >= PaidDays(u, "month") + PaidDays(u, "year")

\* Nobody has more time than trial and recorded payments are worth.
NoFreeTime ==
    \A u \in Users :
        until[u] <= Ledger!Later(now, TrialEnd)
                      + PaidDays(u, "test7") + PaidDays(u, "month") + PaidDays(u, "year")

\* An order is credited once ("Payment order is already paid").
OrderCreditedOnce ==
    \A m, n \in notifications : m.order = n.order => m = n

\* With PayPal, where the PayPal-Request-Id makes a retried capture return the
\* first one, an order is credited once however many captures overlap.
PayPalCreditsOnce == variant = "regional" => OrderCreditedOnce

\* The handlers implement the ledger: time is given in one step per operation.
ImplementsLedger == Ledger!LedgerSpec

\* A customer who has paid PayAnyWay gets the order, however often a notification fails.
\* Nobody repeats the capture of an order at PayPal.
PaymentHonoured ==
    \A op \in Operations, o \in Orders :
        /\ variant = "global"
        /\ bank[op].order = o /\ bank[op].terms = "agreed"
        ~> orders[o].status = "paid"
=============================================================================
