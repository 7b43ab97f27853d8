--------------------------- MODULE PaymentsProofs ---------------------------
(***************************************************************************)
(* Proofs about Payments, for any number of requests, users, orders and    *)
(* operations.                                                             *)
(***************************************************************************)
EXTENDS Payments, FiniteSetTheorems, TLAPS

\* A payment is for an order that is in the table.
BankKnown == \A op \in Operations : Paid(op) => Exists(bank[op].order)

\* An order waiting to be inserted is not in the table, and waits once.
OffersFresh ==
    /\ \A x \in offered : ~Exists(x.order)
    /\ \A x, y \in offered : x.order = y.order => x = y

\* A PayPal order is captured by one operation.
CapturedOnce ==
    variant = "regional" =>
        \A p, q \in Operations :
            Paid(p) /\ Paid(q) /\ bank[p].order = bank[q].order => p = q

\* What a request in progress may rely on at each of its steps.
RequestOK(w) ==
    /\ proc[w].at = "capture" => Exists(proc[w].order) /\ proc[w].order \in Orders
    /\ proc[w].at \in {"capture", "recheck"} => variant = "regional"
    /\ proc[w].at \in {"lookup", "recheck", "write", "reply"} =>
          /\ proc[w].op \in Operations
          /\ proc[w].order \in Orders
          /\ bank[proc[w].op].order = proc[w].order
          /\ bank[proc[w].op].terms = "agreed"
    /\ proc[w].at = "reply" => Notified(proc[w].op)

RequestsOK == \A w \in Workers : RequestOK(w)

\* The inductive invariant.
IInv ==
    /\ TypeOK /\ BankKnown /\ OffersFresh /\ CapturedOnce /\ RequestsOK
    /\ PaidIffCredited /\ CreditedMeansPaid /\ SuccessMeansCredited

-----------------------------------------------------------------------------

\* The extended subscription is a date again.
LEMMA ExtendedType ==
    ASSUME NEW current \in Nat, NEW today \in Nat, NEW plan \in Plans
    PROVE  Extended(current, today, plan) \in Nat
BY PaymentsAssumption
   DEF Extended, Ledger!Later, Ledger!Days, Plans

\* The handler computes the end that the ledger asks for.
LEMMA ExtendedAgrees ==
    ASSUME NEW current \in Nat, NEW today \in Nat, NEW plan \in Plans
    PROVE  Extended(current, today, plan) = Ledger!Extended(current, today, plan)
BY PaymentsAssumption
   DEF Extended, Ledger!Extended, Ledger!Later, Ledger!Days, Plans

LEMMA InitIInv == Init => IInv
<1> SUFFICES ASSUME Init PROVE IInv
  OBVIOUS
<1> USE PaymentsAssumption DEF Init
<1>1. TypeOK
  BY DEF TypeOK, Order, Absent, Pending, Plans, NoPayment, Proc, Idle
<1>2. \A o \in Orders : orders[o].status # "paid"
  BY DEF Absent, Pending
<1>3. BankKnown /\ OffersFresh /\ CapturedOnce
  BY DEF BankKnown, OffersFresh, CapturedOnce, Paid
<1>4. RequestsOK
  BY DEF RequestsOK, RequestOK, Idle
<1>5. PaidIffCredited /\ CreditedMeansPaid /\ SuccessMeansCredited
  BY <1>2 DEF PaidIffCredited, CreditedMeansPaid, SuccessMeansCredited
<1> QED
  BY <1>1, <1>3, <1>4, <1>5 DEF IInv

-----------------------------------------------------------------------------
(* One lemma per action: the invariant is kept. *)

LEMMA CheckoutStep ==
    ASSUME IInv, NEW o \in Orders, NEW u \in Users, NEW plan \in PublicPlans,
           Checkout(o, u, plan)
    PROVE  IInv'
<1> USE DEF IInv, Checkout, Fresh, Exists, Pending, Absent
<1>1. TypeOK'
  BY DEF TypeOK, Order, Plans, PublicPlans
<1>2. \A p \in Orders : p # o => orders'[p] = orders[p]
  BY DEF TypeOK
<1>3. orders'[o].status = "pending"
  BY DEF TypeOK
<1>4. BankKnown' /\ CapturedOnce'
  BY <1>2, <1>3 DEF TypeOK, Payment, NoPayment, BankKnown, CapturedOnce, Paid
<1>5. OffersFresh'
  BY <1>2 DEF TypeOK, Offer, OffersFresh
<1>6. RequestsOK'
  BY <1>2, <1>3 DEF RequestsOK, RequestOK, Notified
<1>7. PaidIffCredited' /\ CreditedMeansPaid' /\ SuccessMeansCredited'
  BY <1>1, <1>2, <1>3
     DEF PaidIffCredited, CreditedMeansPaid, SuccessMeansCredited, Notified
<1> QED
  BY <1>1, <1>4, <1>5, <1>6, <1>7

LEMMA CreateRemoteStep ==
    ASSUME IInv, NEW o \in Orders, NEW u \in Users, NEW plan \in PublicPlans,
           CreateRemote(o, u, plan)
    PROVE  IInv'
<1> USE DEF IInv, CreateRemote, Fresh, Exists
<1>1. TypeOK'
  BY DEF TypeOK, Offer
<1>2. OffersFresh'
  BY DEF OffersFresh
<1>3. BankKnown' /\ CapturedOnce' /\ RequestsOK'
  BY DEF BankKnown, CapturedOnce, RequestsOK, RequestOK, Paid, Notified
<1>4. PaidIffCredited' /\ CreditedMeansPaid' /\ SuccessMeansCredited'
  BY DEF PaidIffCredited, CreditedMeansPaid, SuccessMeansCredited, Notified
<1> QED
  BY <1>1, <1>2, <1>3, <1>4

LEMMA InsertOrderStep ==
    ASSUME IInv, NEW x \in offered, InsertOrder(x)
    PROVE  IInv'
<1> USE DEF IInv, InsertOrder, Exists, Pending, Absent
<1>0. /\ x.order \in Orders /\ x.user \in Users /\ x.plan \in PublicPlans
      /\ orders[x.order].status = "absent"
  BY DEF TypeOK, Offer, OffersFresh
<1>1. TypeOK'
  BY <1>0 DEF TypeOK, Order, Plans, PublicPlans
<1>2. \A p \in Orders : p # x.order => orders'[p] = orders[p]
  BY DEF TypeOK
<1>3. orders'[x.order].status = "pending"
  BY <1>0 DEF TypeOK
<1>4. OffersFresh'
  BY <1>0, <1>2 DEF OffersFresh, TypeOK, Offer
<1>5. BankKnown' /\ CapturedOnce'
  BY <1>0, <1>2, <1>3 DEF TypeOK, Payment, NoPayment, BankKnown, CapturedOnce, Paid
<1>7. RequestsOK'
  BY <1>0, <1>2, <1>3 DEF RequestsOK, RequestOK, Notified
<1>6. PaidIffCredited' /\ CreditedMeansPaid' /\ SuccessMeansCredited'
  BY <1>0, <1>2, <1>3
     DEF PaidIffCredited, CreditedMeansPaid, SuccessMeansCredited, Notified
<1> QED
  BY <1>1, <1>4, <1>5, <1>6, <1>7

LEMMA PayStep ==
    ASSUME IInv, NEW op \in Operations, NEW o \in Orders, Pay(op, o)
    PROVE  IInv'
<1> USE DEF IInv, Pay, Exists, Paid
<1>1. PICK t \in Terms : bank' = [bank EXCEPT ![op] = [order |-> o, terms |-> t]]
  OBVIOUS
<1>2. TypeOK'
  BY <1>1 DEF TypeOK, Payment, Terms
<1>3. \A p \in Operations : p # op => bank'[p] = bank[p]
  BY <1>1 DEF TypeOK
<1>4. bank[op].order = NoOrder /\ NoOrder \notin Orders
  BY PaymentsAssumption DEF NoPayment
<1>5. \A n \in notifications : n.op \in Operations /\ n.op # op
  <2>1. \A n \in notifications : n.op \in Operations /\ n.order \in Orders
    BY DEF TypeOK, Notification
  <2>2. \A n \in notifications : bank[n.op].order = n.order
    BY DEF CreditedMeansPaid
  <2> QED
    BY <1>4, <2>1, <2>2
<1>6. BankKnown' /\ OffersFresh' /\ CapturedOnce'
  BY <1>1, <1>3 DEF BankKnown, OffersFresh, CapturedOnce, TypeOK
<1>7. RequestsOK'
  BY <1>3, <1>4 DEF RequestsOK, RequestOK, Notified
<1>8. PaidIffCredited' /\ CreditedMeansPaid' /\ SuccessMeansCredited'
  BY <1>3, <1>5 DEF PaidIffCredited, CreditedMeansPaid, SuccessMeansCredited, Notified
<1> QED
  BY <1>2, <1>6, <1>7, <1>8

\* The steps that only move a request's program counter leave the tables alone.
LEMMA TablesKept ==
    ASSUME IInv, UNCHANGED <<now, orders, notifications, until, bank, offered, variant>>,
           proc' \in [Workers -> Proc], crashes' \in 0..MaxCrashes,
           answered' \subseteq Operations, SuccessMeansCredited', RequestsOK'
    PROVE  IInv'
<1> USE DEF IInv
<1>1. TypeOK'
  BY DEF TypeOK
<1>2. BankKnown' /\ OffersFresh' /\ CapturedOnce'
  BY DEF BankKnown, OffersFresh, CapturedOnce, Paid, Exists
<1>3. PaidIffCredited' /\ CreditedMeansPaid'
  BY DEF PaidIffCredited, CreditedMeansPaid
<1> QED
  BY <1>1, <1>2, <1>3

LEMMA NotifyStep ==
    ASSUME IInv, NEW w \in Workers, NEW op \in Operations, Notify(w, op)
    PROVE  IInv'
<1> USE DEF IInv, Notify, Exists, MatchesOrder, Paid
<1>1. bank[op].order \in Orders
  BY DEF TypeOK, Payment
<1>2. orders[bank[op].order].status \in {"absent", "pending", "paid"}
  BY <1>1 DEF TypeOK, Order, Absent
<1>3. proc' \in [Workers -> Proc]
  BY <1>1, <1>2 DEF TypeOK, Proc
<1>4. \A v \in Workers : v # w => proc'[v] = proc[v]
  BY DEF TypeOK
<1>5. /\ proc'[w].at = "lookup" /\ proc'[w].op = op
      /\ proc'[w].order = bank[op].order
  BY DEF TypeOK
<1>6. RequestsOK'
  BY <1>1, <1>4, <1>5 DEF RequestsOK, RequestOK, Notified
<1>7. SuccessMeansCredited'
  BY DEF SuccessMeansCredited, Notified
<1> QED
  BY <1>3, <1>6, <1>7, TablesKept DEF TypeOK

LEMMA LookUpStep ==
    ASSUME IInv, NEW w \in Workers, LookUp(w)
    PROVE  IInv'
<1> USE DEF IInv, LookUp, AfterLookUp
<1>1. proc' \in [Workers -> Proc]
  BY DEF TypeOK, Proc, Idle
<1>2. \A v \in Workers : v # w => proc'[v] = proc[v]
  BY DEF TypeOK
<1>3. \/ proc'[w].at = "idle"
      \/ /\ proc'[w].at \in {"reply", "write"}
         /\ proc'[w].at = "reply" => Notified(proc[w].op)
         /\ proc'[w].op = proc[w].op /\ proc'[w].order = proc[w].order
  BY DEF TypeOK, Proc, Idle
<1>4. RequestsOK'
  BY <1>2, <1>3 DEF RequestsOK, RequestOK, Notified, Exists
<1>5. SuccessMeansCredited'
  BY DEF SuccessMeansCredited, Notified
<1> QED
  BY <1>1, <1>4, <1>5, TablesKept DEF TypeOK

LEMMA ReplyStep ==
    ASSUME IInv, NEW w \in Workers, Reply(w)
    PROVE  IInv'
<1> USE DEF IInv, Reply
<1>1. proc[w].op \in Operations /\ Notified(proc[w].op)
  BY DEF RequestsOK, RequestOK
<1>2. proc' \in [Workers -> Proc] /\ answered' \subseteq Operations
  BY <1>1 DEF TypeOK, Proc, Idle
<1>3. (\A v \in Workers : v # w => proc'[v] = proc[v]) /\ proc'[w].at = "idle"
  BY DEF TypeOK, Idle
<1>4. RequestsOK'
  BY <1>3 DEF RequestsOK, RequestOK, Notified, Exists
<1>5. SuccessMeansCredited'
  BY <1>1 DEF SuccessMeansCredited, Notified
<1> QED
  BY <1>2, <1>4, <1>5, TablesKept DEF TypeOK

LEMMA StartCaptureStep ==
    ASSUME IInv, NEW w \in Workers, NEW o \in Orders, StartCapture(w, o)
    PROVE  IInv'
<1> USE DEF IInv, StartCapture, Exists
<1>1. proc' \in [Workers -> Proc]
  BY DEF TypeOK, Proc, Idle
<1>2. /\ \A v \in Workers : v # w => proc'[v] = proc[v]
      /\ proc'[w].at = "capture" /\ proc'[w].order = o
  BY DEF TypeOK, Idle
<1>3. RequestsOK'
  BY <1>2 DEF RequestsOK, RequestOK, Notified
<1>4. SuccessMeansCredited'
  BY DEF SuccessMeansCredited, Notified
<1> QED
  BY <1>1, <1>3, <1>4, TablesKept DEF TypeOK

\* A request that fails or dies leaves nothing behind.
LEMMA AbandonStep ==
    ASSUME IInv, NEW w \in Workers, CaptureFails(w) \/ Crash(w)
    PROVE  IInv'
<1> USE DEF IInv, CaptureFails, Crash
<1>1. proc' = [proc EXCEPT ![w] = Idle]
  OBVIOUS
<1>2. proc' \in [Workers -> Proc]
  BY <1>1 DEF TypeOK, Proc, Idle
<1>3. (\A v \in Workers : v # w => proc'[v] = proc[v]) /\ proc'[w].at = "idle"
  BY <1>1 DEF TypeOK, Idle
<1>4. crashes' \in 0..MaxCrashes
  BY PaymentsAssumption DEF TypeOK
<1>5. RequestsOK'
  BY <1>3 DEF RequestsOK, RequestOK, Notified, Exists
<1>6. SuccessMeansCredited'
  BY DEF SuccessMeansCredited, Notified
<1> QED
  BY <1>2, <1>4, <1>5, <1>6, TablesKept DEF TypeOK

LEMMA RecheckStep ==
    ASSUME IInv, NEW w \in Workers, Recheck(w)
    PROVE  IInv'
<1> USE DEF IInv, Recheck
<1> DEFINE o == proc[w].order
<1>1. proc' \in [Workers -> Proc]
  BY DEF TypeOK, Proc
<1>2. /\ \A v \in Workers : v # w => proc'[v] = proc[v]
      /\ proc'[w].at \in {"reply", "write"}
      /\ proc'[w].at = "reply" => orders[o].status = "paid"
      /\ proc'[w].op = proc[w].op /\ proc'[w].order = o
  BY DEF TypeOK, Proc
<1>3. /\ variant = "regional"
      /\ o \in Orders /\ proc[w].op \in Operations
      /\ bank[proc[w].op].order = o /\ bank[proc[w].op].terms = "agreed"
  BY DEF RequestsOK, RequestOK
<1>4. orders[o].status = "paid" => Notified(proc[w].op)
  <2> SUFFICES ASSUME orders[o].status = "paid"
               PROVE  Notified(proc[w].op)
    OBVIOUS
  <2>1. PICK n \in notifications : n.order = o
    BY <1>3 DEF PaidIffCredited
  <2>2. n.op \in Operations /\ bank[n.op].order = o
    BY <2>1 DEF CreditedMeansPaid, TypeOK, Notification
  <2>3. Paid(n.op) /\ Paid(proc[w].op)
    BY <1>3, <2>2, PaymentsAssumption DEF Paid, NoPayment
  <2>4. n.op = proc[w].op
    BY <1>3, <2>2, <2>3 DEF CapturedOnce
  <2> QED
    BY <2>4 DEF Notified
<1>5. RequestsOK'
  BY <1>2, <1>3, <1>4 DEF RequestsOK, RequestOK, Notified, Exists
<1>6. SuccessMeansCredited'
  BY DEF SuccessMeansCredited, Notified
<1> QED
  BY <1>1, <1>5, <1>6, TablesKept DEF TypeOK

LEMMA CaptureRemoteStep ==
    ASSUME IInv, NEW w \in Workers, CaptureRemote(w)
    PROVE  IInv'
<1> USE DEF IInv, CaptureRemote
<1> DEFINE o == proc[w].order
<1>0. /\ variant = "regional" /\ o \in Orders /\ Exists(o)
      /\ NoOrder \notin Orders
  BY PaymentsAssumption DEF RequestsOK, RequestOK
<1>1. PICK op \in Captures(o), t \in Terms :
         /\ bank' = [bank EXCEPT ![op] =
                        IF Paid(op) THEN @ ELSE [order |-> o, terms |-> t]]
         /\ \/ proc' = [proc EXCEPT ![w] = Idle]
            \/ /\ bank'[op].terms = "agreed"
               /\ proc' = [proc EXCEPT ![w].at = "recheck", ![w].op = op]
  OBVIOUS
<1>2. op \in Operations
  BY DEF Captures
<1>3. \A p \in Operations : p # op => bank'[p] = bank[p]
  BY <1>1 DEF TypeOK
<1>4. Paid(op) => bank' = bank /\ bank[op].order = o
  <2>1. Paid(op) => bank' = bank
    BY <1>1, <1>2 DEF TypeOK
  <2>2. Paid(op) => bank[op].order = o
    BY DEF Captures
  <2> QED
    BY <2>1, <2>2
<1>5. ~Paid(op) => bank'[op] = [order |-> o, terms |-> t]
  BY <1>1, <1>2 DEF TypeOK
<1>6. bank'[op].order = o
  BY <1>4, <1>5
<1>7. ~Paid(op) => \A p \in Operations : bank[p].order # o
  <2> SUFFICES ASSUME ~Paid(op), NEW p \in Operations, bank[p].order = o
               PROVE  FALSE
    OBVIOUS
  <2>1. bank[op].order = o
    BY DEF Captures
  <2> QED
    BY <1>0, <2>1 DEF Paid, NoPayment
<1>8. ~Paid(op) => \A n \in notifications : n.op \in Operations /\ n.op # op
  BY <1>0 DEF CreditedMeansPaid, TypeOK, Notification, Paid, NoPayment
<1>9. TypeOK'
  <2>1. bank' \in [Operations -> Payment \cup {NoPayment}]
    BY <1>0, <1>1, <1>2 DEF TypeOK, Payment
  <2>2. proc' \in [Workers -> Proc]
    BY <1>1, <1>2 DEF TypeOK, Proc, Idle
  <2> QED
    BY <2>1, <2>2 DEF TypeOK
<1>10. \A p \in Operations : Paid(p) => bank'[p] = bank[p]
  BY <1>3, <1>4
<1>11. BankKnown'
  BY <1>0, <1>3, <1>6 DEF BankKnown, Paid, Exists
<1>12. CapturedOnce'
  BY <1>3, <1>4, <1>6, <1>7 DEF CapturedOnce, Paid
<1>13. OffersFresh' /\ PaidIffCredited'
  BY DEF OffersFresh, PaidIffCredited, Exists
<1>14. CreditedMeansPaid' /\ SuccessMeansCredited'
  BY <1>3, <1>4, <1>8 DEF CreditedMeansPaid, SuccessMeansCredited, Notified
<1>15. ASSUME NEW v \in Workers, v # w PROVE RequestOK(v)'
  <2>1. proc'[v] = proc[v] /\ RequestOK(v)
    BY <1>1, <1>15 DEF TypeOK, RequestsOK
  <2>2. proc[v].op \in Operations /\ proc[v].order \in Orders
           /\ bank[proc[v].op].order = proc[v].order
        => bank'[proc[v].op] = bank[proc[v].op]
    BY <1>0, <1>3, <1>4 DEF Paid, NoPayment
  <2> QED
    BY <2>1, <2>2 DEF RequestOK, Notified, Exists
<1>16. RequestOK(w)'
  <2>1. CASE proc' = [proc EXCEPT ![w] = Idle]
    BY <2>1 DEF RequestOK, Idle, TypeOK
  <2>2. CASE /\ bank'[op].terms = "agreed"
             /\ proc' = [proc EXCEPT ![w].at = "recheck", ![w].op = op]
    <3>1. /\ proc'[w].at = "recheck" /\ proc'[w].op = op
          /\ proc'[w].order = o
      BY <2>2 DEF TypeOK, Proc
    <3> QED
      BY <1>0, <1>2, <1>6, <2>2, <3>1 DEF RequestOK
  <2> QED
    BY <1>1, <2>1, <2>2
<1> QED
  BY <1>9, <1>11, <1>12, <1>13, <1>14, <1>15, <1>16 DEF RequestsOK

LEMMA RecordStep ==
    ASSUME IInv, NEW w \in Workers, Record(w)
    PROVE  IInv'
<1> USE DEF IInv, Record, Unique
<1> DEFINE o == proc[w].order
           op == proc[w].op
<1>1. /\ o \in Orders /\ op \in Operations
      /\ bank[op].order = o /\ bank[op].terms = "agreed"
  BY DEF RequestsOK, RequestOK
<1>2. orders[o] \in Order /\ Exists(o)
  <2>1. Exists(o)
    BY <1>1, PaymentsAssumption DEF BankKnown, Paid, NoPayment
  <2> QED
    BY <1>1, <2>1 DEF TypeOK, Exists, Absent
<1>3. CASE Notified(op)
  <2>1. proc' \in [Workers -> Proc]
    BY <1>3 DEF TypeOK, Proc, Idle
  <2>2. (\A v \in Workers : v # w => proc'[v] = proc[v]) /\ proc'[w].at = "idle"
    BY <1>3 DEF TypeOK, Idle
  <2>3. RequestsOK'
    BY <1>3, <2>2 DEF RequestsOK, RequestOK, Notified, Exists
  <2>4. SuccessMeansCredited'
    BY <1>3 DEF SuccessMeansCredited, Notified
  <2> QED
    BY <1>3, <2>1, <2>3, <2>4, TablesKept DEF TypeOK
<1>4. CASE ~Notified(op)
  <2>1. /\ notifications' = notifications \cup {[op |-> op, order |-> o]}
        /\ until' = [until EXCEPT ![orders[o].user] =
                        Extended(@, now, orders[o].plan)]
        /\ orders' = [orders EXCEPT ![o] = Settled(@, op)]
        /\ proc' = [proc EXCEPT ![w].at = "reply"]
    BY <1>4
  <2>2. /\ orders'[o] = [status |-> "paid", user |-> orders[o].user,
                         plan |-> orders[o].plan, op |-> op]
        /\ \A x \in Orders : x # o => orders'[x] = orders[x]
    BY <1>1, <1>2, <2>1 DEF TypeOK, Order, Settled
  <2>3. TypeOK'
    <3>1. orders' \in [Orders -> Order \cup {Absent}]
      BY <1>1, <1>2, <2>1 DEF TypeOK, Order, Settled
    <3>2. until' \in [Users -> Nat]
      BY <1>2, <2>1, ExtendedType DEF TypeOK, Order
    <3>3. notifications' \subseteq Notification /\ proc' \in [Workers -> Proc]
      BY <1>1, <2>1 DEF TypeOK, Notification, Proc
    <3> QED
      BY <3>1, <3>2, <3>3 DEF TypeOK
  <2>4. \A x \in Orders : Exists(x)' <=> Exists(x)
    BY <1>2, <2>2 DEF Exists
  <2>5. BankKnown' /\ CapturedOnce'
    BY <2>4, PaymentsAssumption
       DEF BankKnown, CapturedOnce, Paid, TypeOK, Payment, NoPayment
  <2>6. OffersFresh'
    BY <2>4 DEF OffersFresh, TypeOK, Offer
  <2>7. \A p \in Operations : Notified(p) => Notified(p)'
    BY <2>1 DEF Notified
  <2>8. \E n \in notifications' : n.op = op /\ n.order = o
    <3> DEFINE n == [op |-> op, order |-> o]
    <3>1. n \in notifications'
      BY <2>1
    <3>2. n.op = op /\ n.order = o
      OBVIOUS
    <3> HIDE DEF n
    <3> QED
      BY <3>1, <3>2
  <2>9. RequestsOK'
    <3>1. /\ \A v \in Workers : v # w => proc'[v] = proc[v]
          /\ proc'[w].at = "reply" /\ proc'[w].op = op /\ proc'[w].order = o
      BY <2>1 DEF TypeOK, Proc
    <3>2. RequestOK(w)'
      BY <1>1, <2>1, <2>8, <3>1 DEF RequestOK, Notified
    <3>3. ASSUME NEW v \in Workers, v # w PROVE RequestOK(v)'
      BY <2>4, <2>7, <3>1, <3>3 DEF RequestsOK, RequestOK
    <3> QED
      BY <3>2, <3>3 DEF RequestsOK
  <2>10. PaidIffCredited'
    <3> SUFFICES ASSUME NEW x \in Orders
                 PROVE  IF orders'[x].status = "paid"
                        THEN \E n \in notifications' : n.op = orders'[x].op /\ n.order = x
                        ELSE \A n \in notifications' : n.order # x
      BY DEF PaidIffCredited
    <3>1. CASE x = o
      BY <2>2, <2>8, <3>1
    <3>2. CASE x # o
      <4>1. orders'[x] = orders[x]
        BY <2>2, <3>2
      <4>2. \A n \in notifications' : n \in notifications \/ n.order = o
        BY <2>1
      <4> QED
        BY <2>1, <3>2, <4>1, <4>2 DEF PaidIffCredited
    <3> QED
      BY <3>1, <3>2
  <2>11. CreditedMeansPaid' /\ SuccessMeansCredited'
    BY <1>1, <2>1, <2>7 DEF CreditedMeansPaid, SuccessMeansCredited, TypeOK
  <2> QED
    BY <2>3, <2>5, <2>6, <2>9, <2>10, <2>11
<1> QED
  BY <1>3, <1>4

LEMMA TickStep ==
    ASSUME IInv, Tick
    PROVE  IInv'
<1> USE DEF IInv, Tick
<1>1. TypeOK'
  BY PaymentsAssumption DEF TypeOK
<1>2. BankKnown' /\ OffersFresh' /\ CapturedOnce' /\ RequestsOK'
  BY DEF BankKnown, OffersFresh, CapturedOnce, RequestsOK, RequestOK, Paid, Exists,
         Notified
<1>3. PaidIffCredited' /\ CreditedMeansPaid' /\ SuccessMeansCredited'
  BY DEF PaidIffCredited, CreditedMeansPaid, SuccessMeansCredited, Notified
<1> QED
  BY <1>1, <1>2, <1>3

LEMMA StutterStep ==
    ASSUME IInv, UNCHANGED vars
    PROVE  IInv'
BY DEF IInv, vars, TypeOK, BankKnown, OffersFresh, CapturedOnce, RequestsOK, RequestOK,
       Paid, Exists, Notified, PaidIffCredited, CreditedMeansPaid, SuccessMeansCredited

-----------------------------------------------------------------------------

LEMMA NextIInv == IInv /\ [Next]_vars => IInv'
<1> SUFFICES ASSUME IInv, [Next]_vars PROVE IInv'
  OBVIOUS
<1>1. ASSUME NEW o \in Orders, NEW u \in Users, NEW plan \in PublicPlans,
             Checkout(o, u, plan) \/ CreateRemote(o, u, plan)
      PROVE  IInv'
  BY <1>1, CheckoutStep, CreateRemoteStep
<1>2. ASSUME NEW x \in offered, InsertOrder(x) PROVE IInv'
  BY <1>2, InsertOrderStep
<1>3. ASSUME NEW op \in Operations, NEW o \in Orders, Pay(op, o) PROVE IInv'
  BY <1>3, PayStep
<1>4. ASSUME NEW w \in Workers, NEW op \in Operations, Notify(w, op) PROVE IInv'
  BY <1>4, NotifyStep
<1>5. ASSUME NEW w \in Workers, NEW o \in Orders, StartCapture(w, o) PROVE IInv'
  BY <1>5, StartCaptureStep
<1>6. ASSUME NEW w \in Workers, Handle(w) \/ Crash(w) PROVE IInv'
  BY <1>6, LookUpStep, CaptureRemoteStep, AbandonStep, RecheckStep, RecordStep,
     ReplyStep DEF Handle
<1>7. CASE Tick
  BY <1>7, TickStep
<1>8. CASE UNCHANGED vars
  BY <1>8, StutterStep
<1> QED
  BY <1>1, <1>2, <1>3, <1>4, <1>5, <1>6, <1>7, <1>8 DEF Next

LEMMA Invariance == Spec => []IInv
BY InitIInv, NextIInv, PTL DEF Spec

\* The tables hold values of their types, for any number of requests.
THEOREM TypeCorrect == Spec => []TypeOK
<1>1. IInv => TypeOK
  BY DEF IInv
<1> QED
  BY <1>1, Invariance, PTL

\* A paid order has a recorded operation, and no other order has one.
THEOREM PaidOrdersAreCredited == Spec => []PaidIffCredited
<1>1. IInv => PaidIffCredited
  BY DEF IInv
<1> QED
  BY <1>1, Invariance, PTL

\* No access without a payment in full for that order.
THEOREM CreditsArePaid == Spec => []CreditedMeansPaid
<1>1. IInv => CreditedMeansPaid
  BY DEF IInv
<1> QED
  BY <1>1, Invariance, PTL

\* SUCCESS and COMPLETED are answered for credited operations only.
THEOREM SuccessIsCredited == Spec => []SuccessMeansCredited
<1>1. IInv => SuccessMeansCredited
  BY DEF IInv
<1> QED
  BY <1>1, Invariance, PTL

\* With PayPal, where a retried capture returns the first one, an order is
\* credited once however many capture requests overlap.
THEOREM CapturedOrderCreditedOnce == Spec => []PayPalCreditsOnce
<1>1. IInv => PayPalCreditsOnce
  <2> SUFFICES ASSUME IInv, variant = "regional",
                      NEW m \in notifications, NEW n \in notifications,
                      m.order = n.order
               PROVE  m = n
    BY DEF PayPalCreditsOnce, OrderCreditedOnce
  <2>1. m \in Notification /\ n \in Notification
    BY DEF IInv, TypeOK
  <2>2. bank[m.op].order = m.order /\ bank[n.op].order = n.order
    BY DEF IInv, CreditedMeansPaid
  <2>3. Paid(m.op) /\ Paid(n.op)
    BY <2>1, <2>2, PaymentsAssumption DEF Paid, NoPayment, Notification
  <2>4. m.op = n.op
    BY <2>1, <2>2, <2>3 DEF IInv, CapturedOnce, Notification
  <2> QED
    BY <2>1, <2>4 DEF Notification
<1> QED
  BY <1>1, Invariance, PTL

-----------------------------------------------------------------------------
(* The handlers implement the ledger. *)

LEMMA LedgerInitially == Init => Ledger!LedgerInit
<1> SUFFICES ASSUME Init PROVE Ledger!LedgerInit
  OBVIOUS
<1>1. Received = {}
  BY DEF Init, Received, NoPayment
<1>2. ReceivedFor = [op \in {} |-> 0]
  BY <1>1 DEF ReceivedFor
<1>3. Credited = {}
  BY DEF Init, Credited
<1> QED
  BY <1>2, <1>3 DEF Init, Ledger!LedgerInit

\* Orders keep their buyer and plan, so what was received stays what it is.
LEMMA ReceivedStays ==
    ASSUME IInv, bank' = bank,
           \A o \in Orders : Exists(o) => /\ orders'[o].user = orders[o].user
                                         /\ orders'[o].plan = orders[o].plan
    PROVE  ReceivedFor' = ReceivedFor
<1>1. Received' = Received
  BY DEF Received
<1>2. \A op \in Received : Exists(bank[op].order) /\ bank[op].order \in Orders
  <2>1. \A op \in Received : op \in Operations /\ bank[op].terms = "agreed"
    BY DEF Received
  <2> QED
    BY <2>1 DEF IInv, TypeOK, BankKnown, Paid, Payment, NoPayment
<1> QED
  BY <1>1, <1>2 DEF ReceivedFor

\* Steps that leave payments, notifications and subscriptions alone do not show.
LEMMA HiddenStep ==
    ASSUME IInv, UNCHANGED <<now, notifications, until, bank>>,
           \A o \in Orders : Exists(o) => orders'[o] = orders[o]
    PROVE  UNCHANGED Ledger!ledgerVars
<1>1. ReceivedFor' = ReceivedFor
  BY ReceivedStays
<1>2. Credited' = Credited
  BY DEF Credited
<1> QED
  BY <1>1, <1>2 DEF Ledger!ledgerVars

\* A payment in full is the ledger's Receive; any other does not show.
LEMMA PaymentShows ==
    ASSUME IInv, NEW op \in Operations, NEW o \in Orders, NEW t \in Terms,
           ~Paid(op), Exists(o),
           bank' = [bank EXCEPT ![op] = [order |-> o, terms |-> t]],
           UNCHANGED <<now, orders, notifications, until>>
    PROVE  [Ledger!LedgerNext]_(Ledger!ledgerVars)
<1> USE DEF IInv
<1>1. /\ \A p \in Operations : p # op => bank'[p] = bank[p]
      /\ bank'[op].order = o /\ bank'[op].terms = t
  BY DEF TypeOK
<1>2. op \notin Received
  BY DEF Received, Paid, NoPayment
<1>3. Credited' = Credited
  BY DEF Credited
<1>4. CASE t = "agreed"
  <2>1. Received' = Received \cup {op}
    BY <1>1, <1>4 DEF Received
  <2>2. orders[o].user \in Users /\ orders[o].plan \in Ledger!Plans
    BY DEF TypeOK, Exists, Absent, Order, Plans, Ledger!Plans
  <2>3. ReceivedFor' = [x \in DOMAIN ReceivedFor \cup {op} |->
                          IF x = op THEN [user |-> orders[o].user, plan |-> orders[o].plan]
                          ELSE ReceivedFor[x]]
    <3>1. DOMAIN ReceivedFor = Received
      BY DEF ReceivedFor
    <3>2. ReceivedFor' = [x \in Received' |-> [user |-> orders'[bank'[x].order].user,
                                              plan |-> orders'[bank'[x].order].plan]]
      BY DEF ReceivedFor
    <3>3. \A x \in Received : ReceivedFor[x] = [user |-> orders[bank[x].order].user,
                                               plan |-> orders[bank[x].order].plan]
      BY DEF ReceivedFor
    <3>4. \A x \in Received : bank'[x] = bank[x]
      BY <1>1, <1>2 DEF Received
    <3> QED
      BY <1>1, <1>2, <2>1, <3>1, <3>2, <3>3, <3>4
  <2>4. op \notin DOMAIN ReceivedFor
    BY <1>2 DEF ReceivedFor
  <2>5. Ledger!Receive(op, orders[o].user, orders[o].plan)
    BY <1>3, <2>3, <2>4 DEF Ledger!Receive
  <2> QED
    BY <2>2, <2>5 DEF Ledger!LedgerNext
<1>5. CASE t # "agreed"
  <2>1. Received' = Received
    BY <1>1, <1>2, <1>5 DEF Received
  <2>2. \A x \in Received : bank'[x] = bank[x]
    BY <1>1, <1>2 DEF Received
  <2>3. ReceivedFor' = ReceivedFor
    BY <2>1, <2>2 DEF ReceivedFor
  <2> QED
    BY <1>3, <2>3 DEF Ledger!ledgerVars
<1> QED
  BY <1>4, <1>5

\* Recording a notification is the ledger's Credit.
LEMMA RecordShows ==
    ASSUME IInv, NEW w \in Workers, Record(w)
    PROVE  [Ledger!LedgerNext]_(Ledger!ledgerVars)
<1> USE DEF IInv, Record, Unique
<1> DEFINE o == proc[w].order
           op == proc[w].op
<1>1. /\ o \in Orders /\ op \in Operations
      /\ bank[op].order = o /\ bank[op].terms = "agreed"
  BY DEF RequestsOK, RequestOK
<1>2. orders[o] \in Order /\ Exists(o)
  <2>1. Exists(o)
    BY <1>1, PaymentsAssumption DEF BankKnown, Paid, NoPayment
  <2> QED
    BY <1>1, <2>1 DEF TypeOK, Exists, Absent
<1>3. CASE Notified(op)
  BY <1>3, HiddenStep
<1>4. CASE ~Notified(op)
  <2>1. /\ notifications' = notifications \cup {[op |-> op, order |-> o]}
        /\ until' = [until EXCEPT ![orders[o].user] =
                        Extended(@, now, orders[o].plan)]
        /\ orders' = [orders EXCEPT ![o] = Settled(@, op)]
    BY <1>4
  <2>2. \A x \in Orders : Exists(x) => /\ orders'[x].user = orders[x].user
                                       /\ orders'[x].plan = orders[x].plan
    BY <1>1, <1>2, <2>1 DEF TypeOK, Order, Settled
  <2>3. ReceivedFor' = ReceivedFor
    BY <2>2, ReceivedStays
  <2>4. Credited' = Credited \cup {op}
    <3> DEFINE n == [op |-> op, order |-> o]
    <3>1. n.op = op
      OBVIOUS
    <3>2. notifications' = notifications \cup {n}
      BY <2>1
    <3> HIDE DEF n, op
    <3> QED
      BY <3>1, <3>2 DEF Credited
  <2>5. op \notin Credited
    BY <1>4 DEF Credited, Notified
  <2>6. op \in DOMAIN ReceivedFor
    BY <1>1 DEF ReceivedFor, Received
  <2>7. /\ ReceivedFor[op].user = orders[o].user
        /\ ReceivedFor[op].plan = orders[o].plan
    BY <1>1 DEF ReceivedFor, Received
  <2>8. Extended(until[orders[o].user], now, orders[o].plan)
          = Ledger!Extended(until[orders[o].user], now, orders[o].plan)
    BY <1>2, ExtendedAgrees DEF TypeOK, Order
  <2>9. until' = [until EXCEPT ![ReceivedFor[op].user] =
                     Ledger!Extended(@, now, ReceivedFor[op].plan)]
    BY <1>2, <2>1, <2>7, <2>8 DEF TypeOK, Order
  <2>10. Ledger!Credit(op)
    BY <2>3, <2>4, <2>5, <2>6, <2>9 DEF Ledger!Credit
  <2> QED
    BY <1>1, <2>10 DEF Ledger!LedgerNext
<1> QED
  BY <1>3, <1>4

\* A PayPal capture takes the money, or returns the capture of an earlier request.
LEMMA CaptureShows ==
    ASSUME IInv, NEW w \in Workers, CaptureRemote(w)
    PROVE  [Ledger!LedgerNext]_(Ledger!ledgerVars)
<1> USE DEF IInv, CaptureRemote
<1> DEFINE o == proc[w].order
<1>1. o \in Orders /\ Exists(o)
  BY DEF RequestsOK, RequestOK
<1>2. PICK op \in Captures(o), t \in Terms :
         bank' = [bank EXCEPT ![op] =
                    IF Paid(op) THEN @ ELSE [order |-> o, terms |-> t]]
  OBVIOUS
<1>3. op \in Operations
  BY DEF Captures
<1>4. CASE Paid(op)
  <2>1. bank' = bank
    BY <1>2, <1>3, <1>4 DEF TypeOK
  <2> QED
    BY <2>1, HiddenStep
<1>5. CASE ~Paid(op)
  <2>1. bank' = [bank EXCEPT ![op] = [order |-> o, terms |-> t]]
    BY <1>2, <1>5
  <2> QED
    BY <1>1, <1>3, <1>5, <2>1, PaymentShows
<1> QED
  BY <1>4, <1>5

LEMMA LedgerStep == IInv /\ [Next]_vars => [Ledger!LedgerNext]_(Ledger!ledgerVars)
<1> SUFFICES ASSUME IInv, [Next]_vars
             PROVE  [Ledger!LedgerNext]_(Ledger!ledgerVars)
  OBVIOUS
<1>1. ASSUME NEW o \in Orders, NEW u \in Users, NEW plan \in PublicPlans,
             Checkout(o, u, plan) \/ CreateRemote(o, u, plan)
      PROVE  UNCHANGED Ledger!ledgerVars
  BY <1>1, HiddenStep DEF Checkout, CreateRemote, Fresh, IInv, TypeOK
<1>2. ASSUME NEW x \in offered, InsertOrder(x)
      PROVE  UNCHANGED Ledger!ledgerVars
  BY <1>2, HiddenStep DEF InsertOrder, OffersFresh, IInv, TypeOK
<1>3. ASSUME NEW op \in Operations, NEW o \in Orders, Pay(op, o)
      PROVE  [Ledger!LedgerNext]_(Ledger!ledgerVars)
  BY <1>3, PaymentShows DEF Pay
<1>4. ASSUME NEW w \in Workers, NEW op \in Operations, Notify(w, op)
      PROVE  UNCHANGED Ledger!ledgerVars
  BY <1>4, HiddenStep DEF Notify
<1>5. ASSUME NEW w \in Workers, NEW o \in Orders, StartCapture(w, o)
      PROVE  UNCHANGED Ledger!ledgerVars
  BY <1>5, HiddenStep DEF StartCapture
<1>6. ASSUME NEW w \in Workers,
             LookUp(w) \/ CaptureFails(w) \/ Recheck(w) \/ Reply(w) \/ Crash(w)
      PROVE  UNCHANGED Ledger!ledgerVars
  BY <1>6, HiddenStep DEF LookUp, CaptureFails, Recheck, Reply, Crash
<1>7. ASSUME NEW w \in Workers, CaptureRemote(w) \/ Record(w)
      PROVE  [Ledger!LedgerNext]_(Ledger!ledgerVars)
  BY <1>7, CaptureShows, RecordShows
<1>8. CASE Tick
  <2>1. ReceivedFor' = ReceivedFor /\ Credited' = Credited
    BY <1>8, ReceivedStays DEF Tick, Credited
  <2>2. Ledger!Tick
    BY <1>8, <2>1, PaymentsAssumption DEF Tick, Ledger!Tick, IInv, TypeOK
  <2> QED
    BY <2>2 DEF Ledger!LedgerNext
<1>9. CASE UNCHANGED vars
  BY <1>9, HiddenStep DEF vars
<1> QED
  BY <1>1, <1>2, <1>3, <1>4, <1>5, <1>6, <1>7, <1>8, <1>9 DEF Next, Handle

\* Every behaviour of the handlers is one of the ledger: access time is given in
\* one step per operation that paid in full, and by nothing else.
THEOREM HandlersImplementLedger == Spec => ImplementsLedger
<1>1. Init => Ledger!LedgerInit
  BY LedgerInitially
<1>2. IInv /\ [Next]_vars => [Ledger!LedgerNext]_(Ledger!ledgerVars)
  BY LedgerStep
<1> QED
  BY <1>1, <1>2, Invariance, PTL DEF Spec, ImplementsLedger, Ledger!LedgerSpec

-----------------------------------------------------------------------------
(* Access time and payments: what every purchase is worth is counted per plan. *)

\* The notifications are finite, and time and payments agree both ways.
TimeOK == IsFiniteSet(notifications) /\ PaidTimeKept /\ NoFreeTime

\* A credited order is in the table.
LEMMA CreditsKnown ==
    ASSUME IInv, NEW n \in notifications
    PROVE  n.order \in Orders /\ n.op \in Operations /\ Exists(n.order)
<1>1. n.order \in Orders /\ n.op \in Operations
  BY DEF IInv, TypeOK, Notification
<1>2. bank[n.op].order = n.order
  BY DEF IInv, CreditedMeansPaid
<1> QED
  BY <1>1, <1>2, PaymentsAssumption DEF IInv, BankKnown, Paid, NoPayment

\* An order keeps its buyer and its plan.
LEMMA OrdersKept ==
    ASSUME IInv, [Next]_vars, NEW o \in Orders, Exists(o)
    PROVE  orders'[o].user = orders[o].user /\ orders'[o].plan = orders[o].plan
<1> USE DEF IInv, TypeOK
<1>1. ASSUME NEW x \in Orders, NEW u \in Users, NEW plan \in PublicPlans,
             Checkout(x, u, plan) \/ CreateRemote(x, u, plan)
      PROVE  orders'[o] = orders[o]
  BY <1>1 DEF Checkout, CreateRemote, Fresh
<1>2. ASSUME NEW x \in offered, InsertOrder(x) PROVE orders'[o] = orders[o]
  BY <1>2 DEF InsertOrder, OffersFresh, Offer
<1>3. ASSUME NEW w \in Workers, Record(w)
      PROVE  orders'[o].user = orders[o].user /\ orders'[o].plan = orders[o].plan
  <2>1. orders[o] \in Order
    BY DEF Exists, Absent
  <2>2. orders'[o] = orders[o] \/ orders'[o] = Settled(orders[o], proc[w].op)
    BY <1>3 DEF Record
  <2> QED
    BY <2>1, <2>2 DEF Settled, Order
<1> QED
  BY <1>1, <1>2, <1>3
     DEF Next, Handle, vars, Pay, Notify, StartCapture, LookUp, CaptureRemote, CaptureFails,
         Recheck, Reply, Crash, Tick

\* So the credits that are there stay those of their buyer and plan.
LEMMA CreditsKept ==
    ASSUME IInv, [Next]_vars, NEW u, NEW plan
    PROVE  {n \in notifications : orders'[n.order].user = u /\ orders'[n.order].plan = plan}
             = Credits(u, plan)
BY CreditsKnown, OrdersKept DEF Credits

\* Steps that credit nothing keep the count.
LEMMA QuietStep ==
    ASSUME IInv, TimeOK, [Next]_vars, UNCHANGED <<notifications, until>>, now' >= now
    PROVE  TimeOK'
<1>0. ASSUME NEW u, NEW plan
      PROVE  Credits(u, plan)' = Credits(u, plan)
  <2>1. Credits(u, plan)' =
          {n \in notifications : orders'[n.order].user = u /\ orders'[n.order].plan = plan}
    BY DEF Credits
  <2> QED
    BY <2>1, CreditsKept
<1>1. \A u, plan : PaidDays(u, plan)' = PaidDays(u, plan)
  BY <1>0 DEF PaidDays, Ledger!Days
<1>2. PaidTimeKept'
  BY <1>0, <1>1 DEF TimeOK, PaidTimeKept
<1>3. \A u, plan : Credits(u, plan) \subseteq notifications
  BY DEF Credits
<1>4. \A u : \A plan \in Plans : PaidDays(u, plan) \in Nat
  BY <1>3, FS_Subset, FS_CardinalityType DEF TimeOK, PaidDays, Ledger!Days, Plans
<1>5. Ledger!Later(now, TrialEnd)' >= Ledger!Later(now, TrialEnd)
      /\ Ledger!Later(now, TrialEnd)' \in Nat /\ Ledger!Later(now, TrialEnd) \in Nat
  BY NextIInv, PaymentsAssumption DEF Ledger!Later, IInv, TypeOK
<1>6. ASSUME NEW u \in Users
      PROVE  until'[u] <= Ledger!Later(now, TrialEnd)' + PaidDays(u, "test7")'
                            + PaidDays(u, "month")' + PaidDays(u, "year")'
  <2>1. /\ PaidDays(u, "test7") \in Nat /\ PaidDays(u, "month") \in Nat
        /\ PaidDays(u, "year") \in Nat
    BY <1>4 DEF Plans
  <2>2. /\ until[u] <= Ledger!Later(now, TrialEnd) + PaidDays(u, "test7")
                         + PaidDays(u, "month") + PaidDays(u, "year")
        /\ until[u] \in Nat /\ until' = until
    BY DEF TimeOK, NoFreeTime, IInv, TypeOK
  <2> QED
    BY <1>1, <1>5, <2>1, <2>2
<1>7. NoFreeTime'
  BY <1>6 DEF NoFreeTime
<1> QED
  BY <1>2, <1>7 DEF TimeOK

\* A purchase is one more credit of its buyer and plan, and as many days.
LEMMA PurchaseStep ==
    ASSUME IInv, TimeOK, [Next]_vars, NEW w \in Workers, Record(w)
    PROVE  TimeOK'
<1> DEFINE o == proc[w].order
           op == proc[w].op
           b == orders[o].user
           p == orders[o].plan
           n == [op |-> op, order |-> o]
<1>1. /\ o \in Orders /\ op \in Operations
      /\ bank[op].order = o /\ bank[op].terms = "agreed"
  BY DEF IInv, RequestsOK, RequestOK, Record
<1>2. Exists(o) /\ b \in Users /\ p \in Plans
  <2>1. Exists(o)
    BY <1>1, PaymentsAssumption DEF IInv, BankKnown, Paid, NoPayment
  <2> QED
    BY <1>1, <2>1 DEF IInv, TypeOK, Exists, Absent, Order
<1>3. CASE Notified(op)
  BY <1>3, QuietStep DEF Record, Unique, IInv, TypeOK
<1>4. CASE ~Notified(op)
  <2>1. /\ notifications' = notifications \cup {n}
        /\ until' = [until EXCEPT ![b] = Extended(@, now, p)]
        /\ now' = now
    BY <1>4 DEF Record, Unique
  <2>2. n \notin notifications /\ n.order = o
    BY <1>4 DEF Notified
  <2>3. orders'[o].user = b /\ orders'[o].plan = p
    BY <1>1, <1>2, OrdersKept
  <2> HIDE DEF n
  <2>4. ASSUME NEW u, NEW plan
        PROVE  Credits(u, plan)' = IF u = b /\ plan = p THEN Credits(u, plan) \cup {n}
                                                        ELSE Credits(u, plan)
    <3>1. Credits(u, plan)' =
            {m \in notifications : orders'[m.order].user = u /\ orders'[m.order].plan = plan}
              \cup (IF u = b /\ plan = p THEN {n} ELSE {})
      BY <2>1, <2>2, <2>3 DEF Credits
    <3> QED
      BY <3>1, CreditsKept
  <2>5. ASSUME NEW u, NEW plan
        PROVE  /\ IsFiniteSet(Credits(u, plan)) /\ Cardinality(Credits(u, plan)) \in Nat
               /\ Cardinality(Credits(u, plan)') =
                    Cardinality(Credits(u, plan)) + (IF u = b /\ plan = p THEN 1 ELSE 0)
    <3>1. Credits(u, plan) \subseteq notifications
      BY DEF Credits
    <3>2. IsFiniteSet(Credits(u, plan)) /\ Cardinality(Credits(u, plan)) \in Nat
      BY <3>1, FS_Subset, FS_CardinalityType DEF TimeOK
    <3>3. Cardinality(Credits(u, plan) \cup {n}) = Cardinality(Credits(u, plan)) + 1
      BY <2>2, <3>1, <3>2, FS_AddElement
    <3>4. CASE u = b /\ plan = p
      BY <2>4, <3>2, <3>3, <3>4
    <3>5. CASE ~(u = b /\ plan = p)
      BY <2>4, <3>2, <3>5
    <3> QED
      BY <3>4, <3>5
  <2>6. ASSUME NEW u, NEW plan \in Plans
        PROVE  /\ PaidDays(u, plan) \in Nat
               /\ PaidDays(u, plan)' = PaidDays(u, plan)
                                         + (IF u = b /\ plan = p THEN Ledger!Days(plan) ELSE 0)
    BY <2>5 DEF PaidDays, Ledger!Days, Plans
  <2>7. \A u \in Users : until'[u] = IF u = b THEN Extended(until[u], now, p) ELSE until[u]
    BY <1>2, <2>1 DEF IInv, TypeOK
  <2>8. IsFiniteSet(notifications')
    BY <2>1, FS_AddElement DEF TimeOK
  <2>9. ASSUME NEW u \in Users, Credits(u, "test7")' = {}
        PROVE  until'[u] >= PaidDays(u, "month")' + PaidDays(u, "year")'
    <3>1. Credits(u, "test7") = {} /\ ~(u = b /\ p = "test7")
      BY <2>4, <2>9
    <3>2. until[u] >= PaidDays(u, "month") + PaidDays(u, "year") /\ until[u] \in Nat /\ now \in Nat
      BY <3>1 DEF TimeOK, PaidTimeKept, IInv, TypeOK
    <3> QED
      BY <1>2, <2>6, <2>7, <3>1, <3>2, PaymentsAssumption
         DEF Extended, Ledger!Later, Ledger!Days, Plans
  <2>10. ASSUME NEW u \in Users
         PROVE  until'[u] <= Ledger!Later(now, TrialEnd)' + PaidDays(u, "test7")'
                               + PaidDays(u, "month")' + PaidDays(u, "year")'
    <3>1. /\ until[u] <= Ledger!Later(now, TrialEnd) + PaidDays(u, "test7")
                           + PaidDays(u, "month") + PaidDays(u, "year")
          /\ until[u] \in Nat /\ now \in Nat
      BY DEF TimeOK, NoFreeTime, IInv, TypeOK
    <3> QED
      BY <1>2, <2>1, <2>6, <2>7, <3>1, PaymentsAssumption
         DEF Extended, Ledger!Later, Ledger!Days, Plans
  <2> QED
    BY <2>8, <2>9, <2>10 DEF TimeOK, PaidTimeKept, NoFreeTime
<1> QED
  BY <1>3, <1>4

LEMMA TimeInitially == Init => TimeOK
<1> SUFFICES ASSUME Init PROVE TimeOK
  OBVIOUS
<1>1. \A u, plan : Credits(u, plan) = {}
  BY DEF Init, Credits
<1>2. \A u : \A plan \in Plans : PaidDays(u, plan) = 0
  BY <1>1, FS_EmptySet DEF PaidDays, Ledger!Days, Plans
<1> QED
  BY <1>2, FS_EmptySet, PaymentsAssumption
     DEF Init, TimeOK, PaidTimeKept, NoFreeTime, Ledger!Later, Plans

LEMMA TimeNext == IInv /\ TimeOK /\ [Next]_vars => TimeOK'
<1> SUFFICES ASSUME IInv, TimeOK, [Next]_vars PROVE TimeOK'
  OBVIOUS
<1>1. ASSUME NEW w \in Workers, Record(w) PROVE TimeOK'
  BY <1>1, PurchaseStep
<1>2. CASE ~\E w \in Workers : Record(w)
  <2>1. UNCHANGED <<notifications, until>> /\ (now' = now \/ Tick)
    BY <1>2
       DEF Next, Handle, vars, Checkout, CreateRemote, InsertOrder, Pay, Notify,
           StartCapture, LookUp, CaptureRemote, CaptureFails, Recheck, Reply, Crash, Tick
  <2>2. now \in Nat /\ (Tick => now' >= now)
    BY PaymentsAssumption DEF IInv, TypeOK, Tick
  <2> QED
    BY <2>1, <2>2, QuietStep
<1> QED
  BY <1>1, <1>2

LEMMA TimeInvariance == Spec => []TimeOK
BY TimeInitially, TimeNext, Invariance, PTL DEF Spec

\* Whatever order requests come in, a day that was paid for is in the subscription: no
\* purchase is overwritten by one that read the row before (the row is read in the transaction).
THEOREM PaidTimeIsKept == Spec => []PaidTimeKept
<1>1. TimeOK => PaidTimeKept
  BY DEF TimeOK
<1> QED
  BY <1>1, TimeInvariance, PTL

\* A repeated or overlapping notification gives no time of its own: access ends no later than
\* trial and recorded payments together allow.
THEOREM NoTimeForFree == Spec => []NoFreeTime
<1>1. TimeOK => NoFreeTime
  BY DEF TimeOK
<1> QED
  BY <1>1, TimeInvariance, PTL
=============================================================================
