------------------------- MODULE SubscriptionLedger -------------------------
(***************************************************************************)
(* What the payment handlers of app/api/payments.py promise together,      *)
(* without requests, retries or database connections: a payment operation  *)
(* that was received for a plan is turned into access time of its buyer in *)
(* one step, at most once.                                                 *)
(***************************************************************************)
EXTENDS Integers

CONSTANTS
    Users,        \* buyers
    Operations,   \* payment operations of the provider
    TrialEnd      \* auth_users.trial_ends_at, on the day scale of now

VARIABLES
    now,          \* today
    until,        \* until[u]: the end of u's subscription, 0 for none
    received,     \* what each operation received so far was for
    credited      \* the operations that were turned into access time

ledgerVars == <<now, until, received, credited>>

Plans == {"test7", "month", "year"}

Days(plan) == CASE plan = "test7" -> 7
                [] plan = "month" -> 30
                [] plan = "year"  -> 365

Later(a, b) == IF a >= b THEN a ELSE b

\* The end of a subscription after a purchase: a plan is added to whatever access
\* the buyer has left, the old seven day test starts today.
Extended(current, today, plan) ==
    IF plan = "test7" THEN today + Days(plan)
                      ELSE Later(today, Later(current, TrialEnd)) + Days(plan)

LedgerInit ==
    /\ now = 0
    /\ until = [u \in Users |-> 0]
    /\ received = [op \in {} |-> 0]
    /\ credited = {}

Receive(op, u, plan) ==
    /\ op \notin DOMAIN received
    /\ received' = [x \in DOMAIN received \cup {op} |->
                       IF x = op THEN [user |-> u, plan |-> plan] ELSE received[x]]
    /\ UNCHANGED <<now, until, credited>>

Credit(op) ==
    /\ op \in DOMAIN received \ credited
    /\ credited' = credited \cup {op}
    /\ until' = [until EXCEPT ![received[op].user] =
                    Extended(@, now, received[op].plan)]
    /\ UNCHANGED <<now, received>>

Tick ==
    /\ now' \in Nat /\ now' >= now
    /\ UNCHANGED <<until, received, credited>>

LedgerNext ==
    \/ \E op \in Operations, u \in Users, plan \in Plans : Receive(op, u, plan)
    \/ \E op \in Operations : Credit(op)
    \/ Tick

LedgerSpec == LedgerInit /\ [][LedgerNext]_ledgerVars
=============================================================================
