---------------------------- MODULE SignalFeed ----------------------------
(***************************************************************************)
(* What the content automation promises the readers of its channel.        *)
(*                                                                         *)
(* A signal is announced, reported on once per data date and ended.  The   *)
(* books say only what the channel was told before; what the books say is  *)
(* not told again; once the end of a signal was told, the channel never    *)
(* hears that it is still on; the mirror repeats the channel.              *)
(***************************************************************************)
EXTENDS Integers, Sequences, Functions

CONSTANTS
    Signals,
    Dates           \* data dates

VARIABLES
    told,            \* what the channel was told of each signal, in order
    kept,            \* what the books say of each signal
    echoed           \* what the mirror was told of each signal

feedVars == <<told, kept, echoed>>

Message == [kind: {"signal", "live", "ended"}, date: Dates]

\* date: the data date the books have reached; echo: the last update marked as mirrored.
Entry == [state: {"none", "open", "ended"}, date: Dates \cup {0}, echo: Dates \cup {0}]

NotKept == [state |-> "none", date |-> 0, echo |-> 0]

FeedTypeOK ==
    /\ told \in [Signals -> Seq(Message)]
    /\ kept \in [Signals -> Entry]
    /\ echoed \in [Signals -> SUBSET Message]

Said(s, m) == m \in Range(told[s])

EndSaid(s) == \E d \in Dates : Said(s, [kind |-> "ended", date |-> d])

FeedInit ==
    /\ told = [s \in Signals |-> <<>>]
    /\ kept = [s \in Signals |-> NotKept]
    /\ echoed = [s \in Signals |-> {}]

Tell(s, m) ==
    /\ told' = [told EXCEPT ![s] = Append(@, m)]
    /\ UNCHANGED <<kept, echoed>>

\* Said again only if the books missed it.
Announce(s, d) ==
    /\ kept[s].state = "none"
    /\ Tell(s, [kind |-> "signal", date |-> d])

Report(s, kind, d) ==
    /\ kept[s].state = "open"
    /\ d > kept[s].date
    /\ kind = "live" => ~EndSaid(s)
    /\ Tell(s, [kind |-> kind, date |-> d])

KeepSignal(s, d) ==
    /\ kept[s].state = "none"
    /\ Said(s, [kind |-> "signal", date |-> d])
    /\ kept' = [kept EXCEPT ![s] = [state |-> "open", date |-> d, echo |-> @.echo]]
    /\ UNCHANGED <<told, echoed>>

Mirrored(s, d) ==
    \E kind \in {"live", "ended"} : [kind |-> kind, date |-> d] \in echoed[s]

KeepReport(s, kind, d, e) ==
    /\ kept[s].state = "open"
    /\ d > kept[s].date
    /\ Said(s, [kind |-> kind, date |-> d])
    /\ e = kept[s].echo \/ (e = d /\ Mirrored(s, d))
    /\ kept' = [kept EXCEPT ![s] = [state |-> IF kind = "ended" THEN "ended" ELSE "open",
                                    date |-> d, echo |-> e]]
    /\ UNCHANGED <<told, echoed>>

KeepEcho(s, d) ==
    /\ Mirrored(s, d)
    /\ kept' = [kept EXCEPT ![s].echo = d]
    /\ UNCHANGED <<told, echoed>>

Echo(s, m) ==
    /\ Said(s, m)
    /\ echoed' = [echoed EXCEPT ![s] = @ \cup {m}]
    /\ UNCHANGED <<told, kept>>

FeedNext ==
    \E s \in Signals, d \in Dates :
        \/ Announce(s, d)
        \/ KeepSignal(s, d)
        \/ KeepEcho(s, d)
        \/ \E kind \in {"live", "ended"} :
              \/ Report(s, kind, d)
              \/ \E e \in Dates \cup {0} : KeepReport(s, kind, d, e)
        \/ \E m \in Message : Echo(s, m)

FeedSpec == FeedInit /\ [][FeedNext]_feedVars
===========================================================================
