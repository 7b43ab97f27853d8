---------------------------- MODULE AlphaJournal ----------------------------
(***************************************************************************)
(* The journal of the Alpha recommendations, alpha_trade_journal           *)
(* (app/core/market_regime.py, app/api/market_regime.py).                  *)
(*                                                                         *)
(* A pipeline (the daily job, or the refresh button's worker thread)       *)
(* fetches prices, syncs the scanners and then advances the journal by the *)
(* newest data date.  Every view of the Alpha page expires trades whose    *)
(* planned close has come.  They run on connections of their own; each     *)
(* SELECT before the first UPDATE is a snapshot of its own, and the        *)
(* UPDATEs are by row id.                                                  *)
(*                                                                         *)
(* One ticker.  Other tickers matter in one way: a missing price of any of *)
(* them raises an error that undoes the sync of all (Abandon).  A price is *)
(* the data date whose close it is (Live: a live quote); the entry price   *)
(* is the close of opened, and returns follow from entry and exit.         *)
(***************************************************************************)
EXTENDS Integers, Sequences, FiniteSets, FiniteSetsExt

CONSTANTS
    Workers,   \* connections that run handlers concurrently
    Horizon,   \* TRADE_PLAN_HORIZONS of the scanner, 5 or 10 in the code
    MaxDate    \* bound: days with a completed candle

ASSUME ConstantsAssumption == Horizon \in Nat \ {0} /\ MaxDate \in Nat /\ MaxDate >= 2

VARIABLES
    today,    \* the date in Moscow; candles of earlier days are complete
    latest,   \* the newest data date in prices
    offers,   \* what the trade plan offers on each date the scanners were synced for
    trades,   \* alpha_trade_journal, a row per id
    proc      \* what each worker is doing

vars == <<today, latest, offers, trades, proc>>

-----------------------------------------------------------------------------
(* Values *)

Null == 0
Live == -1
Dates == 1..MaxDate
Date == 0..(MaxDate + 1)
Directions == {"long", "short"}

Offer == [dir: Directions \cup {"none"}, first: Date]
NoOffer == [dir |-> "none", first |-> Null]

Trade == [dir: Directions, first: Date, opened: Date, age: Nat \ {0},
          lastSeen: Date, status: {"active", "closed"}, closed: Date,
          exit: {Live} \cup Date,
          reason: {"none", "direction_changed", "signal_or_regime_filter",
                   "horizon_reached"},
          canonical: {0, 1}]
NoTrade == [dir |-> "none"]

Idle == [at |-> "idle", date |-> Null, offer |-> NoOffer, id |-> 0,
         row |-> NoTrade, priced |-> "no"]

Proc == [at: {"idle", "fetch", "scan", "date", "plan", "active", "sync",
              "expiring", "expire"},
         date: Date, offer: Offer, id: Nat, row: Trade \cup {NoTrade},
         priced: {"yes", "no"}]

-----------------------------------------------------------------------------
(* Rows *)

Episode(t) == <<t.dir, t.first>>

\* Mutant: the active row of an episode is kept.
KeeperActive(ts, e) ==
    LET rows == {i \in DOMAIN ts : Episode(ts[i]) = e}
        open == {i \in rows : ts[i].status = "active"}
    IN  IF open # {} THEN Min(open) ELSE Min(rows)

\* MARK_ALPHA_TRADE_EPISODE_DUPLICATES keeps the first closed row of an episode, or
\* else its first row.
Keeper(ts, e) ==
    LET rows   == {i \in DOMAIN ts : Episode(ts[i]) = e}
        closed == {i \in rows : ts[i].status = "closed"}
    IN  Min(IF closed # {} THEN closed ELSE rows)

Marked(ts) ==
    [i \in DOMAIN ts |->
        [ts[i] EXCEPT !.canonical = IF i = Keeper(ts, Episode(ts[i])) THEN 1 ELSE 0]]

\* Mutant: there is no index on active rows.
OpenableBesideActive(ts, t) ==
    \A i \in DOMAIN ts : ts[i].canonical = 1 => Episode(ts[i]) # Episode(t)

\* Mutant: there is no index on episodes.
OpenableAgain(ts, t) == \A i \in DOMAIN ts : ts[i].status # "active"

\* INSERT OR IGNORE: idx_alpha_trade_active and idx_alpha_trade_episode.
Openable(ts, t) ==
    \A i \in DOMAIN ts : /\ ts[i].status # "active"
                         /\ ts[i].canonical = 1 => Episode(ts[i]) # Episode(t)

\* Mutant: the age is counted from the day after the first.
AgeLater(first, d) == Cardinality({e \in DOMAIN offers : first < e /\ e <= d})

\* observation_count of the scanner's row: the synced dates since its first.
Age(first, d) == Cardinality({e \in DOMAIN offers : first <= e /\ e <= d})

NewTrade(c, d) ==
    [dir |-> c.dir, first |-> c.first, opened |-> d, age |-> Age(c.first, d),
     lastSeen |-> d, status |-> "active", closed |-> Null, exit |-> Null,
     reason |-> "none", canonical |-> 1]

ClosedTrade(t, d, exit, reason) ==
    [t EXCEPT !.lastSeen = d, !.status = "closed", !.closed = d, !.exit = exit,
              !.reason = reason]

\* _alpha_planned_close_date
PlannedClose(t) == t.opened + Max({0, Horizon - t.age})

Opened(ts, c, d) ==
    IF c.dir \in Directions /\ Openable(ts, NewTrade(c, d))
    THEN Append(ts, NewTrade(c, d)) ELSE ts

\* Mutant: a run on the same data date is not a repeated one.
DeferredStrictly(row, d) == d < row.lastSeen

\* Mutant: a day too many is waited for.
DeferredLonger(row, d) == d <= row.lastSeen + 1

\* "A repeated run for the same completed market snapshot must not close and reopen".
Deferred(row, d) == d <= row.lastSeen

\* Mutant: the update writes the whole row again.
ReconfirmedActive(t, d) == [t EXCEPT !.lastSeen = d, !.status = "active"]

Reconfirmed(t, d) == [t EXCEPT !.lastSeen = d]

\* sync_alpha_trade_journal: row i was read as row, c is what the plan offered.
Synced(ts, i, row, c, d) ==
    IF i = 0 THEN Opened(ts, c, d)
    ELSE IF c.dir = row.dir THEN [ts EXCEPT ![i] = Reconfirmed(@, d)]
    ELSE IF Deferred(row, d) THEN ts
    ELSE LET reason == IF c.dir \in Directions THEN "direction_changed"
                                               ELSE "signal_or_regime_filter"
         IN  Opened([ts EXCEPT ![i] = ClosedTrade(@, d, d, reason)], c, d)

\* expire_alpha_trade_journal, for a row with a live price.
Expired(ts, i, row, d) ==
    IF PlannedClose(row) <= d /\ ts[i].status = "active"
    THEN [ts EXCEPT ![i] = ClosedTrade(@, d, Live, "horizon_reached")] ELSE ts

\* Mutant: closed rows are read, too.
TrackedOrClosed(ts) == {i \in DOMAIN ts : ts[i].canonical = 1}

\* The rows either handler reads.
Tracked(ts) == {i \in DOMAIN ts : ts[i].status = "active" /\ ts[i].canonical = 1}

-----------------------------------------------------------------------------
(* The scanners, as far as the plan sees them *)

Scanned == IF DOMAIN offers = {} THEN 0 ELSE Max(DOMAIN offers)

\* What the plan may offer on date d: nothing, or the position of the better one of
\* two scanners, which appeared on a synced date and is within its horizon.
Candidates(d) ==
    {NoOffer} \cup
    {c \in [dir: Directions, first: DOMAIN offers \cup {d}] :
        Cardinality({e \in DOMAIN offers \cup {d} : c.first <= e}) < Horizon}

\* A sync of the scanners: one result per data date.
Scan ==
    /\ latest > 0
    /\ IF latest \in DOMAIN offers THEN UNCHANGED offers
       ELSE \E c \in Candidates(latest) :
               offers' = [d \in DOMAIN offers \cup {latest} |->
                             IF d = latest THEN c ELSE offers[d]]

\* Mutant: the plan takes rows of the last sync, whatever its date.
PlanOfLastScan(d) ==
    IF d - 1 \in DOMAIN offers THEN offers[d - 1] ELSE NoOffer

\* _fetch_fresh_trade_plan_periods: active rows that were last seen on date d.
Plan(d) ==
    IF Scanned = d /\ d # 0 THEN offers[d] ELSE NoOffer

-----------------------------------------------------------------------------
(* Steps *)

Goto(w, at) == proc' = [proc EXCEPT ![w].at = at]

Midnight ==
    /\ today <= MaxDate
    /\ today' = today + 1
    /\ UNCHANGED <<latest, offers, trades, proc>>

\* Every scanner page syncs the scanners.
PageScan == Scan /\ UNCHANGED <<today, latest, trades, proc>>

\* Every long position of the ticker is closed by hand on the crypto tab.
Sell ==
    /\ Scanned # 0 /\ offers[Scanned].dir = "long"
    /\ offers' = [offers EXCEPT ![Scanned] = NoOffer]
    /\ UNCHANGED <<today, latest, trades, proc>>

BeginPipeline(w) ==
    /\ proc[w] = Idle
    /\ today > 1
    /\ Goto(w, "fetch")
    /\ UNCHANGED <<today, latest, offers, trades>>

Fetch(w) ==
    /\ proc[w].at = "fetch"
    /\ latest' = today - 1
    /\ Goto(w, "scan")
    /\ UNCHANGED <<today, offers, trades>>

ScanStep(w) ==
    /\ proc[w].at = "scan"
    /\ Scan
    /\ Goto(w, "date")
    /\ UNCHANGED <<today, latest, trades>>

\* The regime history is computed over the prices as they are now.
ReadDate(w) ==
    /\ proc[w].at = "date"
    /\ proc' = [proc EXCEPT ![w].at = "plan", ![w].date = latest]
    /\ UNCHANGED <<today, latest, offers, trades>>

ReadPlan(w) ==
    /\ proc[w].at = "plan"
    /\ proc' = [proc EXCEPT ![w].at = "active", ![w].offer = Plan(proc[w].date)]
    /\ UNCHANGED <<today, latest, offers, trades>>

\* A page view: the live prices may not have the ticker.
BeginExpire(w) ==
    /\ proc[w] = Idle
    /\ \E priced \in {"yes", "no"} :
          proc' = [proc EXCEPT ![w].at = "expiring", ![w].date = today,
                               ![w].priced = priced]
    /\ UNCHANGED <<today, latest, offers, trades>>

\* Both handlers mark duplicates, commit, and read the active rows.
ReadActive(w) ==
    /\ proc[w].at \in {"active", "expiring"}
    /\ trades' = Marked(trades)
    /\ LET next == IF proc[w].at = "active" THEN "sync" ELSE "expire"
           rows == Tracked(trades')
       IN  IF rows = {} THEN Goto(w, next)
           ELSE \E i \in rows :
                   proc' = [proc EXCEPT ![w].at = next, ![w].id = i,
                                        ![w].row = trades'[i]]
    /\ UNCHANGED <<today, latest, offers>>

WriteSync(w) ==
    /\ proc[w].at = "sync"
    /\ trades' = Synced(trades, proc[w].id, proc[w].row, proc[w].offer, proc[w].date)
    /\ proc' = [proc EXCEPT ![w] = Idle]
    /\ UNCHANGED <<today, latest, offers>>

WriteExpire(w) ==
    /\ proc[w].at = "expire"
    /\ trades' = IF proc[w].id # 0 /\ proc[w].priced = "yes"
                 THEN Expired(trades, proc[w].id, proc[w].row, proc[w].date)
                 ELSE trades
    /\ proc' = [proc EXCEPT ![w] = Idle]
    /\ UNCHANGED <<today, latest, offers>>

\* A crash, a provider that cannot be reached, or a missing price of some ticker.
Abandon(w) ==
    /\ proc[w] # Idle
    /\ proc' = [proc EXCEPT ![w] = Idle]
    /\ UNCHANGED <<today, latest, offers, trades>>

\* Rows of before the episode index: one episode closed, and opened again.
Legacy ==
    LET closed == [dir |-> "long", first |-> 1, opened |-> 1, age |-> 1, lastSeen |-> 2,
                   status |-> "closed", closed |-> 2, exit |-> 2,
                   reason |-> "signal_or_regime_filter", canonical |-> 1]
        reopened == [closed EXCEPT !.opened = 2, !.age = 2, !.status = "active",
                                   !.closed = Null, !.exit = Null, !.reason = "none"]
    IN  Marked(<<closed, reopened>>)

Init ==
    /\ \/ today = 1 /\ latest = 0 /\ trades = <<>> /\ offers = [d \in {} |-> NoOffer]
       \/ /\ today = 3 /\ latest = 2 /\ trades = Legacy
          /\ offers = [d \in {1, 2} |-> NoOffer]
    /\ proc = [w \in Workers |-> Idle]

Pipeline(w) ==
    Fetch(w) \/ ScanStep(w) \/ ReadDate(w) \/ ReadPlan(w) \/ ReadActive(w) \/ WriteSync(w)

Next ==
    \/ Midnight \/ PageScan \/ Sell
    \/ \E w \in Workers :
          \/ BeginPipeline(w) \/ Pipeline(w)
          \/ BeginExpire(w) \/ WriteExpire(w)
          \/ Abandon(w)

Spec == Init /\ [][Next]_vars

\* The daily job is started again and again, not every run of it is abandoned at the
\* same point, and no handler hangs.
FairSpec ==
    /\ Spec
    /\ \A w \in Workers :
          /\ SF_vars(BeginPipeline(w)) /\ SF_vars(Fetch(w)) /\ SF_vars(ScanStep(w))
          /\ SF_vars(ReadDate(w)) /\ SF_vars(ReadPlan(w)) /\ SF_vars(WriteSync(w))
          /\ SF_vars(proc[w].at = "active" /\ ReadActive(w))
          /\ WF_vars(proc[w].at = "expiring" /\ ReadActive(w)) /\ WF_vars(WriteExpire(w))

-----------------------------------------------------------------------------
(* Properties *)

\* Every table and program counter holds values of its type.
TypeOK ==
    /\ today \in 1..(MaxDate + 1) /\ latest \in 0..MaxDate
    /\ DOMAIN offers \subseteq Dates
    /\ \A d \in DOMAIN offers : offers[d] \in Offer
    /\ trades \in Seq(Trade)
    /\ proc \in [Workers -> Proc]

\* A ticker has one open recommendation at a time.
OneActive ==
    \A i, j \in DOMAIN trades :
        trades[i].status = "active" /\ trades[j].status = "active" => i = j

\* A scanner episode is traded once: a closed one is not reopened or duplicated.
EpisodeTradedOnce ==
    \A i, j \in DOMAIN trades :
        /\ trades[i].canonical = 1 /\ trades[j].canonical = 1
        /\ Episode(trades[i]) = Episode(trades[j])
        => i = j

\* An exit is recorded as a whole, or not at all.
ExitWhole ==
    \A i \in DOMAIN trades : LET t == trades[i] IN
        IF t.status = "closed"
        THEN t.closed # Null /\ t.exit # Null /\ t.reason # "none"
        ELSE t.closed = Null /\ t.exit = Null /\ t.reason = "none"

\* A position is not closed on the snapshot it was opened on, at the same price.
ClosedAfterOpened ==
    \A i \in DOMAIN trades :
        trades[i].status = "closed" => trades[i].closed > trades[i].opened

\* A trade that was closed as "signal gone or filtered" had none on its close date.
LossIsReal ==
    \A i \in DOMAIN trades : LET t == trades[i] IN
        t.reason = "signal_or_regime_filter" /\ t.closed \in DOMAIN offers
            => offers[t.closed].dir # t.dir

\* The journal is immutable: a closed trade keeps its exit, date and reason.
ClosedFrozen ==
    [][\A i \in DOMAIN trades :
         trades[i].status = "closed" =>
             [trades'[i] EXCEPT !.canonical = 0] = [trades[i] EXCEPT !.canonical = 0]]_trades

\* No interleaving reopens a closed trade, loses a trade, or changes what was opened.
NeverReopened ==
    [][\A i \in DOMAIN trades :
         /\ i \in DOMAIN trades'
         /\ trades[i].status = "closed" => trades'[i].status = "closed"
         /\ Episode(trades'[i]) = Episode(trades[i])
         /\ trades'[i].opened = trades[i].opened
         /\ trades'[i].age = trades[i].age]_trades

\* Which rows are duplicates is decided once: whatever handlers wrote since, the next one that
\* marks duplicates (every sync and page view does) takes no trade out of the journal.
MarkStable == Marked(trades) = trades

\* The signal of row i is gone from the newest plan, which the row was not synced with.
Lost(i) ==
    /\ i \in Tracked(trades)
    /\ trades[i].lastSeen < Scanned
    /\ offers[Scanned].dir # trades[i].dir

\* A trade that lost its signal is closed, or finds the signal back.
LostTradeCloses == \A i \in 1..MaxDate : Lost(i) ~> ~Lost(i)
=============================================================================
