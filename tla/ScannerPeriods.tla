--------------------------- MODULE ScannerPeriods ---------------------------
(***************************************************************************)
(* The lifecycle of one crypto momentum signal in the table                *)
(* scanner_signal_periods, and the append-only trade journal               *)
(* crypto_strategy_trades that is filled from it                           *)
(* (app/core/scanner_history.py).                                          *)
(*                                                                         *)
(* The program runs these handlers from several places at once: the daily  *)
(* job, the crypto tab, the plain scanner page, the CSV export and the     *)
(* manual close of a position.  Each opens its own SQLite connection.  A   *)
(* SELECT that precedes the first DML statement of a transaction is a      *)
(* snapshot of its own, and everything from the first DML statement to     *)
(* the commit is one atomic write: a handler is therefore a sequence of    *)
(* steps "ensure", "active", "suppressed", "write", and other workers move *)
(* between any two of them.                                                *)
(*                                                                         *)
(* Days are numbered 1, 2, ...; every day up to the newest one stored has  *)
(* a close of the ticker.  A price is represented by the day whose daily   *)
(* close it is and by whether the provider had corrected that close when   *)
(* it was read (Live: a live quote).                                       *)
(***************************************************************************)
EXTENDS Integers, Sequences, FiniteSets

CONSTANTS
    Workers,     \* connections that run handlers concurrently
    Kinds,       \* the callers that are running, a subset of AllKinds
    Horizon,     \* SCANNER_HORIZONS["momentum"], 5 in the code
    MaxDate,     \* bound: completed data dates
    MaxCorrections, \* bound: closes that the provider corrects
    MaxCrashes   \* bound: handlers that die half way

AllKinds == {"daily", "tab", "page", "export", "manual"}

ASSUME ConstantsAssumption ==
    /\ Kinds \subseteq AllKinds
    /\ Horizon \in Nat \ {0}
    /\ MaxDate \in Nat \ {0}
    /\ MaxCorrections \in Nat /\ MaxCrashes \in Nat

VARIABLES
    today,     \* the calendar day in Moscow
    market,    \* market[d]: what the candles up to date d say of the ticker
    corrected, \* the dates whose close in prices is a corrected one
    periods,   \* scanner_signal_periods, a row per id
    journal,   \* crypto_strategy_trades, a trade per period id
    proc,      \* what each worker is doing
    crashes    \* how many handlers have died so far

vars == <<today, market, corrected, periods, journal, proc, crashes>>

-----------------------------------------------------------------------------
(* Values *)

Null == 0           \* SQL NULL, for dates and prices
Live == -1          \* the live quote a manual close is made at
NoReturn == <<Null, Null>>

Signals == {"none", "short", "low", "mid"}  \* wait; short; long with a low / medium or high confidence
Dates == 1..MaxDate
Date == 0..(MaxDate + 1)                    \* a manual close is dated after the last candle
Quote == {Null, Live} \cup Dates \cup {Live - d : d \in Dates}

\* The daily close of d, where the closes of the dates in fixed have been corrected.
Close(d, fixed) == IF d \in fixed THEN Live - d ELSE d

\* The day a daily close is of, corrected or not.
DateOf(quote) == IF quote < Live THEN Live - quote ELSE quote

\* What the candles up to a date make of the ticker: the scanner's result, and whether
\* its close is 30% or more above the one before.
Candle == [signal: Signals, pump: BOOLEAN]

Period == [dir: {"long", "short"}, conf: {"none", "low", "mid"},
           first: Date, last: Date, obs: Nat,
           status: {"active", "suppressed", "closed"}, ended: Date,
           reason: {"none", "manual", "auto"}, closed: Quote,
           admitted: Date, entry: Quote,
           exitDate: Date, exit: Quote,
           exitReason: {"none", "manual", "auto", "horizon", "ended"},
           ret: Quote \X Quote]

Trade == [opened: Date, entry: Quote, closed: Date, exit: Quote,
          reason: {"none", "manual", "auto", "horizon", "ended"},
          ret: Quote \X Quote]

Phases == {"autoclose", "manual", "sync", "snapshot"}

Idle == [kind |-> "none", todo |-> <<>>, at |-> "idle", date |-> 0, fixed |-> {},
         seenActive |-> <<>>, seenSuppressed |-> <<>>]

Proc == [kind: Kinds \cup {"none"}, todo: Seq(Phases),
         at: {"idle", "ensure", "active", "suppressed", "write"},
         date: Date, fixed: SUBSET Dates,   \* the candles it has read
         seenActive: Seq(Period), seenSuppressed: Seq(Period)]

Coalesce(a, b) == IF a # Null THEN a ELSE b

Latest == Len(market)
Direction(sig) == IF sig = "short" THEN "short" ELSE "long"
Confidence(sig) == IF sig = "mid" THEN "mid" ELSE "low"

-----------------------------------------------------------------------------
(* Rows and tables *)

NewPeriod(d, sig, price) ==
    LET admit == sig = "mid" IN
    [dir |-> Direction(sig), conf |-> Confidence(sig),
     first |-> d, last |-> d, obs |-> 1,
     status |-> "active", ended |-> Null, reason |-> "none", closed |-> Null,
     admitted |-> IF admit THEN d ELSE Null,
     entry |-> IF admit THEN price ELSE Null,
     exitDate |-> Null, exit |-> Null, exitReason |-> "none", ret |-> NoReturn]

\* Rows that older versions of the code left: a long row from before admission was
\* tracked, and a position closed by +30% on the very day it opened, from before its exit
\* was frozen or after.
LegacyPeriod(conf) == [NewPeriod(1, "low", Null) EXCEPT !.conf = conf]
FalseExit == [NewPeriod(1, "mid", 1) EXCEPT
                !.status = "suppressed", !.ended = 1, !.reason = "auto", !.closed = 1]
FalseExitFrozen == [FalseExit EXCEPT !.exitDate = 1, !.exit = 1, !.exitReason = "auto",
                                     !.ret = <<1, 1>>]

\* UNIQUE (..., direction, first_seen_date) and the unique index on active rows.
RespectsIndexes(ps) ==
    \A i, j \in DOMAIN ps : i # j =>
        /\ ~(ps[i].status = "active" /\ ps[j].status = "active")
        /\ ~(ps[i].dir = ps[j].dir /\ ps[i].first = ps[j].first)

\* Mutant: trades of suppressed periods are left out.
JournalableUnlessSuppressed(r) ==
    /\ r.dir = "long" /\ r.status # "suppressed"
    /\ r.admitted # Null /\ r.entry # Null
    /\ r.exitDate # Null /\ r.exit # Null /\ r.ret # NoReturn

Journalable(r) ==
    /\ r.dir = "long"
    /\ r.admitted # Null /\ r.entry # Null
    /\ r.exitDate # Null /\ r.exit # Null /\ r.ret # NoReturn

TradeOf(r) == [opened |-> r.admitted, entry |-> r.entry, closed |-> r.exitDate,
               exit |-> r.exit, reason |-> r.exitReason, ret |-> r.ret]

\* Mutant: INSERT OR REPLACE.
AppendedReplacing(ps) ==
    [i \in DOMAIN journal \cup {k \in DOMAIN ps : Journalable(ps[k])} |->
        IF i \in DOMAIN ps /\ Journalable(ps[i]) THEN TradeOf(ps[i]) ELSE journal[i]]

\* _append_crypto_trade_journal: INSERT OR IGNORE, one trade per period id.
Appended(ps) ==
    [i \in DOMAIN journal \cup {k \in DOMAIN ps : Journalable(ps[k])} |->
        IF i \in DOMAIN journal THEN journal[i] ELSE TradeOf(ps[i])]

-----------------------------------------------------------------------------
(* ensure_scanner_history_schema: three UPDATEs over all rows, in this order *)

Backfilled(r) ==
    IF r.dir = "long" /\ r.admitted = Null /\ r.conf = "mid"
    THEN [r EXCEPT !.admitted = r.first]
    ELSE r

\* Mutant: the entry follows the newest candle.
EntryFollowing(r) ==
    IF r.dir = "long" /\ r.admitted \in 1..Latest
    THEN [r EXCEPT !.entry = Close(Latest, corrected)]
    ELSE r

\* Mutant: the entry follows the corrections of its close.
EntryCorrected(r) ==
    IF r.dir = "long" /\ r.admitted \in 1..Latest
    THEN [r EXCEPT !.entry = Close(r.admitted, corrected)]
    ELSE r

EntryFrozen(r) ==
    IF r.dir = "long" /\ r.admitted \in 1..Latest /\ r.entry = Null
    THEN [r EXCEPT !.entry = Close(r.admitted, corrected)]
    ELSE r

\* Mutant: the repair clears the entry along with the exit.
RepairedWithEntry(r) ==
    IF /\ r.dir = "long" /\ r.status = "suppressed" /\ r.reason = "auto"
       /\ r.ended = Coalesce(r.admitted, r.first)
    THEN [NewPeriod(r.first, "low", Null) EXCEPT !.conf = r.conf, !.obs = r.obs,
                                                 !.last = r.last]
    ELSE r

Repaired(r) ==
    IF /\ r.dir = "long" /\ r.status = "suppressed" /\ r.reason = "auto"
       /\ r.ended = Coalesce(r.admitted, r.first)
    THEN [r EXCEPT !.status = "active", !.ended = Null, !.reason = "none",
                   !.closed = Null, !.exitDate = Null, !.exit = Null,
                   !.exitReason = "none", !.ret = NoReturn]
    ELSE r

Ensured(ps) == [i \in DOMAIN ps |-> Repaired(EntryFrozen(Backfilled(ps[i])))]

-----------------------------------------------------------------------------
(* close_crypto_ticker_periods *)

WithinHorizon(r, d) ==
    \/ r.last = d /\ r.obs <= Horizon
    \/ r.last < d /\ r.obs < Horizon

Closable(r, d, reason) ==
    /\ r.dir = "long" /\ r.status = "active"
    /\ WithinHorizon(r, d)
    /\ reason = "auto" => Coalesce(r.admitted, r.first) < d

\* Mutant: a close overwrites the exit that the horizon had frozen.
ClosedRowRewriting(r, d, quote, reason) ==
    [r EXCEPT !.status = "suppressed", !.ended = d, !.reason = reason,
              !.closed = quote, !.exitDate = d, !.exit = quote,
              !.exitReason = reason, !.ret = <<r.entry, quote>>]

ClosedRow(r, d, quote, reason) ==
    [r EXCEPT !.status = "suppressed", !.ended = d, !.reason = reason,
              !.closed = quote,
              !.exitDate = Coalesce(@, d), !.exit = Coalesce(@, quote),
              !.exitReason = IF @ = "none" THEN reason ELSE @,
              !.ret = IF @ = NoReturn /\ r.entry # Null
                      THEN <<r.entry, quote>> ELSE @]

ClosedPositions(ps, d, quote, reason) ==
    [i \in DOMAIN ps |-> IF Closable(ps[i], d, reason)
                         THEN ClosedRow(ps[i], d, quote, reason) ELSE ps[i]]

-----------------------------------------------------------------------------
(* sync_scanner_periods: the rows are chosen in the snapshots, the UPDATEs   *)
(* are by id and fall on the rows as they are when the transaction runs.     *)

WithStatus(ps, st) == {i \in DOMAIN ps : ps[i].status = st}

Bumped(r, d) == [r EXCEPT !.last = d, !.obs = @ + 1]

\* Mutant: every run counts as an observation, whatever its data date.
ObservedEachRun(r, read, d, sig, price) == Bumped(r, d)

\* The signal is still there in the direction of the active row as it was read.
Observed(r, read, d, sig, price) ==
    LET newer == d > read.last
        admit == /\ sig = "mid" /\ read.admitted = Null
                 /\ read.obs + (IF newer THEN 1 ELSE 0) <= Horizon
        admitted == IF admit
                    THEN [r EXCEPT !.admitted = d, !.entry = Coalesce(@, price)]
                    ELSE r
        graded == IF read.conf = "none"
                  THEN [admitted EXCEPT !.conf = Confidence(sig)] ELSE admitted
    IN  IF newer THEN Bumped(graded, d) ELSE graded

Finished(ps, i) == [ps EXCEPT ![i].status = "closed"]
FinishedOn(ps, i, d) == [ps EXCEPT ![i].status = "closed", ![i].ended = d]

\* The scanner still shows the signal; a and s are the row ids read (0: none).
Continued(ps, act, sup, a, s, d, sig, price) ==
    LET dir == Direction(sig)
        released == IF s # 0 THEN Finished(ps, s) ELSE ps
    IN  IF s # 0 /\ sup[s].dir = dir
        THEN IF d > sup[s].last THEN [ps EXCEPT ![s] = Bumped(@, d)] ELSE ps
        ELSE IF a # 0 /\ act[a].dir = dir
        THEN [released EXCEPT ![a] = Observed(@, act[a], d, sig, price)]
        ELSE Append(IF a # 0 THEN FinishedOn(released, a, d) ELSE released,
                    NewPeriod(d, sig, price))

\* The signal is gone: the active row closes if d is news to it, the suppressed one always.
Ended(ps, act, a, s, d) ==
    LET ended == IF a # 0 /\ d > act[a].last THEN FinishedOn(ps, a, d) ELSE ps
    IN  IF s # 0 THEN Finished(ended, s) ELSE ended

\* Mutant: the suppressed rows are not looked up.
ReadIdActiveOnly(ps, st) ==
    IF WithStatus(ps, st) = {} \/ st = "suppressed" THEN {0} ELSE WithStatus(ps, st)

\* Rows come in no particular order: of several suppressed rows any may be the one kept.
ReadId(ps, st) == IF WithStatus(ps, st) = {} THEN {0} ELSE WithStatus(ps, st)

SyncResults(ps, act, sup, d, sig, price) ==
    {IF sig = "none" THEN Ended(ps, act, a, s, d)
                     ELSE Continued(ps, act, sup, a, s, d, sig, price) :
        a \in ReadId(act, "active"), s \in ReadId(sup, "suppressed")}

-----------------------------------------------------------------------------
(* snapshot_crypto_strategy_positions over candles 1..d, those of fixed corrected *)

EntryFor(read, fixed) == Coalesce(read.entry, Close(read.admitted, fixed))

\* Mutant: the horizon is counted from the day after the signal appeared.
HorizonDateEarly(read) == read.first + Horizon - 2

\* raw_prices[horizon - 1], counted from the first day of the signal.
HorizonDate(read) == read.first + Horizon - 1

\* <<date, price, reason>> of the exit, computed from the row as it was read.
ExitFor(read, d, fixed) ==
    LET endDate == Coalesce(read.ended, read.last)
        label   == IF read.exitReason # "none" THEN read.exitReason ELSE read.reason
        horizonDate == HorizonDate(read)
        lastCandle  == IF endDate <= d THEN endDate ELSE d
    IN  CASE read.exit # Null -> <<read.exitDate, read.exit, label>>
          [] read.exit = Null /\ read.reason # "none" ->
                <<endDate, read.closed, read.reason>>
          [] read.exit = Null /\ read.reason = "none"
             /\ read.obs >= Horizon /\ horizonDate <= d ->
                <<horizonDate, Close(horizonDate, fixed), "horizon">>
          [] read.exit = Null /\ read.reason = "none"
             /\ ~(read.obs >= Horizon /\ horizonDate <= d)
             /\ read.status = "closed" ->
                <<lastCandle, Close(lastCandle, fixed), "ended">>
          [] OTHER -> <<read.exitDate, Null, label>>

\* Mutant: the return is computed against the newest candle.
SnapshottedAtMarket(r, read, d, fixed) ==
    LET exit == ExitFor(read, d, fixed)
    IN  [r EXCEPT !.entry = Coalesce(@, EntryFor(read, fixed)),
                  !.exitDate = Coalesce(@, exit[1]),
                  !.exit = Coalesce(@, exit[2]),
                  !.exitReason = IF @ = "none" THEN exit[3] ELSE @,
                  !.ret = IF @ = NoReturn /\ exit[2] # Null
                          THEN <<EntryFor(read, fixed), Close(d, fixed)>> ELSE @]

\* Mutant: the exit date is written without COALESCE.
SnapshottedRedating(r, read, d, fixed) ==
    LET exit == ExitFor(read, d, fixed)
    IN  [r EXCEPT !.entry = Coalesce(@, EntryFor(read, fixed)),
                  !.exitDate = exit[1],
                  !.exit = Coalesce(@, exit[2]),
                  !.exitReason = IF @ = "none" THEN exit[3] ELSE @,
                  !.ret = IF @ = NoReturn /\ exit[2] # Null
                          THEN <<EntryFor(read, fixed), exit[2]>> ELSE @]

Snapshotted(r, read, d, fixed) ==
    LET exit == ExitFor(read, d, fixed)
    IN  [r EXCEPT !.entry = Coalesce(@, EntryFor(read, fixed)),
                  !.exitDate = Coalesce(@, exit[1]),
                  !.exit = Coalesce(@, exit[2]),
                  !.exitReason = IF @ = "none" THEN exit[3] ELSE @,
                  !.ret = IF @ = NoReturn /\ exit[2] # Null
                          THEN <<EntryFor(read, fixed), exit[2]>> ELSE @]

SnapshotResult(ps, read, d, fixed) ==
    [i \in DOMAIN ps |->
        IF /\ i \in DOMAIN read
           /\ read[i].dir = "long" /\ read[i].admitted # Null
           /\ read[i].entry # Null \/ read[i].admitted <= d
        THEN Snapshotted(ps[i], read[i], d, fixed) ELSE ps[i]]

-----------------------------------------------------------------------------
(* Steps *)

Tail1(w) == Tail(proc[w].todo)
Handler(w) == Head(proc[w].todo)

\* The plain scanner page syncs without current prices.
CurrentPrice(w) ==
    IF proc[w].kind = "page" THEN Null ELSE Close(proc[w].date, proc[w].fixed)

\* The phases a caller goes through.  The tab that a manual close and an export
\* also render is a "tab" run of its own.
Program(k, d) ==
    CASE k = "daily"  -> IF market[d].pump THEN <<"autoclose", "sync", "snapshot">>
                                           ELSE <<"sync", "snapshot">>
      [] k = "tab"    -> <<"snapshot", "sync", "snapshot">>
      [] k = "page"   -> <<"sync">>
      [] k = "export" -> <<"snapshot">>
      [] k = "manual" -> <<"manual">>

At(w, phases, step) ==
    /\ proc[w].at = step
    /\ Handler(w) \in phases

\* The handler's transaction is over; the next one begins with its own schema check.
NextPhase(w) ==
    IF Tail1(w) = <<>> THEN Idle
    ELSE [proc[w] EXCEPT !.todo = Tail1(w), !.at = "ensure",
                         !.seenActive = <<>>, !.seenSuppressed = <<>>]

\* Commit the new rows with the journal trades they complete, and go on with q;
\* a row that breaks an index raises IntegrityError, which rolls back the
\* transaction and ends the caller's run.
CommitPeriods(w, ps, q) ==
    IF RespectsIndexes(ps)
    THEN periods' = ps /\ journal' = Appended(ps) /\ proc' = [proc EXCEPT ![w] = q]
    ELSE proc' = [proc EXCEPT ![w] = Idle] /\ UNCHANGED <<periods, journal>>

\* Midnight in Moscow.
NewDay ==
    /\ today <= MaxDate
    /\ today' = today + 1
    /\ UNCHANGED <<market, corrected, periods, journal, proc, crashes>>

\* activate_mexc_prices: the candles up to the last completed UTC day, the one before
\* yesterday as long as it is not yet three in the morning, with the closes of the last
\* days fetched again.  A manual close takes no three hours: while one is on, the candle
\* of its day is not complete.
ActivatePrices ==
    /\ \E upto \in {today - 2, today - 1}, again \in SUBSET (Dates \cap Latest - 7..Latest) :
          /\ upto >= Latest
          /\ \A w \in Workers : proc[w].kind = "manual" => upto < proc[w].date
          /\ \E new \in [1..upto - Latest -> Candle] :
                /\ Latest = 0 /\ upto > 0 => ~new[1].pump
                /\ market' = market \o new
          /\ corrected' = corrected \cup again
          /\ Cardinality(corrected') <= MaxCorrections
    /\ UNCHANGED <<today, periods, journal, proc, crashes>>

\* Mutant: the close date is rolled over twice on the way to Moscow time.
RunDateTwiceRolled(k) == IF k = "manual" THEN today + 1 ELSE Latest

\* The data date of a run; a manual close is dated by the calendar.
RunDate(k) == IF k = "manual" THEN today ELSE Latest

\* A caller reads all candles, or, for a manual close, the live quote.
Begin(w, k) ==
    /\ proc[w] = Idle
    /\ Latest > 0
    /\ proc' = [proc EXCEPT ![w] =
                   [Idle EXCEPT !.kind = k, !.at = "ensure",
                                !.todo = Program(k, Latest),
                                !.date = RunDate(k), !.fixed = corrected]]
    /\ UNCHANGED <<today, market, corrected, periods, journal, crashes>>

EnsureSchema(w) ==
    /\ At(w, Phases, "ensure")
    /\ CommitPeriods(w, Ensured(periods),
          [proc[w] EXCEPT !.at = IF Handler(w) \in {"autoclose", "manual"}
                                 THEN "write" ELSE "active"])
    /\ UNCHANGED <<today, market, corrected, crashes>>

\* The journal is only appended to if a position was closed.
ClosePosition(w) ==
    /\ At(w, {"autoclose", "manual"}, "write")
    /\ LET reason == IF Handler(w) = "manual" THEN "manual" ELSE "auto"
           quote  == IF Handler(w) = "manual" THEN Live
                     ELSE Close(proc[w].date, proc[w].fixed)
           closed == ClosedPositions(periods, proc[w].date, quote, reason)
       IN  IF closed = periods
           THEN proc' = [proc EXCEPT ![w] = NextPhase(w)] /\ UNCHANGED <<periods, journal>>
           ELSE CommitPeriods(w, closed, NextPhase(w))
    /\ UNCHANGED <<today, market, corrected, crashes>>

ReadActive(w) ==
    /\ At(w, {"sync", "snapshot"}, "active")
    /\ proc' = [proc EXCEPT ![w].seenActive = periods,
                            ![w].at = IF Handler(w) = "sync"
                                      THEN "suppressed" ELSE "write"]
    /\ UNCHANGED <<today, market, corrected, periods, journal, crashes>>

ReadSuppressed(w) ==
    /\ At(w, {"sync"}, "suppressed")
    /\ proc' = [proc EXCEPT ![w].seenSuppressed = periods, ![w].at = "write"]
    /\ UNCHANGED <<today, market, corrected, periods, journal, crashes>>

WriteSync(w) ==
    /\ At(w, {"sync"}, "write")
    /\ \E ps \in SyncResults(periods, proc[w].seenActive, proc[w].seenSuppressed,
                             proc[w].date, market[proc[w].date].signal, CurrentPrice(w)) :
          CommitPeriods(w, ps, NextPhase(w))
    /\ UNCHANGED <<today, market, corrected, crashes>>

WriteSnapshot(w) ==
    /\ At(w, {"snapshot"}, "write")
    /\ CommitPeriods(w, SnapshotResult(periods, proc[w].seenActive, proc[w].date,
                                    proc[w].fixed),
                     NextPhase(w))
    /\ UNCHANGED <<today, market, corrected, crashes>>

\* The process is restarted or the request is dropped between two transactions.
Crash(w) ==
    /\ proc[w] # Idle
    /\ crashes < MaxCrashes
    /\ crashes' = crashes + 1
    /\ proc' = [proc EXCEPT ![w] = Idle]
    /\ UNCHANGED <<today, market, corrected, periods, journal>>

Step(w) ==
    \/ EnsureSchema(w) \/ ClosePosition(w)
    \/ ReadActive(w) \/ ReadSuppressed(w)
    \/ WriteSync(w) \/ WriteSnapshot(w)

Init ==
    /\ \/ market = <<>> /\ periods = <<>>
       \/ \E sig \in {"low", "mid"} :
             /\ market = <<[signal |-> sig, pump |-> FALSE]>>
             /\ periods \in {<<LegacyPeriod("none")>>, <<LegacyPeriod(sig)>>}
       \/ /\ market = <<[signal |-> "mid", pump |-> FALSE]>>
          /\ periods \in {<<FalseExit>>, <<FalseExitFrozen>>}
    /\ today = Latest + 1 /\ corrected = {}
    /\ journal = [i \in {} |-> 0]
    /\ proc = [w \in Workers |-> Idle]
    /\ crashes = 0

Next ==
    \/ NewDay \/ ActivatePrices
    \/ \E w \in Workers : \E k \in Kinds : Begin(w, k)
    \/ \E w \in Workers : Step(w) \/ Crash(w)

Spec == Init /\ [][Next]_vars

\* A handler that runs is scheduled, and the daily job is started again and again
\* whatever the requests do (the loop of start.sh).
FairSpec ==
    /\ Spec
    /\ \A w \in Workers : WF_vars(Step(w)) /\ SF_vars(Begin(w, "daily"))

-----------------------------------------------------------------------------
(* Properties *)

\* Every table, snapshot and program counter holds values of its type.
TypeOK ==
    /\ market \in Seq(Candle) /\ corrected \subseteq Dates
    /\ today \in Latest + 1..MaxDate + 1
    /\ periods \in Seq(Period)
    /\ DOMAIN journal \subseteq DOMAIN periods
    /\ \A i \in DOMAIN journal : journal[i] \in Trade
    /\ proc \in [Workers -> Proc]
    /\ crashes \in 0..MaxCrashes

\* "Advance scanner periods once per unique market data date": a period never
\* counts more observations than there are data dates between its first and last day.
ObservedOncePerDate ==
    \A i \in DOMAIN periods :
        periods[i].obs <= periods[i].last - periods[i].first + 1

\* A frozen entry is the daily close of the admission date, and a frozen exit
\* other than a manual one is the daily close of the exit date.
QuotesMatchDates ==
    \A i \in DOMAIN periods : LET r == periods[i] IN
        /\ r.entry # Null => DateOf(r.entry) = r.admitted
        /\ r.exit # Null => IF r.exitReason = "manual" THEN r.exit = Live
                                                       ELSE DateOf(r.exit) = r.exitDate

\* The exit of an admitted period is frozen as a whole, with the return between
\* its own entry and exit, or not at all.
ExitFrozenTogether ==
    \A i \in DOMAIN periods : LET r == periods[i] IN
        IF r.exit = Null
        THEN r.exitDate = Null /\ r.exitReason = "none" /\ r.ret = NoReturn
        ELSE /\ r.exitDate # Null /\ r.exitReason # "none"
             /\ r.admitted # Null => r.ret = <<r.entry, r.exit>>

\* The journal holds each completed trade as the period that made it has it.
JournalMatchesPeriods ==
    \A i \in DOMAIN journal : journal[i] = TradeOf(periods[i])

\* "All exit fields frozen together", and the price is that of the date.
WholeExit(date, quote, reason) ==
    IF quote = Null THEN date = Null /\ reason = "none"
    ELSE /\ date # Null /\ reason # "none"
         /\ IF reason = "manual" THEN quote = Live ELSE DateOf(quote) = date

\* However many handlers write what they computed from a row that has changed since, the
\* date, the price and the reason of an exit come from one of them, in the table and in the
\* journal.
ExitIsWhole ==
    /\ \A i \in DOMAIN periods : LET r == periods[i] IN WholeExit(r.exitDate, r.exit, r.exitReason)
    /\ \A i \in DOMAIN journal : LET t == journal[i] IN WholeExit(t.closed, t.exit, t.reason)

\* A position does not close before the day it opened on.
ExitNotBeforeEntry ==
    \A i \in DOMAIN periods : LET r == periods[i] IN
        r.admitted # Null /\ r.exit # Null => r.admitted <= r.exitDate

\* ... as long as every data date between its first and last day was synced.
ExitNotBeforeEntryIfDaily ==
    \A i \in DOMAIN periods : LET r == periods[i] IN
        r.admitted # Null /\ r.exit # Null /\ r.obs = r.last - r.first + 1
            => r.admitted <= r.exitDate

\* A closed position is not recommended again while the condition it was bought
\* on still holds: between the two periods some day did not show it.
ReentryOnlyAfterGap ==
    \A i, j \in DOMAIN periods :
        /\ i < j
        /\ periods[i].dir = "long" /\ periods[j].dir = "long"
        /\ periods[i].reason # "none"
        => \E d \in periods[i].last .. periods[j].first :
                market[d].signal \in {"none", "short"}

\* A position is over: sold, ended with its signal, or past its last horizon candle.
PositionOver(i) ==
    /\ i \in DOMAIN periods
    /\ periods[i].dir = "long" /\ periods[i].admitted # Null
    /\ \/ periods[i].status = "closed"
       \/ /\ periods[i].status = "suppressed" /\ periods[i].exit # Null
          /\ periods[i].reason = "auto" => periods[i].ended # periods[i].admitted
       \/ periods[i].obs >= Horizon /\ HorizonDate(periods[i]) <= Latest

\* Every position that is over reaches the trade journal.
OverReachesJournal ==
    \A i \in 1..(2 * MaxDate) : PositionOver(i) ~> i \in DOMAIN journal

\* Journal trades are never rewritten or lost.
JournalKept ==
    \A i \in DOMAIN journal : i \in DOMAIN journal' /\ journal'[i] = journal[i]

\* Once a period has an entry price, later imports, corrections and syncs do not
\* rewrite it.
EntriesKept ==
    \A i \in DOMAIN periods :
        periods[i].entry # Null => periods'[i].entry = periods[i].entry

\* Whatever the handlers read before the provider corrected a close, and write after, a trade
\* in the journal and an entry price stay what they are.
HistoryFrozen == [][JournalKept /\ EntriesKept]_<<periods, journal>>

\* The journal and the periods agree on the entry price of every trade.
JournalEntriesMatch ==
    \A i \in DOMAIN journal : journal[i].entry = periods[i].entry

=============================================================================
