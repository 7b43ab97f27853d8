# Verification of cryptoscope (MEANX)

TLA+ models, TLC runs and TLAPS proofs for the state machines of the service in
`src/cryptoscope/` - a FastAPI application over one SQLite database that scans
markets for momentum, keeps journals of the positions those scanners would have
taken, and sells access to the result. The models follow the Python source; each
definition's lines are in `PROJECT.json` under `map`.

The repository also holds an earlier R application, a TypeScript API server and
browser extensions (`src/artifacts`, `src/lib`, `src/extensions`); `start.sh`
does not run them and they are not modelled.

## 1. Inventory

How the parts meet: every part keeps its state in the same SQLite file, and every
request handler and job opens a connection of its own. There are no in-process
locks. Python's `sqlite3` opens a transaction at the first DML statement, so a
`SELECT` before it is a snapshot of its own and everything from the first DML
statement to the commit is one atomic write. All interleavings below come from
that: *read, (await,) decide, write by id*. Two long-lived actors exist besides
the requests, the daily loop of `start.sh` and the workers the handlers push
computations to.

| Component | State | Operations | What is hard | Correct if |
|---|---|---|---|---|
| scanner lifecycle (`core/scanner_history.py`, called by `scripts/daily_update.py`, `api/crypto_picks.py`, `api/ui_routes.py`) | `scanner_signal_periods`, `crypto_strategy_trades` | ensure schema (three backfill/repair UPDATEs), close positions (by hand, after +30%), sync with today's scanner result, snapshot entries and exits, append to the journal | five callers interleave; skipped data dates; runs that die between transactions; a UNIQUE index that aborts a run | a date counts once; entry and exit freeze once and belong together; a sold signal does not come back at once; every position that is over is journaled and the journal never changes |
| payments and subscriptions (`api/payments.py`) | `payment_orders`, `payment_notifications`, `user_subscriptions` | checkout, PayAnyWay notification, PayPal order, PayPal capture | repeated and concurrent notifications; remote calls between reads and writes; lost answers; crash between capture and commit | a payment credits its buyer once and in full, nothing else does, and a success is only reported when it was credited |
| access control (`access.py`, middleware in `main.py`) | none (reads users and subscriptions) | decide the access state of a request | precedence of admin, subscription, trial | access iff some right is current |
| authentication (`auth.py`, `api/auth.py`) | magic links, rate counters, users, sessions | request link, verify link, log out | check-then-insert rate limits; two clicks on one link; mail failure | a link logs in at most once |
| alpha trade journal (`core/market_regime.py`, `api/market_regime.py`, end of `scripts/daily_update.py`) | `alpha_trade_journal` | sync with the trade plan of a data date, expire at the planned close | expire and sync interleave; UPDATE by id without a status guard; prices, scanners and journal advance in separate transactions | one active trade per ticker, one trade per scanner episode; closed trades stay as they were and closed for the reason given |
| reversal forward test (`core/reversal_lab.py`) and its notifications (`content/reversal_notifications.py`) | `reversal_candles`, trades, watermark, outbox | process new bars, queue and dispatch messages | passes cut the candles anywhere; runs overlap; a message is sent before it is marked | a trade ends at the first bar that ends it; positions of a coin follow one another; every event is told, and as the journal has it |
| short-term forward test (`core/short_term_lab.py`) | pending, active, closed trades | advance, insert candidates | gaps in candles | each trade reaches closed |
| content automation (`content/automation.py`) | `content_publications`, the bot's `favorites`, the Telegram channel and its Threads mirror | draft, claim, publish, update, close, backfill Threads | four commits and three remote calls per signal, any of which may fail or be the last one before a restart; the backfill runs next to the loop | the books say what the channel was told; one main signal per data date; the end of a signal is told |
| MEXC cutover (`data/mexc.py`) | active prices, archive, staging | stage, activate, roll back | validation outside the transaction | a rollback restores what was archived |
| favorites (`db/database.py`, `api/favorites.py`) | `favorites` | toggle, close with a live price | awaited price between read and write; no UNIQUE | a favorite closes once |
| momentum portfolio (`core/momentum_portfolio.py`), ts momentum (`core/ts_momentum.py`) | runs and allocations; journal | finalize, freeze | partial prices | a run finalizes once |
| pair analysis (`scripts/compute_analysis.py`) | `pairs`, `signals` | replace per market | commits half way through | tables match the last run |
| daily loop (`start.sh`) | marker files | run once per day until it succeeds | failures, restarts | one success per day |
| numerics, presentation, research, feeds, health | none durable | read and compute | floating point | out of TLC's reach |

`PROJECT.json` lists them all, with the hazards of the modelled parts at their lines.

## 2. Modules

| Module | What it is |
|---|---|
| `ScannerPeriods` | One ticker in the crypto momentum scanner: table, journal, market and every handler that writes them |
| `ScannerPeriodsProofs` | Theorems about it that hold however handlers interleave |
| `ScannerSequentialProofs` | Theorems about it for handlers that run one at a time |
| `SubscriptionLedger` | Abstract: an operation received for a plan is turned into access time in one step, at most once |
| `Payments` | The PayAnyWay and PayPal handlers; refines `SubscriptionLedger` (`ImplementsLedger`) |
| `PaymentsProofs` | Theorems about it, including the refinement |
| `AlphaJournal` | The journal of Alpha recommendations: pipelines that sync it, page views that expire it |
| `AlphaJournalProofs` | Theorems about it |
| `SignalFeed` | Abstract: what the readers of the channel are promised about a signal |
| `Publications` | The content automation with its channel, mirror and favorites; refines `SignalFeed` (`ImplementsFeed`) |
| `PublicationsProofs`, `PublicationsRefinement` | Theorems about it; the proof of the refinement |
| `ReversalForward` | The forward test of the reversal strategy, its outbox and the dispatch |
| `ReversalProofs` | Theorems about it |
| `MCScannerPeriods`, `MCPayments`, `MCAlphaJournal`, `MCPublications`, `MCReversalForward` | Instances for TLC (symmetry sets, `TickerOf`) |

### 2.1 ScannerPeriods

*State.* `periods` is the table in id order, `journal` maps a period id to its trade
(`INSERT OR IGNORE` by `period_id`), `market[d]` is what the candles up to data
date `d` make of the ticker (no signal, short, long with low or medium/high
confidence; whether it closed 30% or more up), `corrected` the dates whose close the
provider has corrected since it was first stored, `today` the calendar day in Moscow, and
`proc[w]` is the program counter of connection `w` with the rows and the candles it read.

*Data abstraction.* Dates are numbered. A price is the date whose daily close it is and
whether that close was corrected when it was read (`Live` for a live quote), a return is
the pair of its two prices: that is what lets `QuotesMatchDates`, `ExitFrozenTogether` and
`ExitIsWhole` say that a number comes from the right candle, and `HistoryFrozen` that a
correction does not reach what was frozen. A close is corrected at most once, and a
correction changes prices only: what the scanner found on past dates (`market`) stays.
The ticker has a close on every date. One ticker suffices because no statement
relates rows of two tickers.

*Time.* `NewDay` is midnight in Moscow. `ActivatePrices` is the activation of validated
candles in `prices` (`mexc.py:445-570`): up to yesterday, or, before three in the morning, the day
before (a candle is only taken when its UTC day is over, `mexc.py:150-155, 213`), any number of
days at once, with corrected closes among the last days, which are fetched again
(`mexc.py:264-267, 434-437`). A manual close is dated by the calendar (`crypto_picks.py:227`), hence
one or more days after the newest candle; that it is over before the candle
of its own day can be stored, three hours or more later, is a guard of `ActivatePrices`.

*Steps.* A caller (`Begin`) is a list of phases: the daily job is automatic close, sync,
snapshot; the crypto tab is snapshot, sync, snapshot; the plain scanner page only
syncs, and without prices; an export only snapshots; a manual close only closes (the tab that
an export or a manual close also renders is a `"tab"` run of its own).
Each phase starts with `EnsureSchema` (its UPDATEs commit with the phase's own
first transaction or before it), then reads (`ReadActive`, `ReadSuppressed`: two
SELECTs) and writes (`WriteSync`, `WriteSnapshot`, `ClosePosition`). A commit
that would break a UNIQUE index leaves the tables alone and ends the caller's run.
`Crash` ends a run between two transactions.

*Init* is an empty database or a row left by an older version of the code: a long
row from before admission was tracked, or a false +30% exit on the day of entry, its
strategy exit frozen or not yet - the rows the three repair UPDATEs were written for.

### 2.2 Payments

*State.* The three tables, the provider's books (`bank`), the orders that exist at PayPal
only (`offered`), the operations whose caller was told of success (`answered`),
and a program counter per request. `Terms` abstracts amount, currency, subscriber
and test mode to whether they agree with the order. A bad signature never reaches
the tables and is left out, like the read-only CHECK command.

*Steps.* `Notify` (read and validate the order), `LookUp` (is the operation known, was the
order paid when read), `Record` (notification, subscription and order in one
transaction, which is one step because SQLite makes it one: no property here is about a
partial write), `Reply`. For PayPal `StartCapture`, `CaptureRemote` (idempotent by
request id; the answer may be lost), `Recheck` (new connection), `Record`, `Reply`.
`Tick` lets 40 days pass at once, so a monthly plan can run out.

*SubscriptionLedger* has `Receive`, `Credit` and `Tick`. Its variables are read off the
handlers' tables: `received` from the bank, `credited` from the notifications.
No request, retry or connection appears in it.

### 2.3 AlphaJournal

*State.* `trades` is the table in id order, `offers[d]` what the trade plan offered on each
date `d` the scanners were synced for, `latest` the newest data date in `prices`,
`today` the calendar date in Moscow, `proc[w]` a connection with what it read.

*Data abstraction.* One ticker; the regime filter, confidence and ranking are the free choice
of an offer (`Candidates`), which keeps what bounds it: a position appeared on a
synced date and is younger than its horizon. That the scanners are synced by several
transactions is `ScannerPeriods`' subject; here a sync is one step (`Scan`).
`Trade` drops prices and returns where they follow from the dates; the exit price
is a data date or `Live`. A trade keeps the horizon of one scanner, while in the
code a confirmation may change the label and with it the planned close.

*Steps.* The pipeline (daily job, or the refresh button's thread) is `Fetch`, `ScanStep`,
`ReadDate` (the regime history is computed over the prices as they are then),
`ReadPlan`, `ReadActive`, `WriteSync`. A page view is `BeginExpire`, `ReadActive`,
`WriteExpire`; `GET /api/market-regime` does it also while a pipeline is running.
`ReadActive` merges the marking of duplicates with the SELECT after it; the theorem
`MarksStay` justifies that: after the migration there is nothing to mark. `Sell` closes
the scanner position by hand (a sale that resolves a conflict between the two
scanners, and so brings an offer, is left out); `Abandon` is a crash, a provider that fails, or
the `RuntimeError` over a missing price, all of which leave the tables as they were.

*Init* is an empty database, or one of before the episode index in which an episode was
closed and opened again; the second row is then marked as a duplicate and, being
active, blocks its ticker for good.

### 2.4 Publications

*State.* `rows` is `content_publications`, one row per signal (its UNIQUE key), `favorites` the
favorites of the bot's user, `period` and `day` what the automation reads of the scanner and
of the prices. `channel` and `threads` are what readers have seen, which no table
records completely. `proc["loop"]` is the run that the loop of `start.sh` has going, one at
a time; `proc["backfill"]` the run it starts in the background after a container start.

*Data abstraction.* A message is its kind, data date and price; a Telegram message id is a place
in the signal's part of the channel. Which candidate is selected is free (confidence and
rank are numbers), what excludes one is not: an active period, `RepeatDays`, no other
publication of the date. Text, cards, `current_price` and `return_pct` are left out.
A period that has ended stays ended (`Observe`): the repair of false exits
(`scanner_history.py:254-284`), which can reactivate a row that an old version closed, is
`ScannerPeriods`' subject. Every ticker has prices: the skip of a row whose ticker has no column or
no values (`automation.py:1226, 1235`) is left out of `Due`. `threads` is a set: a post that an
attempt showed and the next one repeats is in it once, and no property counts the mirror's posts.

*Steps.* One step per commit or remote call, in the order of the code. A run starts with the
schema (which returns rows claimed more than 30 minutes ago to draft: `Start` leaves open
which of the abandoned ones are that old; the claim of a run that is alive is taken to be
younger, so a run that needs half an hour for one publication, `automation.py:138-145`, is left
out) and with what Threads misses (`SendCard`,
`SaveCard`, `ReadReplies`, `SendReply`, `SaveReply`). "updates" is `ReadRows`, then per
row `Tell`, `EchoUpdate`, `KeepUpdate`, up to the limit. "main" is `ClaimOldest`, or
`SelectCandidate`, `MakeFavorite`, `InsertDraft`, `Claim`; then `Refresh`, `Send`,
`MirrorSignal`, `Record`. A failing Telegram call ends the run, whether or not the
message was shown (a lost answer); a failing Threads call is swallowed, and may have shown the
post as well. `Crash` ends both
processes and allows a new backfill.

*SignalFeed* has `Announce`, `Report`, `KeepSignal`, `KeepReport`, `Echo`, `KeepEcho`. The books say only
what was told before; what they say is not told again; after its end was told a
signal is never reported as on; the mirror repeats the channel. Drafts, claims, retries and
runs do not appear in it.

### 2.5 ReversalForward

*State.* `candles[t]` are the stored closes of a coin, bar by bar (`NoPrice` for a gap), `btc` the
newest bar of BTC, which sets the bar a run works up to; `watermark`, `trades` and `outbox` are
the three tables of the forward test; `channel` what Telegram has shown; `proc[w]` a run
of the script with what it read.

*Data abstraction.* Bars are numbered; a price is counted in steps of the return that decides an
exit, so `Target` and `Stop` are numbers of steps. Whether a move was a shock is left
open (its strength is a floating-point z-score), its direction is the code's. Candles of
completed bars are final, and a gap stays one: the code fetches the newest stored bar again and
overwrites it (`mexc_intraday.py:70, 128-134`), can ask for earlier ranges (71-72), and another
refresh (163-276) may store windows that fill a gap; a bar so changed or filled behind the
watermark is outside the model, and so outside `ExitIsFirst`. Coins are stored one by one, so
a coin may lag behind BTC. BTC as a traded coin is left out.

*Steps.* `Read`, `ReadState`, `ReadTrades` (newest bar, watermark, trades: three SELECTs, each a
snapshot of its own), `Initialize` or `Advance` (all trades of the pass, the new ones, the
events and the watermark: one transaction from the first DML statement; if no active trade has
a new bar that is the INSERT at `reversal_lab.py:434`, and the tickers with an active trade,
422-430, are read before it, which matters to overtaken runs only), `Skip` (a run that does not advance),
`Select`, then `Send` and `Record` per message. `Advanced` writes rows guarded by `status =
'active'` with what was computed from the row read. Nothing in the repository prevents two
runs from overlapping. Several dispatchers of one event may push `attempts` past the maximum;
an event whose attempts are used up is given up, although the code's comment calls failed
events retryable.

## 3. Runs

| Run | Question | Bounds |
|---|---|---|
| `scanner_single` | Are table and journal consistent when handlers run one at a time, dates are skipped at will and runs die, and does every position that is over reach the journal? | 1 worker; daily job, tab, page, manual close; 3 dates, horizon 2, no corrections, 1 crash; fairness |
| `scanner_concurrent` | What still holds when two connections interleave, and a close that was used is corrected? | 2 workers; daily job, page, export, manual close; 2 dates, 1 correction, no crash |
| `scanner_skipped_days` | finding 1 | 1 worker, daily job, 4 dates |
| `scanner_counted_twice` | finding 2 | 2 workers, page, 2 dates |
| `payments` | All safety properties, the refinement, and does a customer who paid get the plan? | 2 requests, 2 users, 2 orders (one of the retired 7 day plan), 2 operations, both product variants, 1 crash, one step of 40 days; fairness |
| `payanyway_twice` | finding 3 | 2 requests, 1 order, 2 operations |
| `alpha_single` | Is the journal immutable and right about its reasons when handlers run one at a time, and is a trade whose signal is gone closed? | 1 worker, horizon 3, 3 dates; fairness |
| `alpha_concurrent` | What still holds when two connections interleave? | 2 workers, horizon 3, 3 dates |
| `alpha_rewritten` | finding 4 | 2 workers, 3 dates |
| `publications` | Do books, channel and favorites agree, is there one signal a day, and is the feed implemented, whatever call fails and wherever the container dies? | 2 signals of different tickers, 2 prices, 1 update per evening, 2 days, 1 failing call, 1 crash |
| `publications_daily` | Is the end of every signal told and kept? | 2 signals, 1 price, 1 update per evening, repeat after 1 day, 3 days, 1 crash; fairness |
| `reversal` | Do trades end where their history says, and is every event told, with runs that overlap, fail and die? | 2 runs, 1 coin, 2 prices, target and stop of 1 step, 2 bars at most, 4 bars, batches of 1, 2 attempts, 2 troubles; fairness |

*Why the bounds are enough.* Horizon 2 with 3 dates has all cases of the horizon: not
reached, reached on the last candle, passed; the code's 5 only repeats the middle.
The scanner's hazards of interleaving take two connections (one that read too early, one
that writes in between) and two dates. `scanner_concurrent` leaves the tab out, whose three
transactions are those of an export, a page with prices (the daily job's sync) and an export
again, and crashes, which only end a run early, as not scheduling it does without fairness;
the theorems behind its properties have no such bounds. `scanner_single` has no corrections:
`QuotesMatchDates` and its other invariants are proved with any number of them. Two payment operations over two orders
and two users give a repeated notification, a second payment of the same order,
and an unrelated one. Horizon 3 with 3 dates has an Alpha trade opened at age 1 and 2,
one that expires, one that is confirmed first, and a second one after either; finding 4
takes a page view that expires a trade between two steps of a pipeline. Two signals with one update per evening have one
that is put off, and one that is still a draft when the next day begins; a ticker of
two signals only adds exclusions to `Recent`. Four bars have a shock, an entry, a bar that
ends nothing and one that ends by target, stop or time, with a gap in any place; batches of
one and two attempts have an event that is put off, one that is retried and one that is
given up; two troubles are an overlap and a failure in it. One coin suffices because the
statements about `ReversalForward` relate rows of one coin or rows to messages; the
theorems (section 5) hold for any number. Deadlock is not checked: the models run out of
dates, orders, days or bars and may then rest.

*Symmetry* (workers, requests, operations, signals, prices) is used in runs without
temporal properties under fairness; the constants are interchangeable there.

*Fairness.* A handler or run that has begun is scheduled (weak). The daily job is started
again and again (strong: the loop in `start.sh` tries every 30 seconds until a run of the day
succeeds, whatever the requests do), and so are the evening's updates
(`SF Start("loop", "updates")`: the backfill next to it must not keep the loop from them).
PayAnyWay repeats a notification until it reads SUCCESS (strong, per operation). In
`alpha_single` each step of the pipeline is strongly fair: it may be abandoned at any of
them, but not always at the same one. The reversal script is started again and again
(weak fairness of `Step`, of which the start is one); its crashes and failures are
bounded by `MaxTroubles`. Nothing is assumed of customers and of markets: paying, opening
pages, selling by hand and new candles are never required. A PayPal capture
is not repeated by anyone, so no liveness is claimed for it: `PaymentHonoured` is about the variant
whose payments come through PayAnyWay.

`OverReachesJournal` is checked for one worker on purpose. With two, a sync that holds an
older data date can leave rows for which every later sync of the newest date violates
`UNIQUE (..., direction, first_seen_date)`; the daily job then aborts until a newer
candle arrives, and with a bound on dates none does; with one no commit is ever refused
(theorem `NoRunIsRefused`). `EventsAreTold` counts an event whose
attempts are used up as given up, since the dispatch selects `attempts < 10` only.

## 4. Findings

1. `scanner_skipped_days`: the horizon exit is counted in candles from
   `first_seen_date`, admission in synced dates. After skipped dates the exit is
   older than the entry, which `audit_calculations.py:617-620` reports as an error.
   `ExitNotBeforeEntryIfDaily` shows that skipped dates are the only way there.
2. `scanner_counted_twice`: whether a data date is new is decided from the row that the sync's own
   SELECT returned, and the UPDATE adds one to whatever is stored by then
   (`scanner_history.py:804`). Two page loads that both read before either writes count one
   date twice, although `scanner_history.py:656` says "once per unique market data date"; the horizon,
   which compares `observation_count`, comes a day early. With one handler at a time it cannot
   happen (theorem `EachDateCountedOnce`).
3. `payanyway_twice`: `payments.py:678` tests the order row read before the write
   transaction, and only `(provider, operation_id)` is unique; two operations for one
   pending order both extend the subscription. The customer paid twice and gets
   twice the time (`ImplementsLedger` holds); what fails is the rule that a paid
   order is rejected.
4. `alpha_rewritten`: "Advance the immutable Alpha recommendation journal"
   (`market_regime.py:641`). `expire_alpha_trade_journal` guards its UPDATE by status,
   the two UPDATEs of the sync do not; a sync that read the trade before the
   expiry replaces its exit, date and reason. It cannot reopen it, nor leave half an
   exit (theorems `NothingReopened`, `ExitsWhole`).

Seven more properties that hold when handlers run one at a time (proved, section 5) are false
with two, as finding 2 is - a decision taken from rows read before the transaction. They
have no run of their own, and a hazard that needs two connections is not counted as
covered by them; checking one of them alone with `Workers = {w1, w2}` shows the
counterexample:

- `JournalMatchesPeriods`: a sync that read the row before it was admitted overwrites
  `strategy_admitted_date` after the trade was journaled; the two rows that
  `audit_calculations.py:686-707` compares no longer agree. Entry price and journal
  row are safe (`HistoryFrozen`: proved).
- `QuotesMatchDates`: two syncs that read the same unadmitted row both admit it, each
  at its own data date; the second replaces the date and keeps the entry price of the first.
- `ExitFrozenTogether`: a sync admits a row it read unadmitted after a sale closed it; the
  position then has an exit and no return.
- `ExitNotBeforeEntryIfDaily`: a run with an older data date is overtaken by newer ones
  between its reads and its writes.
- `ReentryOnlyAfterGap`: syncs of two successive dates both read an empty table; one inserts the signal, it is
  sold by hand, and the other inserts the same signal again.
- `ClosedAfterOpened`: a slow sync of older data confirms an Alpha trade and moves
  `last_seen_on` back; a later run on the day the trade was opened is then not
  deferred as the comment at `market_regime.py:727` requires.
- `LossIsReal`: between the scan and the reading of the data date another pipeline may
  store a new candle. The plan of the new date is then empty, for the scanners have not
  seen it, and all trades are closed as "signal disappeared or filtered"; the episode
  index keeps them from being opened again on the next run.

`PositionsApart` is about runs that are not overtaken. A run that is, opens a trade at a bar
the coin's last trade lies beyond, or sets the watermark back (`reversal_lab.py:460`
writes it without a comparison). A closing may be told before its opening: the events
of a pass are taken in id order, but an opening that failed waits for the next batch.

Four observations without a property. After PayPal took the money, a crash before the
commit leaves the customer uncredited until someone captures the same order again (no
webhook, and `main.js` does not retry). The retired `test7` plan, if such an
order is still paid, shortens a running subscription to seven days
(`payments.py:274-276`), which is why `PaidTimeKept` leaves its buyers out. An active
Alpha row that the migration marks as a duplicate is never closed, and blocks
its ticker; `MarkStable` says that no row becomes one later. A draft that a failed run left is published days later without asking whether its
signal is still on (`automation.py:1475`); the next evening tells its end.

## 5. Proofs

`tlapm` proves the following for every value of the constants that the modules' named
assumptions allow (naturals are naturals, the null values are not members, tables
of constants have the right domains).

*ScannerPeriodsProofs.* `TypeCorrect`, `JournalEntriesAgree`, `HistoryStaysFrozen`,
`ExitsAreWhole`, with any number of interleaving connections. The inductive
invariant `IInv` adds to the types that a worker that is not idle has a phase left
and reads a data date that has a candle (`WorkerOK`; without it `market[date]` has no
value) and that a journaled period has the entry its trade has, and that the entry
is there (`JournaledEntries`; without the last part a later COALESCE could fill it).
The argument is by layers: each update of a *row* keeps an entry that is there
(`KeepsEntry`), each handler's update of the *table* consists of such updates and
appends (`Succeeds`), a commit of such a table appends to the journal only
(`CommitTables`), and each action commits one or none. Stale reads do not matter
to the argument since every row update is shown for an arbitrary row read.
`ExitsAreWhole` repeats the layers for exits: every update of a row leaves a whole exit
whatever sound row was read (`Sound`: the exit is whole, and a row that was sold has one),
so tables and snapshots stay sound. The one kind of row that is not, the false exit that older
code left, is repaired by the first schema check, before any handler can read it.

*ScannerSequentialProofs.* `EachDateCountedOnce`, `QuotesAreOfTheirDates`,
`ExitsFrozenTogether`, `JournalAgrees`, `DailyExitsAreLater`, `NoReentryWithoutGap`, for any
horizon, number of dates and crashes, under the assumption `Sequential`: there is one
worker, the instance of `scanner_single`. Section 4 has the counterexamples
that make the assumption necessary. `SeqInv` has three layers. Of a *row*, `RowOK` says that
it counts no more days than it spans, was not admitted after the end of its horizon if it
was seen daily, and has its return with its exit; `Follows` is what no update undoes: a
closed row's days and reason, and the trade of a row that is over. Of the *table*, `TableOK`
says that only its last row is not closed - so a sync finds the row a signal belongs to -
and that between a sold row and a later long one the signal was gone. Of the *handler*,
`Dated` and `Reading` say that its data date exists (that of a manual close is later than all), that no day of the table is later, and that
what it read is still what the table holds; the last of the three is the one that fails with
two workers. `RowUpTo` carries the gap while it is still open, from the sold row's last day to
the handler's date: without it `ReentryOnlyAfterGap` is not inductive, since the row that
ends the gap is inserted by a later run. The false exit of older code is the one
table that is not in order (`FalselyExited`), and the first write to it is the schema
check that repairs it. There is one lemma per update of a row, per write of the table and per action.

Two more theorems there are about the UNIQUE indexes, of which the code expects an
`IntegrityError`. `NoRunIsRefused`: what a lone handler is about to commit never breaks one;
with two workers TLC finds the refusal. `Unrefused` is inductive over `SeqInv`: on the last
day of a row the scanner showed its signal, and a row that is closed was closed on a later
day, so a row that is inserted is the first of its day (`AddedSeen`). `SnapshotsJournalAll` uses it for the
safety half of `OverReachesJournal`: a snapshot that reads all candles commits and leaves no position
that is over outside the journal, for any horizon.

*PaymentsProofs.* `TypeCorrect`, `PaidOrdersAreCredited`, `CreditsArePaid`,
`SuccessIsCredited`, `CapturedOrderCreditedOnce` (for the PayPal variant) and
`HandlersImplementLedger`, the refinement. `IInv` adds what a request knows between its steps
(`RequestsOK`: a request that is about to write holds an operation that paid its
order in full), that paid orders exist (`BankKnown`), that an offered order does
not exist here yet (`OffersFresh`), and that PayPal takes the money of an order
once (`CapturedOnce`). The refinement has one lemma per kind of step: hidden ones
leave the ledger's variables alone, a payment is `Receive`, `Record` is `Credit`.
`PaidTimeIsKept` and `NoTimeForFree` bound a subscription's end from below and above by what
its payments are worth. That is counted per plan, the plan's days times the
number of its credits, so that a step needs the cardinality of one set with one element
added and no sum over a set. The two bounds with the finiteness of the notifications
(`TimeOK`) are inductive over `IInv`: a recorded order is credited to the buyer and for the
plan it was checked out with, which no later step changes (`OrdersKept`).

*AlphaJournalProofs.* `TypeCorrect`, `OneActiveAlways`, `EpisodesTradedOnce`, `ExitsWhole`,
`NothingReopened`, `MarksStay`, for any number of connections, any horizon and number of days. `IInv`
adds that the scanners have a last date and offer nothing of a later one (`OffersOK`:
the age of a candidate is then at least one), and what a handler knows at each step
(`WorkersOK`: a plan that offers something was read on a synced date, a row that was
read exists). The lemmas about rows (`MarkedSound`, `OpenedSound`, `SyncedSound`,
`ExpiredSound`) hold of any row a handler may have read, so interleavings need no
argument of their own: what protects the journal are the two unique indexes
and that no UPDATE writes `status = 'active'`. `MarksStay` needs more (`MarksOK`): of an
episode the marked row is the first closed one, and a handler holds a marked row
only, so a close never makes another row the one to keep. Under `Sequential`, as above,
`ClosedLater`, `LossesAreReal` and `ClosedTradesFrozen`: `SeqInv` says that what a handler holds
is still so - the newest data date, its offer and the open row (`HandlerOK`) - and that a trade
was opened and confirmed on data dates in their order, and lost on a date whose plan does
not offer it (`DatesOK`).

*PublicationsProofs.* `TypeCorrect`, `EntriesTold`, `ExitsTold`, `OneSignal`, for any set of
signals and prices and any number of days, failures and crashes. `IInv` is the types with
what each process holds at each of its places (`ProcsOK`); that a note for Threads repeats
what the channel was told (`NotesOK`); that what an evening has left to tell is still due,
once per signal (`UpdatesOK`); that the row a run publishes is claimed and says what the
run posts (`HeldOK`); that only a crash leaves a claimed row behind (`ClaimsOK`), two rows
of one data date (`DatesOK`), or a favorite that differs from its row (`FavoritesOK`); and that
what rows say was told (`RowsOK`). *PublicationsRefinement* proves
`FeedImplemented`: commits that publish or update a row are `KeepSignal` and `KeepReport`, messages
are `Announce`, `Report` and `Echo`, and all else stutters. The hard part is that an
evening's update is decided from rows read once, before any of its messages is sent.

*ReversalProofs.* `TypeCorrect`, `ExitsFirst`, `PositionsAlwaysApart`, `AlwaysToldOnce`, `InvHolds`,
for any coins, prices, limits and number of runs. `Inv` says of every row that it is what
one pass over all its bars would have made of it (`RowsOK`), of what a run has read that it
is an earlier state of the same trades (`SeenOK`), of the messages in hand that they
are rows of the outbox as they would be read now (`HandsOK`), that the outbox and the
channel tell events of the journal (`NotesOK`, `ChannelOK`), that what is told without being
marked is about to be marked by the one run that told it, unless in doubt
(`TellingOK`), and that what has closed lies before the watermark unless a run was overtaken
(`OrderOK`; `PositionsApart` is not inductive without it).

Every safety property of a passing run, invariant or action property, is thus the
statement of a theorem, and both refinements are.

*Only model-checked.* The five liveness properties (`OverReachesJournal`, `PaymentHonoured`,
`LostTradeCloses`, `EndIsKept`, `EventsAreTold`): they need fairness and ENABLED, which
are out of the prover's reach. The properties of the violation runs are refuted by them.

## 6. Not modelled

Modelled parts leave out what section 2 names. Of the rest, *numerics and presentation*,
*pair statistics*, *research scripts* and the *crypto v2 journal* are floating-point computations whose results
the lifecycles above take as free choices. *Health endpoints*, the *public feed*, the
*live price poller* and the *calculation audit* keep no durable state; the audit's
expectations are stated as properties of the journals it audits. *Schema migrations* run once at
start, the repairs that handlers repeat are in their modules. *Access control* only
reads. The R application, the TypeScript server and the extensions are not what
`start.sh` runs, and `.codex-testdeps`, most of the lines of the repository, are vendored
libraries (pandas, scipy and others).

## 7. Plan

Next, each with one run:

1. `Favorites`: the page's toggle (select, then insert or delete, without a unique
   index) and close (UPDATE by id over an awaited price, without a guard on status).
2. `MexcCutover`: archive, stage, validate outside the transaction, activate, roll back.
3. `MagicLink` (a link logs in once), composed with `Payments` in `Access`.
4. `ShortTermForward` (each trade closes over gaps), `MomentumPortfolio`, `TsMomentum`.
5. `PairSignals` (tables replaced with commits half way) and `DailyLoop`.

Theorems worth proving: the safety step behind the other liveness properties, as
`SnapshotsJournalAll` is for `OverReachesJournal`; first that of `LostTradeCloses` (a sync of a date
whose plan does not offer a trade closes it), then that of `EventsAreTold`.
