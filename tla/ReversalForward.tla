-------------------------- MODULE ReversalForward --------------------------
(***************************************************************************)
(* The forward test of the 5-minute reversal strategy                      *)
(* (app/core/reversal_lab.py) and its notifications                        *)
(* (app/content/reversal_notifications.py).                                *)
(*                                                                         *)
(* scripts/refresh_reversal_forward.py is started from outside, again and  *)
(* again.  A run advances the journal of trades over the candles it has    *)
(* not seen and queues what happened in an outbox, in one transaction;     *)
(* then it sends what the outbox holds.  A run that takes longer than the  *)
(* interval of its scheduler meets the next one.                           *)
(***************************************************************************)
EXTENDS Integers, Sequences, FiniteSets, FiniteSetsExt, Functions

CONSTANTS
    Workers,        \* processes that run the script
    Tickers,        \* the traded coins
    Prices,         \* closes, in steps of the return that decides an exit
    NoPrice,        \* the exchange has no candle of the coin for a bar
    Target, Stop,   \* TARGET_PCT, STOP_PCT
    MaxHoldBars,    \* MAX_HOLD_BARS
    BatchLimit,     \* LIMIT of the dispatch
    MaxAttempts,    \* attempts after which an event is given up
    MaxBar,         \* bound: bars
    MaxTroubles     \* bound: calls that fail, runs that die and runs that meet another one

ASSUME ReversalAssumption ==
    /\ IsFiniteSet(Tickers)
    /\ Prices \subseteq Int /\ NoPrice \notin Prices
    /\ Target \in Nat \ {0} /\ Stop \in Nat \ {0} /\ MaxHoldBars \in Nat \ {0}
    /\ BatchLimit \in Nat \ {0} /\ MaxAttempts \in Nat \ {0}
    /\ MaxBar \in Nat /\ MaxTroubles \in Nat

VARIABLES
    btc,             \* the newest BTC candle in reversal_candles, or 0
    candles,         \* the closes of each coin in reversal_candles, bar by bar
    watermark,       \* last_confirmation_time, or 0 without a row of state
    trades,          \* reversal_forward_trades, by id
    outbox,          \* reversal_forward_notifications, by id
    channel,         \* what Telegram has shown
    proc,            \* what each process is doing
    troubles,
    doubted,         \* events whose delivery a run could not be sure of
    overtaken        \* a run has written what it decided before another run wrote

vars == <<btc, candles, watermark, trades, outbox, channel, proc, troubles,
          doubted, overtaken>>

market == <<btc, candles>>

Bars == 1..MaxBar

-----------------------------------------------------------------------------
(* Values *)

Trade == [ticker: Tickers, direction: {"long", "short"},
          shock: Bars, entry: Bars, price: Prices,   \* shock_time, entry_time, entry_price
          status: {"active", "closed"},
          evaluated: Bars, held: 0..MaxHoldBars,     \* last_evaluated_time, bars_held
          exit: Bars \cup {0}, exitPrice: Prices \cup {NoPrice},
          reason: {"none", "target", "stop", "time"}]

Event == [trade: Nat, kind: {"opened", "closed"}]

Note == [event: Event, status: {"pending", "sent", "failed"}, attempts: Nat]

\* A message of the outbox, with the price it tells.
Message == [event: Event, price: Prices]

\* What a run has read and where it is; batch: what it still has to send.
Proc == [at: {"idle", "state", "trades", "write", "select", "send", "record"},
         latest: 0..MaxBar, mark: 0..MaxBar, seen: Seq(Trade),
         batch: SUBSET [id: Nat, message: Message], outcome: {"none", "sent", "failed"}]

Idle == [at |-> "idle", latest |-> 0, mark |-> 0, seen |-> <<>>, batch |-> {}, outcome |-> "none"]

Active(trade) == trade.status = "active"

Trouble == troubles < MaxTroubles /\ troubles' = troubles + 1

At(w, place) == proc[w].at = place
GoTo(w, place) == proc' = [proc EXCEPT ![w] = [Idle EXCEPT !.at = place]]

-----------------------------------------------------------------------------
(* Candles: this run, another one, a backtest or the short-term lab stores   *)
(* them, coin by coin; a coin whose call fails stays behind.                 *)

CollectBtc ==
    /\ btc < MaxBar
    /\ btc' = btc + 1
    /\ UNCHANGED <<candles, watermark, trades, outbox, channel, proc, troubles,
                   doubted, overtaken>>

\* The next bar or a gap, for good: that the code may overwrite or fill in earlier bars is
\* left out.
Collect(t) ==
    /\ Len(candles[t]) < MaxBar
    /\ \E close \in Prices \cup {NoPrice} : candles' = [candles EXCEPT ![t] = Append(@, close)]
    /\ UNCHANGED <<btc, watermark, trades, outbox, channel, proc, troubles,
                   doubted, overtaken>>

\* The stored bars of a coin after one bar and up to another.
Stored(t, after, upto) ==
    {b \in after + 1..upto : b <= Len(candles[t]) /\ candles[t][b] # NoPrice}

-----------------------------------------------------------------------------
(* The evaluation of a trade *)

\* _directional_return_pct, counted in steps of the price.
Gain(trade, price) ==
    IF trade.direction = "long" THEN price - trade.price ELSE trade.price - price

Reason(gain, held) ==
    IF gain >= Target THEN "target"
    ELSE IF gain <= -Stop THEN "stop"
    ELSE IF held >= MaxHoldBars THEN "time" ELSE "none"

\* Mutant: only the bars of this pass are counted.
HeldInPass(trade, b) == Cardinality(Stored(trade.ticker, trade.evaluated, b))

\* Mutant: every pass counts the bars from the entry on.
HeldTwice(trade, b) == trade.held + Cardinality(Stored(trade.ticker, trade.entry, b))

\* bars_held when the loop is at bar b.
HeldAt(trade, b) == trade.held + Cardinality(Stored(trade.ticker, trade.evaluated, b))

ReasonAt(trade, b) == Reason(Gain(trade, candles[trade.ticker][b]), HeldAt(trade, b))

Exits(trade, latest) ==
    {b \in Stored(trade.ticker, trade.evaluated, latest) : ReasonAt(trade, b) # "none"}

EvaluatedTo(trade, b) == [trade EXCEPT !.evaluated = b, !.held = HeldAt(trade, b)]

ClosedAt(trade, b) ==
    [EvaluatedTo(trade, b) EXCEPT !.status = "closed", !.exit = b,
        !.exitPrice = candles[trade.ticker][b], !.reason = ReasonAt(trade, b)]

\* The UPDATEs of a row that is active still, computed from the row as it was read.
Advanced(row, read, latest) ==
    LET bars == Stored(read.ticker, read.evaluated, latest)
        exits == Exits(read, latest)
    IN IF ~Active(row) \/ bars = {} THEN row
       ELSE IF exits # {} THEN ClosedAt(read, Min(exits))
       ELSE EvaluatedTo(read, Max(bars))

-----------------------------------------------------------------------------
(* The journal: process_reversal_forward *)

Starts(w) ==
    /\ At(w, "idle")
    /\ IF \A v \in Workers : At(v, "idle") THEN UNCHANGED troubles ELSE Trouble

\* Not advanced: a backtest is running, the candles are stale or the exchange does not answer.
Skip(w) ==
    /\ Starts(w)
    /\ GoTo(w, "select")
    /\ UNCHANGED <<market, watermark, trades, outbox, channel, doubted, overtaken>>

\* The newest bar, the state and the trades are read one by one, before the transaction.
Read(w) ==
    /\ Starts(w)
    /\ btc > 0
    /\ proc' = [proc EXCEPT ![w] = [Idle EXCEPT !.at = "state", !.latest = btc]]
    /\ UNCHANGED <<market, watermark, trades, outbox, channel, doubted, overtaken>>

ReadState(w) ==
    /\ At(w, "state")
    /\ proc' = [proc EXCEPT ![w].at = "trades", ![w].mark = watermark]
    /\ UNCHANGED <<market, watermark, trades, outbox, channel, troubles, doubted, overtaken>>

\* The first run only stores where the test starts; a second one fails on the primary key.
Initialize(w) ==
    /\ At(w, "trades") /\ proc[w].mark = 0
    /\ watermark' = IF watermark = 0 THEN proc[w].latest ELSE watermark
    /\ GoTo(w, "select")
    /\ UNCHANGED <<market, trades, outbox, channel, troubles, doubted, overtaken>>

ReadTrades(w) ==
    /\ At(w, "trades") /\ proc[w].mark > 0
    /\ proc' = [proc EXCEPT ![w].at = "write", ![w].seen = trades]
    /\ UNCHANGED <<market, watermark, trades, outbox, channel, troubles, doubted, overtaken>>

\* A trade that a signal of the newest bar opens; the shock is the stored bar before it.
NewTrade(t, latest) ==
    LET shock == Max(Stored(t, 0, latest - 1))
        price == candles[t][latest]
    IN [ticker |-> t, direction |-> IF price > candles[t][shock] THEN "long" ELSE "short",
        shock |-> shock, entry |-> latest, price |-> price, status |-> "active",
        evaluated |-> latest, held |-> 0, exit |-> 0, exitPrice |-> NoPrice, reason |-> "none"]

\* Coins that may have a signal at the newest bar: whether the shock was one is left open.
Signalled(latest) ==
    {t \in Tickers :
        LET before == Stored(t, 0, latest - 1)
        IN /\ latest \in Stored(t, latest - 1, latest) /\ before # {}
           /\ candles[t][latest] # candles[t][Max(before)]}

\* Mutant: a coin whose trade closes in this pass is opened again.
OpenableAtOnce(rows, closing, t, latest) ==
    \A i \in DOMAIN rows : rows[i].ticker = t =>
        ~Active(rows[i]) /\ rows[i].shock # Max(Stored(t, 0, latest - 1))

\* Not active, not closed by this pass, and new to UNIQUE (ticker, shock_time, direction).
Openable(rows, closing, t, latest) ==
    \A i \in DOMAIN rows : rows[i].ticker = t =>
        /\ ~Active(rows[i]) /\ i \notin closing
        /\ rows[i].shock # Max(Stored(t, 0, latest - 1))

Enumerations(S) == {f \in [1..Cardinality(S) -> S] : IsInjective(f)}

Queued(events) ==
    \E order \in Enumerations({e \in events : \A n \in DOMAIN outbox : outbox[n].event # e}) :
        outbox' = outbox \o [n \in DOMAIN order |->
                                [event |-> order[n], status |-> "pending", attempts |-> 0]]

\* One transaction; the order of several coins is left open.  (If no active trade has a new
\* bar, the SELECT of the active tickers is still before it; only a run that is overtaken in
\* between can tell.)
Advance(w) ==
    /\ At(w, "write")
    /\ LET latest == proc[w].latest
           seen == proc[w].seen
           open == {i \in DOMAIN seen : Active(seen[i])}
           closing == {i \in open : Exits(seen[i], latest) # {}}
           rows == [i \in DOMAIN trades |->
                       IF i \in open THEN Advanced(trades[i], seen[i], latest) ELSE trades[i]]
           fresh == latest > proc[w].mark
       IN \E signals \in SUBSET (IF fresh THEN Signalled(latest) ELSE {}) :
          \E new \in Enumerations({NewTrade(t, latest) :
                        t \in {s \in signals : Openable(rows, closing, s, latest)}}) :
             LET ids == Len(rows) + 1..Len(rows) + Len(new)
             IN /\ trades' = rows \o new
                /\ Queued({[trade |-> i, kind |-> "closed"] : i \in closing}
                          \cup {[trade |-> i, kind |-> "opened"] : i \in ids})
                /\ watermark' = IF fresh THEN latest ELSE watermark
    /\ overtaken' = (overtaken \/ proc[w].seen # trades \/ proc[w].mark # watermark)
    /\ GoTo(w, "select")
    /\ UNCHANGED <<market, channel, troubles, doubted>>

-----------------------------------------------------------------------------
(* The outbox: dispatch_reversal_notifications *)

\* Mutant: what was sent is selected again.
WaitingAlways(n) == outbox[n].attempts < MaxAttempts

\* Mutant: what has failed is not selected again.
WaitingPending(n) == outbox[n].status = "pending" /\ outbox[n].attempts < MaxAttempts

Waiting(n) == outbox[n].status \in {"pending", "failed"} /\ outbox[n].attempts < MaxAttempts

\* The oldest of them, BatchLimit at most.
Batch == {n \in DOMAIN outbox :
             Waiting(n) /\ Cardinality({k \in 1..n - 1 : Waiting(k)}) < BatchLimit}

MessageOf(n) ==
    LET event == outbox[n].event
        trade == trades[event.trade]
    IN [event |-> event, price |-> IF event.kind = "opened" THEN trade.price ELSE trade.exitPrice]

\* The run ends with its last message.
Continue(w, batch) ==
    proc' = [proc EXCEPT ![w] = IF batch = {} THEN Idle
                                ELSE [Idle EXCEPT !.at = "send", !.batch = batch]]

\* The rows are read with their trades; another run may have them in hand as well.
Select(w) ==
    /\ At(w, "select")
    /\ LET batch == {[id |-> n, message |-> MessageOf(n)] : n \in Batch}
       IN /\ Continue(w, batch)
          /\ doubted' = doubted \cup {m.message.event : m \in
                batch \cap UNION {proc[v].batch : v \in Workers \ {w}}}
    /\ UNCHANGED <<market, watermark, trades, outbox, channel, troubles, overtaken>>

First(w, m) == m \in proc[w].batch /\ \A other \in proc[w].batch : m.id <= other.id

\* The call fails: not shown, or shown and the answer lost.
Send(w) ==
    /\ At(w, "send")
    /\ \E m \in proc[w].batch :
          /\ First(w, m)
          /\ \/ /\ channel' = Append(channel, m.message)
                /\ proc' = [proc EXCEPT ![w].at = "record", ![w].outcome = "sent"]
                /\ UNCHANGED <<troubles, doubted>>
             \/ /\ Trouble
                /\ proc' = [proc EXCEPT ![w].at = "record", ![w].outcome = "failed"]
                /\ \/ UNCHANGED <<channel, doubted>>
                   \/ /\ channel' = Append(channel, m.message)
                      /\ doubted' = doubted \cup {m.message.event}
    /\ UNCHANGED <<market, watermark, trades, outbox, overtaken>>

Recorded(note, outcome) ==
    IF note.status = "sent" THEN note
    ELSE [note EXCEPT !.status = outcome, !.attempts = @ + 1]

Record(w) ==
    /\ At(w, "record")
    /\ \E m \in proc[w].batch :
          /\ First(w, m)
          /\ outbox' = [outbox EXCEPT ![m.id] = Recorded(@, proc[w].outcome)]
          /\ Continue(w, proc[w].batch \ {m})
    /\ UNCHANGED <<market, watermark, trades, channel, troubles, doubted, overtaken>>

-----------------------------------------------------------------------------
(* A run dies *)

Crash(w) ==
    /\ ~At(w, "idle") /\ Trouble
    /\ doubted' = doubted \cup (IF At(w, "record")
                                THEN {m.message.event : m \in {b \in proc[w].batch : First(w, b)}}
                                ELSE {})
    /\ GoTo(w, "idle")
    /\ UNCHANGED <<market, watermark, trades, outbox, channel, overtaken>>

-----------------------------------------------------------------------------
(* The specification *)

Init ==
    /\ btc = 0 /\ candles = [t \in Tickers |-> <<>>]
    /\ watermark = 0 /\ trades = <<>> /\ outbox = <<>> /\ channel = <<>>
    /\ proc = [w \in Workers |-> Idle]
    /\ troubles = 0 /\ doubted = {} /\ overtaken = FALSE

Step(w) ==
    \/ Skip(w) \/ Read(w) \/ ReadState(w) \/ Initialize(w) \/ ReadTrades(w) \/ Advance(w)
    \/ Select(w) \/ Send(w) \/ Record(w)

Next ==
    \/ CollectBtc \/ \E t \in Tickers : Collect(t)
    \/ \E w \in Workers : Step(w) \/ Crash(w)

Spec == Init /\ [][Next]_vars

\* The script is started again and again, and a run goes on until it ends or dies.
FairSpec == Spec /\ \A w \in Workers : WF_vars(Step(w))

-----------------------------------------------------------------------------
(* Properties *)

TypeOK ==
    /\ btc \in 0..MaxBar /\ watermark \in 0..MaxBar
    /\ candles \in [Tickers -> Seq(Prices \cup {NoPrice})]
    /\ \A t \in Tickers : Len(candles[t]) <= MaxBar
    /\ trades \in Seq(Trade) /\ outbox \in Seq(Note) /\ channel \in Seq(Message)
    /\ proc \in [Workers -> Proc]
    /\ troubles \in 0..MaxTroubles
    /\ doubted \subseteq Event /\ overtaken \in BOOLEAN

\* What a trade has come to at a stored bar, from its entry on and in one go.
Outcome(trade, b) ==
    Reason(Gain(trade, candles[trade.ticker][b]),
           Cardinality(Stored(trade.ticker, trade.entry, b)))

\* "Point-in-time": however the passes cut the candles and whichever runs overlap, a trade is
\* closed at the first bar after its entry that ends it, at the close of that bar and for its
\* reason; and what an open trade has passed has not ended it.
ExitIsFirst ==
    \A i \in DOMAIN trades :
        LET trade == trades[i]
            ended == {b \in Stored(trade.ticker, trade.entry, trade.evaluated) :
                         Outcome(trade, b) # "none"}
        IN /\ trade.held = Cardinality(Stored(trade.ticker, trade.entry, trade.evaluated))
           /\ IF Active(trade) THEN ended = {}
              ELSE /\ ended = {trade.exit} /\ trade.evaluated = trade.exit
                   /\ trade.exitPrice = candles[trade.ticker][trade.exit]
                   /\ trade.reason = Outcome(trade, trade.exit)

\* The positions of a coin follow one another, as long as no run writes what it decided
\* before another run wrote.
PositionsApart ==
    ~overtaken =>
        \A j \in DOMAIN trades : \A i \in 1..j - 1 :
            trades[i].ticker = trades[j].ticker =>
                ~Active(trades[i]) /\ trades[i].exit < trades[j].entry

Told(event) == {n \in DOMAIN channel : channel[n].event = event}

\* "Deliver pending journal events once": what is marked as sent was told, twice only if a
\* lost answer, a run that died or another run with the same batch left it in doubt; and what
\* the channel was told is what the journal says.
ToldOnce ==
    /\ \A n \in DOMAIN outbox :
          /\ outbox[n].status = "sent" => Told(outbox[n].event) # {}
          /\ Cardinality(Told(outbox[n].event)) > 1 => outbox[n].event \in doubted
    /\ \A n \in DOMAIN channel :
          LET trade == trades[channel[n].event.trade]
          IN IF channel[n].event.kind = "opened" THEN channel[n].price = trade.price
             ELSE ~Active(trade) /\ channel[n].price = trade.exitPrice

Happened ==
    {[trade |-> i, kind |-> "opened"] : i \in DOMAIN trades}
    \cup {[trade |-> i, kind |-> "closed"] : i \in {j \in DOMAIN trades : ~Active(trades[j])}}

GivenUp(event) ==
    \E n \in DOMAIN outbox : outbox[n].event = event /\ outbox[n].attempts >= MaxAttempts

\* "Failed events remain retryable": when the candles have ended, every opening and closing
\* has been told, or its attempts are used up.
EventsAreTold ==
    <>[](\A event \in Happened : Told(event) # {} \/ GivenUp(event))
=============================================================================
