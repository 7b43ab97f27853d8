--------------------------- MODULE Publications ---------------------------
(***************************************************************************)
(* The content automation (app/content/automation.py): scanner signals     *)
(* published in a Telegram channel, mirrored to Threads and followed by a  *)
(* favorite of the bot.                                                    *)
(*                                                                         *)
(* The loop of start.sh runs the script again and again, one run at a      *)
(* time: "main" publishes the signal of the day, "updates" reports on the  *)
(* published ones.  After a start of the container a "backfill" run sends  *)
(* what Threads misses, next to the loop.  A step below is what a run does *)
(* between two points where another process can come in: a commit, or a    *)
(* call to Telegram, Threads or the price service.                         *)
(***************************************************************************)
EXTENDS Integers, Sequences, FiniteSets, FiniteSetsExt, Functions

CONSTANTS
    Signals,        \* scanner periods: scanner, ticker, direction, first_seen_date
    TickerOf,       \* the ticker of each signal
    Quotes,         \* prices
    NoQuote,        \* the live price service did not answer
    NoSignal,
    RepeatDays,     \* content_repeat_ticker_days
    UpdateLimit,    \* content_update_publish_limit
    MaxDay,         \* bound: the last data date
    MaxFaults,      \* bound: calls of Telegram or Threads that fail
    MaxCrashes      \* bound: times the container dies

ASSUME PublicationsAssumption ==
    /\ NoQuote \notin Quotes /\ NoSignal \notin Signals
    /\ DOMAIN TickerOf = Signals
    /\ RepeatDays \in Nat /\ UpdateLimit \in Nat \ {0}
    /\ MaxDay \in Nat \ {0} /\ MaxFaults \in Nat /\ MaxCrashes \in Nat

VARIABLES
    day,             \* the newest data date in prices
    period,          \* scanner_signal_periods, as _active_period_exists sees them
    rows,            \* content_publications, UNIQUE by signal
    favorites,       \* the favorites of the bot
    channel,         \* what Telegram has shown of each signal, in order
    threads,         \* what Threads has shown of each signal
    proc,            \* what each process is doing
    started,         \* the backfill of this container has started
    faults, crashes,
    interrupted      \* signals whose publishing a crash has cut short

vars == <<day, period, rows, favorites, channel, threads, proc, started,
          faults, crashes, interrupted>>

Workers == {"loop", "backfill"}
Days == 1..MaxDay

-----------------------------------------------------------------------------
(* Values *)

Kinds == {"signal", "live", "ended"}

Message == [kind: Kinds, date: Days, price: Quotes]

\* Of what Threads shows, the price is left out.
Dated(m) == [kind |-> m.kind, date |-> m.date]

Row == [status: {"draft", "publishing", "active", "closed"},
        date: Days,                \* data_date
        entry: Quotes,             \* entry_price
        message: Nat,              \* telegram_message_id: a place in channel
        update: Days \cup {0},     \* last_update_data_date
        card: {0, 1},              \* threads_post_id is set
        mirrored: Days \cup {0}]   \* threads_last_update_data_date

NoRow == [status |-> "absent"]

\* Mutant: a draft without its data date.
DraftUndated(d, p) == [status |-> "draft", date |-> 0, entry |-> p, message |-> 0,
                       update |-> 0, card |-> 0, mirrored |-> 0]

Draft(d, p) == [status |-> "draft", date |-> d, entry |-> p, message |-> 0,
                update |-> 0, card |-> 0, mirrored |-> 0]

NoFavorite == [status |-> "absent"]
Opened(p) == [status |-> "active", entry |-> p]
ClosedAt(f, p) == [status |-> "closed", entry |-> f.entry, exit |-> p]

Favorite == [status: {"active"}, entry: Quotes]
            \cup [status: {"closed"}, entry: Quotes, exit: Quotes]

\* A message for Telegram, with the date its row had reached and whether Threads has the row.
Post == [signal: Signals, kind: Kinds, date: Days, price: Quotes, reached: Days, card: {0, 1}]

\* A message that only Threads misses.
Note == [signal: Signals, kind: Kinds, date: Days]

SignalPost(s, d, p) ==
    [signal |-> s, kind |-> "signal", date |-> d, price |-> p, reached |-> d, card |-> 0]

MessageOf(post) == [kind |-> post.kind, date |-> post.date, price |-> post.price]

NoPost == [signal |-> NoSignal]

Idle == [at |-> "idle", mode |-> "none", day |-> 0, post |-> NoPost, todo |-> {},
         left |-> 0, message |-> 0, delivered |-> 0]

Proc == [at: {"idle", "card", "saveCard", "replies", "reply", "saveReply", "work",
              "favorite", "insert", "claim", "refresh", "send", "sendCard", "record",
              "tell", "echo", "keep"},
         mode: {"none", "main", "updates", "backfill"},
         day: Days \cup {0},                 \* the data date the run has loaded
         post: Post \cup Note \cup {NoPost}, \* the message in hand
         todo: SUBSET (Post \cup Note),      \* the messages to send after it
         left: 0..UpdateLimit,               \* updates the run may still publish
         message: Nat,                       \* what Telegram answered
         delivered: {0, 1}]                  \* Threads has taken the message

Exists(s) == rows[s].status # "absent"
Published(s) == rows[s].status \in {"active", "closed"}
Reached(row) == IF row.update = 0 THEN row.date ELSE row.update

At(w, place) == proc[w].at = place

GoTo(w, place) == proc' = [proc EXCEPT ![w].at = place]
Finish(w) == proc' = [proc EXCEPT ![w] = Idle]

AppendTo(s, m) == channel' = [channel EXCEPT ![s] = Append(@, m)]
Shown(post) == threads' = [threads EXCEPT ![post.signal] = @ \cup {Dated(post)}]

Mirror(post) == Shown(post) /\ UNCHANGED faults

Fault == faults < MaxFaults /\ faults' = faults + 1

\* All attempts of a Threads call fail; one of them may have shown the post.
ThreadsFails(post) == Fault /\ (Shown(post) \/ UNCHANGED threads)

-----------------------------------------------------------------------------
(* The environment: prices and scanners *)

NewDay ==
    /\ day < MaxDay
    /\ day' = day + 1
    /\ UNCHANGED <<period, rows, favorites, channel, threads, proc, started,
                   faults, crashes, interrupted>>

\* A period opens, and later closes or outlives its horizon; neither is undone (the repair
\* of false exits, which only concerns rows of an old version, is left to ScannerPeriods).
Observe(s) ==
    /\ period[s] # "over"
    /\ period' = [period EXCEPT ![s] = IF @ = "unseen" THEN "live" ELSE "over"]
    /\ UNCHANGED <<day, rows, favorites, channel, threads, proc, started,
                   faults, crashes, interrupted>>

-----------------------------------------------------------------------------
(* The start of a run: the schema, then what Threads misses *)

\* Rows in publishing that no run is working on.
Abandoned == {s \in Signals :
                 /\ rows[s].status = "publishing"
                 /\ \A w \in Workers : proc[w].post.signal # s}

\* Of those, the rows older than 30 minutes become drafts again; the claim of a live run is
\* taken to be younger.
Start(w, mode) ==
    /\ At(w, "idle")
    /\ IF w = "loop" THEN mode \in {"main", "updates"} ELSE mode = "backfill" /\ ~started
    /\ started' = (started \/ w = "backfill")
    /\ \E old \in SUBSET Abandoned :
          rows' = [s \in Signals |-> IF s \in old THEN [rows[s] EXCEPT !.status = "draft"]
                                     ELSE rows[s]]
    /\ proc' = [proc EXCEPT ![w] = [Idle EXCEPT !.at = "card", !.mode = mode, !.day = day]]
    /\ UNCHANGED <<day, period, favorites, channel, threads, faults, crashes, interrupted>>

\* _backfill_latest_threads_post; which of several rows is the latest is left open.
SendCard(w) ==
    /\ At(w, "card")
    /\ LET missing == {s \in Signals : rows[s].status = "active" /\ rows[s].card = 0}
       IN \/ \E s \in missing :
                LET note == [signal |-> s, kind |-> "signal", date |-> rows[s].date]
                IN \/ /\ Mirror(note)
                      /\ proc' = [proc EXCEPT ![w].at = "saveCard", ![w].post = note]
                   \/ ThreadsFails(note) /\ GoTo(w, "replies")
          \/ missing = {} /\ GoTo(w, "replies") /\ UNCHANGED <<threads, faults>>
    /\ UNCHANGED <<day, period, rows, favorites, channel, started, crashes, interrupted>>

SaveCard(w) ==
    /\ At(w, "saveCard")
    /\ rows' = [rows EXCEPT ![proc[w].post.signal].card = 1]
    /\ proc' = [proc EXCEPT ![w].at = "replies", ![w].post = NoPost]
    /\ UNCHANGED <<day, period, favorites, channel, threads, started, faults, crashes,
                   interrupted>>

Unmirrored == {s \in Signals :
                  /\ Published(s) /\ rows[s].card = 1 /\ rows[s].update # 0
                  /\ rows[s].mirrored # rows[s].update}

\* The update as the row tells it now.
LastUpdate(s, row) ==
    [signal |-> s, kind |-> IF row.status = "closed" THEN "ended" ELSE "live",
     date |-> row.update]

\* _backfill_threads_updates: the rows are read at once, three at most.
ReadReplies(w) ==
    /\ At(w, "replies")
    /\ \E chosen \in kSubset(Min({3, Cardinality(Unmirrored)}), Unmirrored) :
          proc' = [proc EXCEPT ![w].at = "reply",
                               ![w].todo = {LastUpdate(s, rows[s]) : s \in chosen}]
    /\ UNCHANGED <<day, period, rows, favorites, channel, threads, started, faults, crashes,
                   interrupted>>

SendReply(w) ==
    /\ At(w, "reply")
    /\ \/ \E note \in proc[w].todo :
             \/ /\ Mirror(note)
                /\ proc' = [proc EXCEPT ![w].at = "saveReply", ![w].post = note,
                                        ![w].todo = @ \ {note}]
             \/ ThreadsFails(note) /\ proc' = [proc EXCEPT ![w].todo = @ \ {note}]
       \/ /\ proc[w].todo = {}
          /\ IF proc[w].mode = "backfill" THEN Finish(w) ELSE GoTo(w, "work")
          /\ UNCHANGED <<threads, faults>>
    /\ UNCHANGED <<day, period, rows, favorites, channel, started, crashes, interrupted>>

SaveReply(w) ==
    /\ At(w, "saveReply")
    /\ rows' = [rows EXCEPT ![proc[w].post.signal].mirrored = proc[w].post.date]
    /\ proc' = [proc EXCEPT ![w].at = "reply", ![w].post = NoPost]
    /\ UNCHANGED <<day, period, favorites, channel, threads, started, faults, crashes,
                   interrupted>>

-----------------------------------------------------------------------------
(* updates: _update_active_publications *)

\* Mutant: the date of the last update is not looked at.
DueAgain(s, d) == rows[s].status = "active" /\ d > rows[s].date

\* Of rows whose ticker has prices: others are skipped.
Due(s, d) == rows[s].status = "active" /\ d > rows[s].date /\ d > rows[s].update

\* The rows and their periods are read before the first update is sent.
ReadRows(w) ==
    /\ At(w, "work") /\ proc[w].mode = "updates"
    /\ LET d == proc[w].day
           due == {s \in Signals : Due(s, d)}
       IN \E price \in [due -> Quotes] :
             proc' = [proc EXCEPT ![w].at = "tell", ![w].left = UpdateLimit,
                ![w].todo = {[signal |-> s, kind |-> IF period[s] = "live" THEN "live" ELSE "ended",
                              date |-> d, price |-> price[s], reached |-> Reached(rows[s]),
                              card |-> rows[s].card] : s \in due}]
    /\ UNCHANGED <<day, period, rows, favorites, channel, threads, started, faults, crashes,
                   interrupted>>

\* The sort key: the longest unreported first, then the ended ones.
Before(a, b) ==
    \/ a.reached < b.reached
    \/ a.reached = b.reached /\ a.kind = "ended" /\ b.kind = "live"

First(w, post) == post \in proc[w].todo /\ \A other \in proc[w].todo : ~Before(other, post)

\* A call of Telegram fails, or its answer is lost: the exception ends the run.
SendFails(s, m) == Fault /\ (AppendTo(s, m) \/ UNCHANGED channel)

Tell(w) ==
    /\ At(w, "tell") /\ proc[w].left > 0
    /\ \E post \in proc[w].todo :
          /\ First(w, post)
          /\ \/ /\ AppendTo(post.signal, MessageOf(post))
                /\ proc' = [proc EXCEPT ![w].at = "echo", ![w].post = post,
                                        ![w].todo = @ \ {post}, ![w].left = @ - 1]
                /\ UNCHANGED faults
             \/ SendFails(post.signal, MessageOf(post)) /\ Finish(w)
    /\ UNCHANGED <<day, period, rows, favorites, threads, started, crashes, interrupted>>

\* Mutant: the updates over the limit are given up for the day.
ToldOrDropped(w) ==
    /\ At(w, "tell")
    /\ proc[w].todo = {} \/ proc[w].left = 0
    /\ rows' = [s \in Signals |-> IF \E post \in proc[w].todo : post.signal = s
                                 THEN [rows[s] EXCEPT !.update = proc[w].day] ELSE rows[s]]
    /\ Finish(w)
    /\ UNCHANGED <<day, period, favorites, channel, threads, started, faults, crashes,
                   interrupted>>

\* The updates over the limit wait for the next run: their rows keep status and dates.
Told(w) ==
    /\ At(w, "tell")
    /\ proc[w].todo = {} \/ proc[w].left = 0
    /\ Finish(w)
    /\ UNCHANGED <<day, period, rows, favorites, channel, threads, started, faults, crashes,
                   interrupted>>

\* The Threads reply, if the row had a Threads post; a failure is swallowed.
EchoUpdate(w) ==
    /\ At(w, "echo")
    /\ LET post == proc[w].post
       IN \/ /\ post.card = 1
             /\ Mirror(post)
             /\ proc' = [proc EXCEPT ![w].at = "keep", ![w].delivered = 1]
          \/ post.card = 1 /\ ThreadsFails(post) /\ GoTo(w, "keep")
          \/ post.card = 0 /\ GoTo(w, "keep") /\ UNCHANGED <<threads, faults>>
    /\ UNCHANGED <<day, period, rows, favorites, channel, started, crashes, interrupted>>

Reported(row, post, delivered) ==
    [row EXCEPT !.update = post.date,
                !.status = IF post.kind = "ended" THEN "closed" ELSE "active",
                !.mirrored = IF delivered = 1 THEN post.date ELSE @]

\* Mutant: the favorite is closed at the price it was opened at.
FavoriteClosedAtEntry(f, p) == IF f.status = "active" THEN ClosedAt(f, f.entry) ELSE f

\* _close_favorite
FavoriteClosed(f, p) == IF f.status = "active" THEN ClosedAt(f, p) ELSE f

\* The UPDATE by id, the close of the favorite and the commit.
KeepUpdate(w) ==
    /\ At(w, "keep")
    /\ LET post == proc[w].post
           s == post.signal
       IN /\ rows' = [rows EXCEPT ![s] = Reported(@, post, proc[w].delivered)]
          /\ favorites' = IF post.kind = "ended"
                          THEN [favorites EXCEPT ![s] = FavoriteClosed(@, post.price)]
                          ELSE favorites
    /\ proc' = [proc EXCEPT ![w].at = "tell", ![w].post = NoPost, ![w].delivered = 0]
    /\ UNCHANGED <<day, period, channel, threads, started, faults, crashes, interrupted>>

-----------------------------------------------------------------------------
(* main: the oldest draft, or the signal of the day *)

Drafts == {s \in Signals : rows[s].status = "draft"}

\* By id: of several drafts of one date the choice is left open.
OldestDraft(s) == s \in Drafts /\ \A t \in Drafts : rows[s].date <= rows[t].date

Claimed(s) == [rows EXCEPT ![s].status = "publishing"]

ClaimOldest(w) ==
    /\ At(w, "work") /\ proc[w].mode = "main"
    /\ \E s \in Signals :
          /\ OldestDraft(s)
          /\ rows' = Claimed(s)
          /\ proc' = [proc EXCEPT ![w].at = "refresh",
                                  ![w].post = SignalPost(s, rows[s].date, rows[s].entry)]
    /\ UNCHANGED <<day, period, favorites, channel, threads, started, faults, crashes,
                   interrupted>>

AlreadyPublished(d) == \E s \in Signals : Published(s) /\ rows[s].date = d

\* Some publication of the ticker, in whatever state, is too recent.
Recent(s, d) ==
    \E t \in Signals : /\ TickerOf[t] = TickerOf[s] /\ Exists(t)
                       /\ rows[t].date >= d - RepeatDays

\* The candidate and its last close; confidence and rank are left open, so there may be none.
SelectCandidate(w) ==
    /\ At(w, "work") /\ proc[w].mode = "main"
    /\ Drafts = {}
    /\ LET d == proc[w].day
       IN \/ /\ ~AlreadyPublished(d)
             /\ \E s \in Signals, p \in Quotes :
                   /\ period[s] = "live" /\ ~Recent(s, d)
                   /\ proc' = [proc EXCEPT ![w].at = "favorite",
                                           ![w].post = SignalPost(s, d, p)]
          \/ Finish(w)
    /\ UNCHANGED <<day, period, rows, favorites, channel, threads, started, faults, crashes,
                   interrupted>>

MakeFavorite(w) ==
    /\ At(w, "favorite")
    /\ LET post == proc[w].post
       IN favorites' = [favorites EXCEPT ![post.signal] =
                           IF @.status = "absent" THEN Opened(post.price) ELSE @]
    /\ GoTo(w, "insert")
    /\ UNCHANGED <<day, period, rows, channel, threads, started, faults, crashes, interrupted>>

\* INSERT OR IGNORE
InsertDraft(w) ==
    /\ At(w, "insert")
    /\ LET post == proc[w].post
       IN rows' = IF Exists(post.signal) THEN rows
                  ELSE [rows EXCEPT ![post.signal] = Draft(post.date, post.price)]
    /\ GoTo(w, "claim")
    /\ UNCHANGED <<day, period, favorites, channel, threads, started, faults, crashes,
                   interrupted>>

Claim(w) ==
    /\ At(w, "claim")
    /\ LET s == proc[w].post.signal
       IN IF rows[s].status = "draft" THEN rows' = Claimed(s) /\ GoTo(w, "refresh")
          ELSE Finish(w) /\ UNCHANGED rows
    /\ UNCHANGED <<day, period, favorites, channel, threads, started, faults, crashes,
                   interrupted>>

\* The live quote, if there is one, becomes the entry of the publication and of the favorite.
Refreshed(row, q) ==
    IF q # NoQuote /\ row.status = "publishing" THEN [row EXCEPT !.entry = q] ELSE row

\* Mutant: the favorite keeps the last close.
AnchoredNever(f, q) == f

Anchored(f, q) == IF q # NoQuote /\ f.status = "active" THEN Opened(q) ELSE f

Refresh(w) ==
    /\ At(w, "refresh")
    /\ LET s == proc[w].post.signal
       IN \E q \in Quotes \cup {NoQuote} :
             LET row == Refreshed(rows[s], q)
             IN /\ rows' = [rows EXCEPT ![s] = row]
                /\ favorites' = [favorites EXCEPT ![s] = Anchored(@, q)]
                /\ proc' = [proc EXCEPT ![w].at = "send",
                                        ![w].post = SignalPost(s, row.date, row.entry)]
    /\ UNCHANGED <<day, period, channel, threads, started, faults, crashes, interrupted>>

\* Mutant: a failure leaves the row claimed.
ReturnedNever(row) == row

\* After a failure the row is a draft again.
Returned(row) == IF row.status = "publishing" THEN [row EXCEPT !.status = "draft"] ELSE row

Send(w) ==
    /\ At(w, "send")
    /\ LET s == proc[w].post.signal
           m == MessageOf(proc[w].post)
       IN \/ /\ AppendTo(s, m)
             /\ proc' = [proc EXCEPT ![w].at = "sendCard", ![w].message = Len(channel[s]) + 1]
             /\ UNCHANGED <<rows, faults>>
          \/ /\ SendFails(s, m)
             /\ rows' = [rows EXCEPT ![s] = Returned(@)]
             /\ Finish(w)
    /\ UNCHANGED <<day, period, favorites, threads, started, crashes, interrupted>>

MirrorSignal(w) ==
    /\ At(w, "sendCard")
    /\ \/ /\ Mirror(proc[w].post)
          /\ proc' = [proc EXCEPT ![w].at = "record", ![w].delivered = 1]
       \/ ThreadsFails(proc[w].post) /\ GoTo(w, "record")
    /\ UNCHANGED <<day, period, rows, favorites, channel, started, crashes, interrupted>>

Recorded(row, message, delivered) ==
    IF row.status = "publishing"
    THEN [row EXCEPT !.status = "active", !.message = message, !.card = delivered]
    ELSE row

Record(w) ==
    /\ At(w, "record")
    /\ rows' = [rows EXCEPT ![proc[w].post.signal] =
                    Recorded(@, proc[w].message, proc[w].delivered)]
    /\ Finish(w)
    /\ UNCHANGED <<day, period, favorites, channel, threads, started, faults, crashes,
                   interrupted>>

-----------------------------------------------------------------------------
(* The container dies and starts again *)

Crash ==
    /\ crashes < MaxCrashes
    /\ crashes' = crashes + 1
    /\ interrupted' = interrupted \cup {s \in Signals :
           \/ rows[s].status = "publishing"
           \/ \E w \in Workers : At(w, "insert") /\ proc[w].post.signal = s}
    /\ proc' = [w \in Workers |-> Idle]
    /\ started' = FALSE
    /\ UNCHANGED <<day, period, rows, favorites, channel, threads, faults>>

-----------------------------------------------------------------------------
(* The specification *)

Init ==
    /\ day = 1
    /\ period = [s \in Signals |-> "unseen"]
    /\ rows = [s \in Signals |-> NoRow]
    /\ favorites = [s \in Signals |-> NoFavorite]
    /\ channel = [s \in Signals |-> <<>>]
    /\ threads = [s \in Signals |-> {}]
    /\ proc = [w \in Workers |-> Idle]
    /\ started = TRUE          \* the backfill of the first start finds an empty table
    /\ faults = 0 /\ crashes = 0 /\ interrupted = {}

MainStep(w) ==
    \/ ClaimOldest(w) \/ SelectCandidate(w) \/ MakeFavorite(w) \/ InsertDraft(w) \/ Claim(w)
    \/ Refresh(w) \/ Send(w) \/ MirrorSignal(w) \/ Record(w)

UpdateStep(w) == ReadRows(w) \/ Tell(w) \/ Told(w) \/ EchoUpdate(w) \/ KeepUpdate(w)

BackfillStep(w) ==
    SendCard(w) \/ SaveCard(w) \/ ReadReplies(w) \/ SendReply(w) \/ SaveReply(w)

Step(w) == BackfillStep(w) \/ UpdateStep(w) \/ MainStep(w)

Next ==
    \/ NewDay
    \/ \E s \in Signals : Observe(s)
    \/ \E w \in Workers : Step(w) \/ \E mode \in {"main", "updates", "backfill"} : Start(w, mode)
    \/ Crash

Spec == Init /\ [][Next]_vars

\* The loop runs, and comes to every evening; what a process has begun it goes on with.
FairSpec ==
    /\ Spec
    /\ SF_vars(Start("loop", "updates"))
    /\ \A w \in Workers : WF_vars(Step(w))

-----------------------------------------------------------------------------
(* Properties *)

TypeOK ==
    /\ day \in Days
    /\ period \in [Signals -> {"unseen", "live", "over"}]
    /\ rows \in [Signals -> Row \cup {NoRow}]
    /\ favorites \in [Signals -> Favorite \cup {NoFavorite}]
    /\ channel \in [Signals -> Seq(Message)]
    /\ threads \in [Signals -> SUBSET [kind: Kinds, date: Days]]
    /\ proc \in [Workers -> Proc]
    /\ started \in BOOLEAN
    /\ faults \in 0..MaxFaults /\ crashes \in 0..MaxCrashes
    /\ interrupted \subseteq Signals

\* The publication points to the post that told its entry price, whatever was posted for it
\* before; and the favorite starts from that price, unless a crash came between the two.
EntryIsTold ==
    \A s \in Signals : Published(s) =>
        /\ rows[s].message \in DOMAIN channel[s]
        /\ channel[s][rows[s].message].kind = "signal"
        /\ channel[s][rows[s].message].price = rows[s].entry
        /\ s \notin interrupted => favorites[s].entry = rows[s].entry

\* Publication and favorite end together, at a price the channel was told.
ExitIsTold ==
    \A s \in Signals :
        /\ rows[s].status = "closed" <=> favorites[s].status = "closed"
        /\ favorites[s].status = "closed" =>
              \E m \in Range(channel[s]) : m.kind = "ended" /\ m.price = favorites[s].exit

\* "Publish the daily main signal": there is one per data date, unless a crash cut one short.
OneSignalPerDate ==
    \A s, t \in Signals :
        /\ s # t /\ Published(s) /\ Published(t) /\ rows[s].date = rows[t].date
        => s \in interrupted \/ t \in interrupted

\* A run read s while it was live and has not reported it yet.
ReportsLive(s) ==
    \E m \in proc["loop"].todo \cup {proc["loop"].post} : m.signal = s /\ m.kind = "live"

\* "Daily limit defers closure instead of losing it": once the data has moved on, the end of
\* a published signal is told and kept, unless a run is about to report what it read before.
EndIsKept ==
    \A s \in Signals :
        (Due(s, day) /\ period[s] = "over" /\ ~ReportsLive(s)) ~> rows[s].status = "closed"

Feed == INSTANCE SignalFeed WITH
    Dates <- Days,
    told <- [s \in Signals |-> [i \in DOMAIN channel[s] |-> Dated(channel[s][i])]],
    kept <- [s \in Signals |->
               IF Published(s)
               THEN [state |-> IF rows[s].status = "active" THEN "open" ELSE "ended",
                     date |-> Reached(rows[s]), echo |-> rows[s].mirrored]
               ELSE [state |-> "none", date |-> 0, echo |-> 0]],
    echoed <- threads

ImplementsFeed == Feed!FeedSpec
=============================================================================
