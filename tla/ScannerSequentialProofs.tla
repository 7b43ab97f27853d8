----------------------- MODULE ScannerSequentialProofs -----------------------
(***************************************************************************)
(* What one handler at a time guarantees of the periods, for any horizon   *)
(* and any number of data dates: the properties of ScannerPeriods that two *)
(* handlers that interleave can break, and one alone cannot.               *)
(*                                                                         *)
(* With a single worker the rows a handler writes are still the rows it    *)
(* read, so every UPDATE can be judged by its row alone.  The argument has *)
(* three layers: an update keeps RowOK and what later steps may not undo   *)
(* (Follows); a table of such rows stays in order (TableOK, TableUpTo);    *)
(* and the handler's data date is never before a day of the table          *)
(* (Dated, Reading), as the next handler reads at least as many candles.   *)
(* The last section adds that no commit breaks a UNIQUE index.             *)
(***************************************************************************)
EXTENDS ScannerPeriodsProofs

\* The condition of this module: no handler runs while another one does.
Sequential == \A v, w \in Workers : v = w

-----------------------------------------------------------------------------
(* A row *)

\* Every data date since the signal appeared was counted.
Daily(r) == r.obs = r.last - r.first + 1

\* Days in their order; the horizon is not passed when a daily period is admitted.
DaysOK(r) ==
    /\ r.obs >= 1 /\ r.obs <= r.last - r.first + 1
    /\ r.admitted <= r.last
    /\ r.entry # Null => DateOf(r.entry) = r.admitted
    /\ r.admitted # Null /\ Daily(r) =>
          /\ r.admitted <= HorizonDate(r)
          /\ r.exit # Null => r.admitted <= r.exitDate

\* What the status says of the rest; a repaired false exit does not come again.
StatusOK(r) ==
    /\ r.dir = "short" => r.admitted = Null /\ r.exit = Null /\ r.status # "suppressed"
    /\ r.status = "active" => r.reason = "none"
    /\ r.status = "suppressed" => r.reason # "none"
    /\ r.status = "suppressed" /\ r.reason = "auto" =>
          r.ended > Coalesce(r.admitted, r.first)
    /\ r.status = "closed" /\ r.reason = "none" /\ r.ended # Null => r.ended >= r.last

\* The return is there with the exit; a row that was sold unadmitted stays so.
ReturnOK(r) ==
    /\ r.exit = Null => r.ret = NoReturn
    /\ r.exit # Null /\ r.admitted # Null => r.entry # Null /\ r.ret = <<r.entry, r.exit>>
    /\ r.exit # Null /\ r.admitted = Null => r.status # "active" /\ r.conf # "mid"

RowOK(r) == Sound(r) /\ DaysOK(r) /\ StatusOK(r) /\ ReturnOK(r)

\* What a check of the schema adds, and the first write of a sync may undo.
Ready(r) ==
    r.dir = "long" => IF r.admitted = Null THEN r.conf # "mid" ELSE r.entry # Null

\* Some day did not show the condition a position is bought on.
Gap(from, to) == \E d \in from..to : market[d].signal \in {"none", "short"}

\* The row is not later than candle c, and if it was sold and is over, the signal was
\* seen to be gone by then.
RowUpTo(r, c) ==
    /\ r.last <= c
    /\ r.status = "closed" /\ r.reason # "none" => Gap(r.last, c)

\* What no update of r into t undoes.
Follows(r, t) ==
    /\ t.dir = r.dir /\ t.first = r.first
    /\ r.status = "closed" => t.status = "closed" /\ t.last = r.last /\ t.reason = r.reason
    /\ Journalable(r) => Journalable(t) /\ TradeOf(t) = TradeOf(r)

LEMMA FollowsItself == ASSUME NEW r PROVE Follows(r, r)
BY DEF Follows

LEMMA RowStaysUpTo ==
    ASSUME NEW r, NEW t, NEW c, RowUpTo(r, c), Follows(r, t), t.last <= c,
           t.status = "closed" => r.status = "closed"
    PROVE  RowUpTo(t, c)
BY DEF RowUpTo, Follows

\* The exit of a trade is left alone by an update that keeps the exit and the entry.
LEMMA SameTrade ==
    ASSUME NEW r \in Period, NEW t \in Period, t.dir = r.dir,
           Journalable(r) =>
              /\ t.admitted = r.admitted /\ t.entry = r.entry /\ t.exitDate = r.exitDate
              /\ t.exit = r.exit /\ t.exitReason = r.exitReason /\ t.ret = r.ret
    PROVE  Journalable(r) => Journalable(t) /\ TradeOf(t) = TradeOf(r)
BY DEF Journalable, TradeOf

\* Only a missing price has no day.
LEMMA UndatedQuote == ASSUME NEW q \in Quote, DateOf(q) = Null PROVE q = Null
BY ConstantsAssumption DEF Quote, Dates, DateOf, Null, Live

LEMMA BackfilledOK ==
    ASSUME NEW r \in Period, RowOK(r)
    PROVE  LET t == Backfilled(r)
           IN  /\ t \in Period /\ RowOK(t) /\ Follows(r, t)
               /\ t.last = r.last /\ t.status = r.status
               /\ t.dir = "long" /\ t.admitted = Null => t.conf # "mid"
<1> DEFINE t == Backfilled(r)
<1>1. CASE ~(r.dir = "long" /\ r.admitted = Null /\ r.conf = "mid")
  <2>1. t = r
    BY <1>1 DEF Backfilled
  <2> HIDE DEF t
  <2>2. Follows(r, t)
    BY <2>1, FollowsItself
  <2> QED
    BY <1>1, <2>1, <2>2 DEF t
<1>2. CASE r.dir = "long" /\ r.admitted = Null /\ r.conf = "mid"
  <2>1. r.dir = "long" /\ r.admitted = Null /\ r.conf = "mid"
    BY <1>2
  <2>2. t = [r EXCEPT !.admitted = r.first]
    BY <2>1 DEF Backfilled
  <2>3. /\ t \in Period /\ t.dir = r.dir /\ t.conf = r.conf /\ t.first = r.first
        /\ t.last = r.last /\ t.obs = r.obs /\ t.status = r.status /\ t.ended = r.ended
        /\ t.reason = r.reason /\ t.closed = r.closed /\ t.admitted = r.first
        /\ t.entry = r.entry /\ t.exitDate = r.exitDate /\ t.exit = r.exit
        /\ t.exitReason = r.exitReason /\ t.ret = r.ret
    BY <2>2 DEF Period
  <2> HIDE DEF t
  <2>4. r.exit = Null /\ r.reason = "none" /\ r.entry = Null
    <3>1. r.exit = Null /\ r.reason = "none"
      BY <2>1 DEF RowOK, ReturnOK, Sound
    <3>2. r.entry \in Quote /\ (r.entry # Null => DateOf(r.entry) = Null)
      BY <2>1 DEF RowOK, DaysOK, Period
    <3> QED
      BY <3>1, <3>2, UndatedQuote
  <2>5. Sound(t)
    BY <2>3 DEF RowOK, Sound
  <2>6. DaysOK(t)
    BY <2>3, <2>4, ConstantsAssumption DEF RowOK, Sound, DaysOK, Daily, HorizonDate, Period, Date, Null
  <2>7. StatusOK(t)
    BY <2>1, <2>3, <2>4 DEF RowOK, StatusOK
  <2>8. ReturnOK(t)
    BY <2>3, <2>4 DEF RowOK, ReturnOK
  <2>9. Follows(r, t)
    BY <2>1, <2>3 DEF Follows, Journalable
  <2>10. t.admitted # Null
    BY <2>3 DEF RowOK, Sound, Period, Date, Null
  <2> QED
    BY <2>3, <2>5, <2>6, <2>7, <2>8, <2>9, <2>10 DEF RowOK, t
<1> QED
  BY <1>1, <1>2

LEMMA EntryFrozenOK ==
    ASSUME NEW r \in Period, RowOK(r), r.last <= Latest, Latest \in 0..MaxDate,
           r.dir = "long" /\ r.admitted = Null => r.conf # "mid"
    PROVE  LET t == EntryFrozen(r)
           IN  /\ t \in Period /\ RowOK(t) /\ Follows(r, t) /\ Ready(t)
               /\ t.last = r.last /\ t.status = r.status
<1> DEFINE t == EntryFrozen(r)
<1>0. r.admitted \in Date /\ r.admitted <= Latest /\ (r.admitted # Null => r.admitted \in 1..Latest)
  BY ConstantsAssumption DEF RowOK, DaysOK, Period, Date, Null
<1>1. CASE ~(r.dir = "long" /\ r.admitted \in 1..Latest /\ r.entry = Null)
  <2>1. t = r
    BY <1>1 DEF EntryFrozen
  <2> HIDE DEF t
  <2> QED
    BY <1>0, <1>1, <2>1, FollowsItself DEF Ready, t
<1>2. CASE r.dir = "long" /\ r.admitted \in 1..Latest /\ r.entry = Null
  <2>1. r.dir = "long" /\ r.admitted \in 1..Latest /\ r.entry = Null
    BY <1>2
  <2> DEFINE close == Close(r.admitted, corrected)
  <2>2. t = [r EXCEPT !.entry = close]
    BY <2>1 DEF EntryFrozen
  <2>3. close \in Quote /\ close # Null /\ DateOf(close) = r.admitted
    BY <2>1, CloseType, ConstantsAssumption DEF Dates
  <2> HIDE DEF close
  <2>4. /\ t \in Period /\ t.dir = r.dir /\ t.conf = r.conf /\ t.first = r.first
        /\ t.last = r.last /\ t.obs = r.obs /\ t.status = r.status /\ t.ended = r.ended
        /\ t.reason = r.reason /\ t.closed = r.closed /\ t.admitted = r.admitted
        /\ t.entry = close /\ t.exitDate = r.exitDate /\ t.exit = r.exit
        /\ t.exitReason = r.exitReason /\ t.ret = r.ret
    BY <2>2, <2>3 DEF Period
  <2> HIDE DEF t
  <2>5. r.exit = Null /\ t.entry # Null
    BY <2>1, <2>3, <2>4 DEF RowOK, ReturnOK, Null
  <2>6. Sound(t)
    BY <2>4 DEF RowOK, Sound
  <2>7. DaysOK(t)
    BY <2>3, <2>4, <2>5 DEF RowOK, DaysOK, Daily, HorizonDate
  <2>8. StatusOK(t)
    BY <2>4 DEF RowOK, StatusOK
  <2>9. ReturnOK(t)
    BY <2>4, <2>5 DEF RowOK, ReturnOK
  <2>10. Follows(r, t)
    BY <2>1, <2>4 DEF Follows, Journalable
  <2> QED
    BY <2>4, <2>5, <2>6, <2>7, <2>8, <2>9, <2>10 DEF RowOK, Ready, t
<1> QED
  BY <1>1, <1>2

\* The check of the schema; its repair of false exits finds none.
LEMMA EnsuredOK ==
    ASSUME NEW r \in Period, RowOK(r), r.last <= Latest, Latest \in 0..MaxDate
    PROVE  LET t == Repaired(EntryFrozen(Backfilled(r)))
           IN  /\ t \in Period /\ RowOK(t) /\ Follows(r, t) /\ Ready(t)
               /\ t.last = r.last /\ t.status = r.status
<1> DEFINE b == Backfilled(r)
           e == EntryFrozen(b)
<1>1. /\ b \in Period /\ RowOK(b) /\ Follows(r, b) /\ b.last = r.last /\ b.status = r.status
      /\ b.dir = "long" /\ b.admitted = Null => b.conf # "mid"
  BY BackfilledOK
<1> HIDE DEF b
<1>2. /\ e \in Period /\ RowOK(e) /\ Follows(b, e) /\ Ready(e)
      /\ e.last = b.last /\ e.status = b.status
  BY <1>1, EntryFrozenOK
<1> HIDE DEF e
<1>3. Repaired(e) = e
  BY <1>2, ConstantsAssumption DEF Repaired, RowOK, StatusOK, Coalesce, Period, Date
<1>4. Follows(r, e)
  BY <1>1, <1>2 DEF Follows
<1> QED
  BY <1>1, <1>2, <1>3, <1>4 DEF b, e

\* A position that is sold, on a day after the last one it was seen on or on that day.
LEMMA ClosedRowOK ==
    ASSUME NEW r \in Period, RowOK(r), Ready(r), NEW d \in Date,
           NEW reason \in {"manual", "auto"},
           NEW quote \in Quote, QuoteOfClose(quote, d, reason), Closable(r, d, reason), r.last <= d, reason = "manual" => r.last < d
    PROVE  LET t == ClosedRow(r, d, quote, reason)
           IN  /\ RowOK(t) /\ Follows(r, t) /\ Ready(t)
               /\ t.last = r.last /\ t.status = "suppressed"
<1> DEFINE t == ClosedRow(r, d, quote, reason)
<1>1. /\ r.dir = "long" /\ r.status = "active" /\ r.reason = "none" /\ quote # Null
      /\ reason = "auto" => Coalesce(r.admitted, r.first) < d
      /\ r.last > 0 /\ d > 0 /\ r.admitted <= d
  BY ConstantsAssumption
     DEF Closable, RowOK, StatusOK, Sound, DaysOK, Period, Date, Live, Null, QuoteOfClose
<1>2. /\ t.dir = r.dir /\ t.conf = r.conf /\ t.first = r.first /\ t.last = r.last
      /\ t.obs = r.obs /\ t.status = "suppressed" /\ t.ended = d /\ t.reason = reason
      /\ t.admitted = r.admitted /\ t.entry = r.entry
      /\ t.exitDate = Coalesce(r.exitDate, d) /\ t.exit = Coalesce(r.exit, quote)
      /\ t.exitReason = (IF r.exitReason = "none" THEN reason ELSE r.exitReason)
      /\ t.ret = IF r.ret = NoReturn /\ r.entry # Null THEN <<r.entry, quote>> ELSE r.ret
  BY DEF ClosedRow, Period
<1>3. t \in Period
  BY ClosedRowType
<1>4. Sound(t)
  BY ClosedRowSound DEF RowOK
<1> HIDE DEF t
<1>5. ASSUME r.exit = Null PROVE DaysOK(t) /\ ReturnOK(t)
  <2>1. /\ r.exitDate = Null /\ r.exitReason = "none" /\ r.ret = NoReturn
        /\ t.exitDate = d /\ t.exit = quote
        /\ r.entry # Null => t.ret = <<t.entry, t.exit>>
    BY <1>2, <1>5 DEF RowOK, Sound, WholeExit, ReturnOK, Coalesce
  <2>2. DaysOK(t)
    BY <1>1, <1>2, <2>1 DEF RowOK, DaysOK, Daily, HorizonDate
  <2>3. ReturnOK(t)
    BY <1>1, <1>2, <2>1 DEF RowOK, DaysOK, Ready, ReturnOK
  <2> QED
    BY <2>2, <2>3
<1>6. ASSUME r.exit # Null PROVE DaysOK(t) /\ ReturnOK(t)
  <2>1. /\ r.exitDate # Null /\ r.exitReason # "none" /\ r.admitted # Null
        /\ r.entry # Null /\ r.ret = <<r.entry, r.exit>> /\ r.ret # NoReturn
    BY <1>1, <1>6 DEF RowOK, Sound, WholeExit, ReturnOK, NoReturn
  <2>2. /\ t.exitDate = r.exitDate /\ t.exit = r.exit /\ t.ret = r.ret
        /\ t.exitReason = r.exitReason
    BY <1>2, <1>6, <2>1 DEF Coalesce
  <2>3. DaysOK(t)
    BY <1>2, <2>2 DEF RowOK, DaysOK, Daily, HorizonDate
  <2>4. ReturnOK(t)
    BY <1>2, <1>6, <2>1, <2>2 DEF ReturnOK
  <2> QED
    BY <2>3, <2>4
<1>7. DaysOK(t) /\ ReturnOK(t)
  BY <1>5, <1>6
<1>8. StatusOK(t)
  BY <1>1, <1>2 DEF StatusOK
<1>9. Follows(r, t)
  <2>1. Journalable(r) => r.exit # Null
    BY DEF Journalable
  <2>2. Journalable(r) => Journalable(t) /\ TradeOf(t) = TradeOf(r)
    <3>1. CASE r.exit = Null
      BY <2>1, <3>1
    <3>2. CASE r.exit # Null
      <4>1. /\ r.exitDate # Null /\ r.exitReason # "none" /\ r.admitted # Null
            /\ r.ret # NoReturn
        BY <1>1, <3>2 DEF RowOK, Sound, WholeExit, ReturnOK, NoReturn
      <4> QED
        BY <1>2, <1>3, <3>2, <4>1, SameTrade DEF Coalesce
    <3> QED
      BY <3>1, <3>2
  <2> QED
    BY <1>1, <1>2, <2>2 DEF Follows
<1>10. Ready(t)
  BY <1>2 DEF Ready
<1> QED
  BY <1>2, <1>4, <1>7, <1>8, <1>9, <1>10 DEF RowOK, t

\* One more observation, on a day that is news to the row.
LEMMA BumpedOK ==
    ASSUME NEW r \in Period, RowOK(r), NEW d \in Dates, r.last < d, r.status # "closed"
    PROVE  LET t == Bumped(r, d)
           IN  /\ RowOK(t) /\ Follows(r, t) /\ t.last = d /\ t.status = r.status
<1> DEFINE t == Bumped(r, d)
<1>1. /\ t.dir = r.dir /\ t.conf = r.conf /\ t.first = r.first /\ t.last = d
      /\ t.obs = r.obs + 1 /\ t.status = r.status /\ t.ended = r.ended
      /\ t.reason = r.reason /\ t.closed = r.closed /\ t.admitted = r.admitted
      /\ t.entry = r.entry /\ t.exitDate = r.exitDate /\ t.exit = r.exit
      /\ t.exitReason = r.exitReason /\ t.ret = r.ret
  BY DEF Bumped, Period
<1>2. t \in Period
  BY BumpedType
<1>3. Sound(t)
  BY BumpedSound DEF RowOK
<1> HIDE DEF t
<1>4. DaysOK(t)
  <2>1. /\ r.obs \in Nat /\ r.first \in Nat /\ r.last \in Nat /\ r.admitted \in Nat
        /\ d \in Nat
    BY ConstantsAssumption DEF Period, Date, Dates
  <2>2. Daily(t) => Daily(r)
    BY <1>1, <2>1 DEF Daily, RowOK, DaysOK
  <2> QED
    BY <1>1, <2>1, <2>2 DEF RowOK, DaysOK, HorizonDate
<1>5. StatusOK(t)
  BY <1>1 DEF RowOK, StatusOK
<1>6. ReturnOK(t)
  BY <1>1 DEF RowOK, ReturnOK
<1>7. Follows(r, t)
  BY <1>1, <1>2, SameTrade DEF Follows
<1> QED
  BY <1>1, <1>3, <1>4, <1>5, <1>6, <1>7 DEF RowOK, t

\* The rows that a sync is done with: a sold one, and one whose signal is gone.
LEMMA FinishedOK ==
    ASSUME NEW r \in Period, RowOK(r), NEW d \in Dates, r.last <= d,
           r.status # "closed"
    PROVE  LET t == [r EXCEPT !.status = "closed"]
               u == [r EXCEPT !.status = "closed", !.ended = d]
           IN  /\ r.status = "suppressed" => RowOK(t) /\ Follows(r, t)
               /\ r.status = "active" => RowOK(u) /\ Follows(r, u) /\ u.reason = "none"
               /\ t.last = r.last /\ u.last = r.last /\ t.status = "closed"
               /\ u.status = "closed"
<1> DEFINE t == [r EXCEPT !.status = "closed"]
           u == [r EXCEPT !.status = "closed", !.ended = d]
           Rest(q) ==
              /\ q.dir = r.dir /\ q.conf = r.conf /\ q.first = r.first /\ q.last = r.last
              /\ q.obs = r.obs /\ q.status = "closed" /\ q.reason = r.reason
              /\ q.admitted = r.admitted /\ q.entry = r.entry /\ q.exitDate = r.exitDate
              /\ q.exit = r.exit /\ q.exitReason = r.exitReason /\ q.ret = r.ret
<1>1. d \in Date
  BY ConstantsAssumption DEF Date, Dates
<1>2. /\ t \in Period /\ Rest(t) /\ t.ended = r.ended
      /\ u \in Period /\ Rest(u) /\ u.ended = d
  BY <1>1 DEF Period
<1> HIDE DEF t, u
<1>3. ASSUME NEW q \in Period, Rest(q)
      PROVE  Sound(q) /\ DaysOK(q) /\ ReturnOK(q) /\ Follows(r, q)
  <2>1. Sound(q)
    BY <1>3 DEF RowOK, Sound
  <2>2. DaysOK(q)
    BY <1>3 DEF RowOK, DaysOK, Daily, HorizonDate
  <2>3. ReturnOK(q)
    BY <1>3 DEF RowOK, ReturnOK
  <2>4. Follows(r, q)
    BY <1>3, SameTrade DEF Follows
  <2> QED
    BY <2>1, <2>2, <2>3, <2>4
<1>4. r.status = "suppressed" => StatusOK(t)
  BY <1>2 DEF RowOK, StatusOK
<1>5. r.status = "active" => StatusOK(u) /\ u.reason = "none"
  BY <1>2 DEF RowOK, StatusOK
<1> QED
  BY <1>2, <1>3, <1>4, <1>5 DEF RowOK, t, u

\* The price that a sync comes with is the close of its date, if it comes with one.
PriceOf(price, d) == price # Null => DateOf(price) = d

\* A new row is seen on one day, that of the run.
LEMMA NewPeriodOK ==
    ASSUME NEW d \in Dates, NEW sig \in Signals, NEW price \in Quote, PriceOf(price, d)
    PROVE  LET t == NewPeriod(d, sig, price)
           IN  /\ RowOK(t) /\ t.first = d /\ t.last = d /\ t.status = "active"
               /\ t.reason = "none"
<1> DEFINE t == NewPeriod(d, sig, price)
<1>1. Sound(t)
  BY NewPeriodSound
<1>2. /\ t.first = d /\ t.last = d /\ t.obs = 1 /\ t.status = "active" /\ t.ended = Null
      /\ t.reason = "none" /\ t.exit = Null /\ t.ret = NoReturn
      /\ t.dir = "short" => t.admitted = Null
      /\ t.admitted \in {Null, d}
      /\ t.entry # Null => t.admitted = d /\ t.entry = price
  BY ConstantsAssumption DEF NewPeriod, Direction
<1> HIDE DEF t
<1>3. DaysOK(t)
  BY <1>2, ConstantsAssumption DEF DaysOK, HorizonDate, Dates, Null, PriceOf
<1>4. StatusOK(t)
  BY <1>2 DEF StatusOK
<1>5. ReturnOK(t)
  BY <1>2 DEF ReturnOK
<1> QED
  BY <1>1, <1>2, <1>3, <1>4, <1>5 DEF RowOK, t

\* The signal is seen again: an active row is admitted, graded or counted, each at most once.
LEMMA ObservedOK ==
    ASSUME NEW r \in Period, RowOK(r), r.status = "active", NEW d \in Dates, r.last <= d,
           NEW sig \in Signals, Direction(sig) = r.dir, NEW price \in Quote,
           PriceOf(price, d)
    PROVE  LET t == Observed(r, r, d, sig, price)
           IN  /\ RowOK(t) /\ Follows(r, t) /\ t.last = d /\ t.status = "active"
<1> DEFINE newer == d > r.last
           admit == /\ sig = "mid" /\ r.admitted = Null
                    /\ r.obs + (IF newer THEN 1 ELSE 0) <= Horizon
           t == Observed(r, r, d, sig, price)
<1>1. /\ t.dir = r.dir /\ t.first = r.first /\ t.last = d
      /\ t.obs = (IF newer THEN r.obs + 1 ELSE r.obs)
      /\ t.status = r.status /\ t.ended = r.ended /\ t.reason = r.reason
      /\ t.admitted = (IF admit THEN d ELSE r.admitted)
      /\ t.entry = (IF admit THEN Coalesce(r.entry, price) ELSE r.entry)
      /\ t.exitDate = r.exitDate /\ t.exit = r.exit /\ t.exitReason = r.exitReason
      /\ t.ret = r.ret
  BY ConstantsAssumption DEF Observed, Bumped, Period, Date, Dates
<1>2. t \in Period
  BY ObservedType
<1>3. Sound(t)
  BY ObservedSound DEF RowOK
<1> HIDE DEF t
<1>4. /\ r.obs \in Nat /\ r.first \in Nat /\ r.last \in Nat /\ r.admitted \in Nat
      /\ d \in Nat /\ d # Null /\ Horizon \in Nat
  BY ConstantsAssumption DEF Period, Date, Dates, Null
<1>5. CASE admit
  <2>1. r.exit = Null /\ r.entry = Null /\ r.dir = "long" /\ r.ret = NoReturn
    <3>1. r.exit = Null /\ r.dir = "long" /\ r.ret = NoReturn
      BY <1>5 DEF RowOK, ReturnOK, Direction
    <3>2. r.entry \in Quote /\ (r.entry # Null => DateOf(r.entry) = Null)
      BY <1>5 DEF RowOK, DaysOK, Period
    <3> QED
      BY <3>1, <3>2, UndatedQuote
  <2>2. DaysOK(t)
    <3>1. t.obs >= 1 /\ t.obs <= t.last - t.first + 1
      BY <1>1, <1>4 DEF RowOK, DaysOK
    <3>2. t.admitted <= t.last /\ (t.entry # Null => DateOf(t.entry) = t.admitted)
      BY <1>1, <1>4, <1>5, <2>1 DEF Coalesce, PriceOf
    <3>3. Daily(t) => t.admitted <= HorizonDate(t)
      BY <1>1, <1>4, <1>5 DEF Daily, HorizonDate
    <3> QED
      BY <1>1, <2>1, <3>1, <3>2, <3>3 DEF DaysOK
  <2>3. StatusOK(t)
    BY <1>1, <2>1 DEF RowOK, StatusOK
  <2>4. ReturnOK(t)
    BY <1>1, <2>1 DEF ReturnOK
  <2>5. Follows(r, t)
    BY <1>1, <2>1 DEF Follows, Journalable
  <2> QED
    BY <1>1, <1>3, <2>2, <2>3, <2>4, <2>5 DEF RowOK, t
<1>6. CASE ~admit
  <2>1. t.admitted = r.admitted /\ t.entry = r.entry
    BY <1>1, <1>6
  <2>2. Daily(t) => Daily(r)
    BY <1>1, <1>4 DEF Daily, RowOK, DaysOK
  <2>3. DaysOK(t)
    BY <1>1, <1>4, <2>1, <2>2 DEF RowOK, DaysOK, HorizonDate
  <2>4. StatusOK(t)
    BY <1>1, <2>1 DEF RowOK, StatusOK
  <2>5. ReturnOK(t)
    BY <1>1, <2>1 DEF RowOK, ReturnOK
  <2>6. Follows(r, t)
    BY <1>1, <1>2, <2>1, SameTrade DEF Follows
  <2> QED
    BY <1>1, <1>3, <2>3, <2>4, <2>5, <2>6 DEF RowOK, t
<1> QED
  BY <1>5, <1>6

\* The exit that a snapshot finds for a daily position is not before its entry.
LEMMA ExitForLater ==
    ASSUME NEW r \in Period, RowOK(r), NEW d \in Dates, r.last <= d, r.admitted # Null,
           Daily(r), NEW fixed, ExitFor(r, d, fixed)[2] # Null
    PROVE  r.admitted <= ExitFor(r, d, fixed)[1]
<1>1. /\ r.admitted <= r.last /\ r.admitted <= HorizonDate(r)
      /\ r.exit # Null => r.admitted <= r.exitDate
      /\ r.exit = Null => r.reason = "none"
      /\ r.status = "closed" /\ r.reason = "none" /\ r.ended # Null => r.ended >= r.last
  BY DEF RowOK, DaysOK, StatusOK, Sound
<1>2. /\ r.last \in Nat /\ r.admitted \in Nat /\ r.ended \in Nat /\ d \in Nat
      /\ HorizonDate(r) \in Int
  BY ConstantsAssumption DEF Period, Date, Dates, HorizonDate
<1>3. CASE r.exit # Null
  BY <1>1, <1>3 DEF ExitFor
<1>4. CASE r.exit = Null /\ r.obs >= Horizon /\ HorizonDate(r) <= d
  BY <1>1, <1>4 DEF ExitFor
<1>5. CASE r.exit = Null /\ ~(r.obs >= Horizon /\ HorizonDate(r) <= d)
           /\ r.status = "closed"
  <2>1. r.reason = "none"
    BY <1>1, <1>5
  <2> DEFINE endDate == Coalesce(r.ended, r.last)
  <2>2. endDate >= r.last /\ endDate \in Nat
    BY <1>1, <1>2, <1>5, <2>1 DEF Coalesce
  <2>3. ExitFor(r, d, fixed)[1] = IF endDate <= d THEN endDate ELSE d
    BY <1>5, <2>1 DEF ExitFor
  <2> HIDE DEF endDate
  <2> QED
    BY <1>1, <1>2, <2>2, <2>3
<1>6. CASE r.exit = Null /\ ~(r.obs >= Horizon /\ HorizonDate(r) <= d)
           /\ r.status # "closed"
  BY <1>1, <1>6 DEF ExitFor
<1> QED
  BY <1>3, <1>4, <1>5, <1>6

\* A snapshot of a position: its exit, once found, is the one that stays.
LEMMA SnapshottedOK ==
    ASSUME NEW r \in Period, RowOK(r), Ready(r), r.dir = "long", r.admitted # Null,
           NEW d \in Dates, NEW fixed, r.last <= d
    PROVE  LET t == Snapshotted(r, r, d, fixed)
           IN  /\ RowOK(t) /\ Follows(r, t) /\ t.last = r.last /\ t.status = r.status
<1> DEFINE exit == ExitFor(r, d, fixed)
           t == Snapshotted(r, r, d, fixed)
<1>1. r.entry # Null /\ EntryFor(r, fixed) = r.entry
  BY DEF Ready, RowOK, DaysOK, EntryFor, Coalesce
<1>2. WholeExit(exit[1], exit[2], exit[3])
  BY ExitForWhole DEF RowOK
<1>3. Daily(r) /\ exit[2] # Null => r.admitted <= exit[1]
  BY ExitForLater
<1>4. r.exit # Null => exit[1] = r.exitDate /\ exit[2] = r.exit
  BY DEF ExitFor
<1>5. t \in Period
  BY <1>1, SnapshottedType
<1>6. Sound(t)
  BY SnapshottedSound DEF RowOK
<1> HIDE DEF exit
<1>7. /\ t.dir = r.dir /\ t.conf = r.conf /\ t.first = r.first /\ t.last = r.last
      /\ t.obs = r.obs /\ t.status = r.status /\ t.ended = r.ended /\ t.reason = r.reason
      /\ t.admitted = r.admitted /\ t.entry = r.entry
      /\ t.exitDate = Coalesce(r.exitDate, exit[1]) /\ t.exit = Coalesce(r.exit, exit[2])
      /\ t.exitReason = (IF r.exitReason = "none" THEN exit[3] ELSE r.exitReason)
      /\ t.ret = IF r.ret = NoReturn /\ exit[2] # Null THEN <<r.entry, exit[2]>> ELSE r.ret
  BY <1>1 DEF Snapshotted, Period, Coalesce, exit
<1> HIDE DEF t
<1>8. CASE r.exit = Null
  <2>1. r.exitDate = Null /\ r.ret = NoReturn
    BY <1>8 DEF RowOK, Sound, WholeExit, ReturnOK
  <2>2. /\ t.exitDate = exit[1] /\ t.exit = exit[2]
        /\ t.exit # Null => t.ret = <<t.entry, t.exit>>
        /\ t.exit = Null => t.ret = NoReturn
    BY <1>7, <1>8, <2>1 DEF Coalesce
  <2>3. DaysOK(t)
    BY <1>3, <1>7, <2>2 DEF RowOK, DaysOK, Daily, HorizonDate
  <2>4. ReturnOK(t)
    BY <1>1, <1>7, <2>2 DEF ReturnOK
  <2>5. ~Journalable(r)
    BY <1>8 DEF Journalable
  <2>6. Follows(r, t)
    BY <1>7, <2>5 DEF Follows
  <2>7. StatusOK(t)
    BY <1>7 DEF RowOK, StatusOK
  <2> QED
    BY <1>6, <1>7, <2>3, <2>4, <2>6, <2>7 DEF RowOK, t
<1>9. CASE r.exit # Null
  <2>1. /\ r.exitDate # Null /\ r.exitReason # "none"
        /\ r.ret = <<r.entry, r.exit>> /\ r.ret # NoReturn
    BY <1>1, <1>9 DEF RowOK, Sound, WholeExit, ReturnOK, NoReturn
  <2>2. /\ t.exitDate = r.exitDate /\ t.exit = r.exit /\ t.ret = r.ret
        /\ t.exitReason = r.exitReason
    BY <1>7, <1>9, <2>1 DEF Coalesce
  <2>3. DaysOK(t)
    BY <1>7, <2>2 DEF RowOK, DaysOK, Daily, HorizonDate
  <2>4. ReturnOK(t)
    BY <1>1, <1>7, <1>9, <2>1, <2>2 DEF ReturnOK
  <2>5. Follows(r, t)
    BY <1>5, <1>7, <2>2, SameTrade DEF Follows
  <2>6. StatusOK(t)
    BY <1>7, <2>2 DEF RowOK, StatusOK
  <2> QED
    BY <1>6, <1>7, <2>3, <2>4, <2>5, <2>6 DEF RowOK, t
<1> QED
  BY <1>8, <1>9

-----------------------------------------------------------------------------
(* The table: only its last row is not closed, and a sold position is not    *)
(* followed by another before the signal was seen to be gone.                *)

TableOK(ps) ==
    /\ \A i \in DOMAIN ps : RowOK(ps[i]) /\ (i < Len(ps) => ps[i].status = "closed")
    /\ \A i, j \in DOMAIN ps :
          i < j /\ ps[j].dir = "long" /\ ps[i].reason # "none" =>
             Gap(ps[i].last, ps[j].first)

TableUpTo(ps, c) == \A i \in DOMAIN ps : RowUpTo(ps[i], c)

\* qs is ps after the writes of a handler whose data date is c.
Advances(ps, qs, c) ==
    /\ qs \in Seq(Period) /\ Len(ps) <= Len(qs)
    /\ \A i \in DOMAIN ps : Follows(ps[i], qs[i])
    /\ TableOK(qs) /\ TableUpTo(qs, c)

LEMMA AdvancesItself ==
    ASSUME NEW ps \in Seq(Period), TableOK(ps), NEW c, TableUpTo(ps, c)
    PROVE  Advances(ps, ps, c)
BY FollowsItself DEF Advances

LEMMA AdvancesAgain ==
    ASSUME NEW ps \in Seq(Period), NEW qs, NEW rs, NEW c, Advances(ps, qs, c),
           Advances(qs, rs, c)
    PROVE  Advances(ps, rs, c)
<1>1. /\ qs \in Seq(Period) /\ rs \in Seq(Period) /\ Len(ps) <= Len(rs)
      /\ TableOK(rs) /\ TableUpTo(rs, c)
  BY DEF Advances
<1>2. ASSUME NEW i \in DOMAIN ps PROVE Follows(ps[i], rs[i])
  <2>1. i \in DOMAIN qs /\ Follows(ps[i], qs[i]) /\ Follows(qs[i], rs[i])
    BY DEF Advances
  <2> QED
    BY <2>1 DEF Follows
<1> QED
  BY <1>1, <1>2 DEF Advances

LEMMA RowsAdvance ==
    ASSUME NEW ps \in Seq(Period), TableOK(ps), NEW c, NEW qs \in Seq(Period),
           Len(qs) = Len(ps),
           \A i \in DOMAIN ps : /\ RowOK(qs[i]) /\ Follows(ps[i], qs[i])
                                /\ RowUpTo(qs[i], c)
    PROVE  Advances(ps, qs, c)
<1>1. DOMAIN qs = DOMAIN ps
  OBVIOUS
<1>2. ASSUME NEW i \in DOMAIN qs
      PROVE  RowOK(qs[i]) /\ (i < Len(qs) => qs[i].status = "closed")
  <2>1. i < Len(ps) => ps[i].status = "closed"
    BY <1>1 DEF TableOK
  <2>2. RowOK(qs[i]) /\ Follows(ps[i], qs[i])
    BY <1>1
  <2> QED
    BY <2>1, <2>2 DEF Follows
<1>3. ASSUME NEW i \in DOMAIN qs, NEW j \in DOMAIN qs, i < j, qs[j].dir = "long",
             qs[i].reason # "none"
      PROVE  Gap(qs[i].last, qs[j].first)
  <2>1. i < Len(ps)
    BY <1>1, <1>3
  <2>2. ps[i].status = "closed"
    BY <1>1, <2>1 DEF TableOK
  <2>3. /\ qs[i].last = ps[i].last /\ qs[i].reason = ps[i].reason
        /\ qs[j].dir = ps[j].dir /\ qs[j].first = ps[j].first
    BY <1>1, <2>2 DEF Follows
  <2> QED
    BY <1>1, <1>3, <2>3 DEF TableOK
<1> QED
  BY <1>1, <1>2, <1>3 DEF Advances, TableOK, TableUpTo

LEMMA RowAdvances ==
    ASSUME NEW ps \in Seq(Period), TableOK(ps), NEW c, TableUpTo(ps, c),
           NEW i \in DOMAIN ps, NEW row \in Period, RowOK(row), Follows(ps[i], row),
           RowUpTo(row, c), NEW qs, qs = [ps EXCEPT ![i] = row]
    PROVE  Advances(ps, qs, c)
<1>1. qs \in Seq(Period) /\ Len(qs) = Len(ps)
  OBVIOUS
<1>2. ASSUME NEW k \in DOMAIN ps
      PROVE  RowOK(qs[k]) /\ Follows(ps[k], qs[k]) /\ RowUpTo(qs[k], c)
  <2>1. CASE k = i
    BY <2>1
  <2>2. CASE k # i
    <3>1. qs[k] = ps[k]
      BY <2>2
    <3>2. RowOK(ps[k]) /\ RowUpTo(ps[k], c)
      BY DEF TableOK, TableUpTo
    <3> QED
      BY <3>1, <3>2, FollowsItself
  <2> QED
    BY <2>1, <2>2
<1> QED
  BY <1>1, <1>2, RowsAdvance

\* A new row, when all the others are closed.
LEMMA RowAdded ==
    ASSUME NEW ps \in Seq(Period), TableOK(ps), NEW c \in Dates, TableUpTo(ps, c),
           \A i \in DOMAIN ps : ps[i].status = "closed",
           NEW row \in Period, RowOK(row), row.first = c, row.last = c,
           row.status = "active"
    PROVE  Advances(ps, Append(ps, row), c)
<1> DEFINE qs == Append(ps, row)
<1>1. /\ qs \in Seq(Period) /\ Len(qs) = Len(ps) + 1 /\ DOMAIN qs = 1..(Len(ps) + 1)
      /\ qs[Len(ps) + 1] = row /\ DOMAIN ps = 1..Len(ps) /\ Len(ps) \in Nat
      /\ \A i \in DOMAIN ps : qs[i] = ps[i]
  OBVIOUS
<1> HIDE DEF qs
<1>2. ASSUME NEW i \in DOMAIN qs
      PROVE  i \in DOMAIN ps \/ (i = Len(ps) + 1 /\ qs[i] = row)
  BY <1>1
<1>3. ASSUME NEW i \in DOMAIN qs
      PROVE  RowOK(qs[i]) /\ (i < Len(qs) => qs[i].status = "closed")
  BY <1>1, <1>2 DEF TableOK
<1>4. ASSUME NEW i \in DOMAIN qs, NEW j \in DOMAIN qs, i < j, qs[j].dir = "long",
             qs[i].reason # "none"
      PROVE  Gap(qs[i].last, qs[j].first)
  <2>1. i \in DOMAIN ps /\ qs[i] = ps[i]
    BY <1>1, <1>4
  <2>2. CASE j \in DOMAIN ps
    BY <1>1, <1>4, <2>1, <2>2 DEF TableOK
  <2>3. CASE j = Len(ps) + 1
    BY <1>1, <1>4, <2>1, <2>3 DEF TableUpTo, RowUpTo
  <2> QED
    BY <1>2, <2>2, <2>3
<1>5. ASSUME NEW i \in DOMAIN qs PROVE RowUpTo(qs[i], c)
  <2>1. RowUpTo(row, c)
    BY ConstantsAssumption DEF RowUpTo, Dates
  <2> QED
    BY <1>1, <1>2, <2>1 DEF TableUpTo
<1>6. Advances(ps, qs, c)
  BY <1>1, <1>3, <1>4, <1>5, FollowsItself DEF Advances, TableOK, TableUpTo
<1> QED
  BY <1>6 DEF qs

LEMMA EnsuredAdvances ==
    ASSUME NEW ps \in Seq(Period), TableOK(ps), NEW c \in 0..Latest, TableUpTo(ps, c),
           Latest \in 0..MaxDate
    PROVE  /\ Advances(ps, Ensured(ps), c)
           /\ \A i \in DOMAIN Ensured(ps) : Ready(Ensured(ps)[i])
<1> DEFINE qs == Ensured(ps)
<1>1. qs \in Seq(Period)
  BY EnsuredTable DEF Succeeds
<1>2. DOMAIN qs = DOMAIN ps /\ Len(qs) = Len(ps)
  BY <1>1 DEF Ensured
<1>3. ASSUME NEW i \in DOMAIN ps
      PROVE  /\ RowOK(qs[i]) /\ Follows(ps[i], qs[i]) /\ Ready(qs[i])
             /\ qs[i].last = ps[i].last /\ qs[i].status = ps[i].status
  <2>1. ps[i] \in Period /\ RowOK(ps[i]) /\ ps[i].last <= c
    BY DEF TableOK, TableUpTo, RowUpTo
  <2>2. ps[i].last <= Latest
    BY <2>1, ConstantsAssumption DEF Period, Date
  <2>3. qs[i] = Repaired(EntryFrozen(Backfilled(ps[i])))
    BY DEF Ensured
  <2> HIDE DEF qs
  <2> QED
    BY <2>1, <2>2, <2>3, EnsuredOK
<1> HIDE DEF qs
<1>4. ASSUME NEW i \in DOMAIN ps PROVE RowUpTo(qs[i], c)
  BY <1>3, RowStaysUpTo DEF TableUpTo, RowUpTo
<1>5. Advances(ps, qs, c)
  BY <1>1, <1>2, <1>3, <1>4, RowsAdvance
<1> QED
  BY <1>2, <1>3, <1>5 DEF qs

LEMMA ClosedAdvances ==
    ASSUME NEW ps \in Seq(Period), TableOK(ps), NEW c \in Nat, TableUpTo(ps, c),
           \A i \in DOMAIN ps : Ready(ps[i]),
           NEW d \in Date, NEW reason \in {"manual", "auto"},
           IF reason = "manual" THEN c < d ELSE d = c,
           NEW quote \in Quote, QuoteOfClose(quote, d, reason)
    PROVE  Advances(ps, ClosedPositions(ps, d, quote, reason), c)
<1> DEFINE qs == ClosedPositions(ps, d, quote, reason)
<1>1. qs \in Seq(Period)
  BY ClosedTable DEF Succeeds
<1>2. DOMAIN qs = DOMAIN ps /\ Len(qs) = Len(ps)
  BY <1>1 DEF ClosedPositions
<1>3. ASSUME NEW i \in DOMAIN ps
      PROVE  RowOK(qs[i]) /\ Follows(ps[i], qs[i]) /\ RowUpTo(qs[i], c)
  <2>1. /\ ps[i] \in Period /\ RowOK(ps[i]) /\ RowUpTo(ps[i], c) /\ Ready(ps[i])
        /\ ps[i].last <= c /\ ps[i].last \in Nat
    <3>1. ps[i] \in Period
      OBVIOUS
    <3>2. ps[i].last \in Nat
      BY <3>1, ConstantsAssumption DEF Period, Date
    <3> QED
      BY <3>1, <3>2 DEF TableOK, TableUpTo, RowUpTo
  <2>2. CASE ~Closable(ps[i], d, reason)
    <3>1. qs[i] = ps[i]
      BY <2>2 DEF ClosedPositions
    <3> HIDE DEF qs
    <3> QED
      BY <2>1, <3>1, FollowsItself
  <2>3. CASE Closable(ps[i], d, reason)
    <3>1. qs[i] = ClosedRow(ps[i], d, quote, reason)
      BY <2>3 DEF ClosedPositions
    <3> HIDE DEF qs
    <3>2. ps[i].last <= d /\ (reason = "manual" => ps[i].last < d)
      <4>1. d \in Nat
        BY ConstantsAssumption DEF Date
      <4> QED
        BY <2>1, <4>1
    <3>3. /\ RowOK(qs[i]) /\ Follows(ps[i], qs[i]) /\ qs[i].last = ps[i].last
          /\ qs[i].status = "suppressed"
      BY <2>1, <2>3, <3>1, <3>2, ClosedRowOK
    <3> QED
      BY <2>1, <3>3, RowStaysUpTo
  <2> QED
    BY <2>2, <2>3
<1> HIDE DEF qs
<1>4. Advances(ps, qs, c)
  BY <1>1, <1>2, <1>3, RowsAdvance
<1> QED
  BY <1>4 DEF qs

LEMMA SnapshotAdvances ==
    ASSUME NEW ps \in Seq(Period), TableOK(ps), NEW d \in Dates, TableUpTo(ps, d),
           \A i \in DOMAIN ps : Ready(ps[i]), NEW fixed
    PROVE  Advances(ps, SnapshotResult(ps, ps, d, fixed), d)
<1> DEFINE qs == SnapshotResult(ps, ps, d, fixed)
<1>1. qs \in Seq(Period)
  BY SnapshotTable DEF Succeeds
<1>2. DOMAIN qs = DOMAIN ps /\ Len(qs) = Len(ps)
  BY <1>1 DEF SnapshotResult
<1>3. ASSUME NEW i \in DOMAIN ps
      PROVE  RowOK(qs[i]) /\ Follows(ps[i], qs[i]) /\ RowUpTo(qs[i], d)
  <2>1. /\ ps[i] \in Period /\ RowOK(ps[i]) /\ RowUpTo(ps[i], d) /\ Ready(ps[i])
        /\ ps[i].last <= d
    BY DEF TableOK, TableUpTo, RowUpTo
  <2>2. \/ qs[i] = ps[i]
        \/ /\ ps[i].dir = "long" /\ ps[i].admitted # Null
           /\ qs[i] = Snapshotted(ps[i], ps[i], d, fixed)
    BY DEF SnapshotResult
  <2> HIDE DEF qs
  <2>3. CASE qs[i] = ps[i]
    BY <2>1, <2>3, FollowsItself
  <2>4. CASE /\ ps[i].dir = "long" /\ ps[i].admitted # Null
             /\ qs[i] = Snapshotted(ps[i], ps[i], d, fixed)
    <3>1. /\ RowOK(qs[i]) /\ Follows(ps[i], qs[i]) /\ qs[i].last = ps[i].last
          /\ qs[i].status = ps[i].status
      BY <2>1, <2>4, SnapshottedOK
    <3> QED
      BY <2>1, <3>1, RowStaysUpTo
  <2> QED
    BY <2>2, <2>3, <2>4
<1> HIDE DEF qs
<1>4. Advances(ps, qs, d)
  BY <1>1, <1>2, <1>3, RowsAdvance
<1> QED
  BY <1>4 DEF qs

\* The row that is not closed, if there is one, is the last; a sync finds it, and it alone.
LEMMA RowsRead ==
    ASSUME NEW ps \in Seq(Period), TableOK(ps), NEW a \in ReadId(ps, "active"),
           NEW s \in ReadId(ps, "suppressed")
    PROVE  \/ /\ a = Len(ps) /\ a \in DOMAIN ps /\ ps[a].status = "active" /\ s = 0
           \/ /\ s = Len(ps) /\ s \in DOMAIN ps /\ ps[s].status = "suppressed" /\ a = 0
           \/ /\ a = 0 /\ s = 0 /\ \A i \in DOMAIN ps : ps[i].status = "closed"
<1>1. \/ a = 0 /\ \A i \in DOMAIN ps : ps[i].status # "active"
      \/ a \in DOMAIN ps /\ ps[a].status = "active"
  BY DEF ReadId, WithStatus
<1>2. \/ s = 0 /\ \A i \in DOMAIN ps : ps[i].status # "suppressed"
      \/ s \in DOMAIN ps /\ ps[s].status = "suppressed"
  BY DEF ReadId, WithStatus
<1>3. ASSUME NEW i \in DOMAIN ps
      PROVE  /\ ps[i].status \in {"active", "suppressed", "closed"}
             /\ ps[i].status # "closed" => i = Len(ps)
             /\ i # 0
  <2>1. ps[i] \in Period /\ i \in 1..Len(ps) /\ (i < Len(ps) => ps[i].status = "closed")
    BY DEF TableOK
  <2> QED
    BY <2>1 DEF Period
<1>4. CASE a \in DOMAIN ps /\ ps[a].status = "active"
  BY <1>2, <1>3, <1>4
<1>5. CASE s \in DOMAIN ps /\ ps[s].status = "suppressed"
  BY <1>1, <1>3, <1>5
<1>6. CASE /\ \A i \in DOMAIN ps : ps[i].status # "active"
           /\ \A i \in DOMAIN ps : ps[i].status # "suppressed"
  BY <1>1, <1>2, <1>3, <1>6
<1> QED
  BY <1>1, <1>2, <1>4, <1>5, <1>6

\* With its last row closed a table has none that is open.
LEMMA AllClosed ==
    ASSUME NEW qs \in Seq(Period), TableOK(qs),
           qs # <<>> => qs[Len(qs)].status = "closed"
    PROVE  \A i \in DOMAIN qs : qs[i].status = "closed"
<1> SUFFICES ASSUME NEW i \in DOMAIN qs PROVE qs[i].status = "closed"
  OBVIOUS
<1>1. i \in 1..Len(qs) /\ Len(qs) \in Nat /\ qs # <<>>
  OBVIOUS
<1>2. i < Len(qs) => qs[i].status = "closed"
  BY DEF TableOK
<1> QED
  BY <1>1, <1>2

\* The last row is finished: an active one always, a sold one when its signal is gone.
LEMMA LastFinished ==
    ASSUME NEW ps \in Seq(Period), TableOK(ps), NEW d \in Dates, TableUpTo(ps, d),
           NEW i \in DOMAIN ps, i = Len(ps), NEW qs,
           \/ ps[i].status = "active" /\ qs = FinishedOn(ps, i, d)
           \/ /\ ps[i].status = "suppressed" /\ qs = Finished(ps, i)
              /\ market[d].signal \in {"none", "short"}
    PROVE  /\ Advances(ps, qs, d)
           /\ \A k \in DOMAIN qs : qs[k].status = "closed"
<1> DEFINE t == [ps[i] EXCEPT !.status = "closed"]
           u == [ps[i] EXCEPT !.status = "closed", !.ended = d]
<1>1. /\ ps[i] \in Period /\ RowOK(ps[i]) /\ RowUpTo(ps[i], d) /\ ps[i].last <= d
  BY DEF TableOK, TableUpTo, RowUpTo
<1>2. /\ ps[i].status = "suppressed" => RowOK(t) /\ Follows(ps[i], t)
      /\ ps[i].status = "active" => /\ RowOK(u) /\ Follows(ps[i], u)
                                    /\ u.reason = "none"
      /\ t.last = ps[i].last /\ u.last = ps[i].last /\ t.status = "closed"
      /\ u.status = "closed"
  BY <1>1, FinishedOK
<1>3. t \in Period /\ u \in Period
  <2>1. d \in Date
    BY ConstantsAssumption DEF Date, Dates
  <2> QED
    BY <1>1, <2>1 DEF Period
<1>4. PICK row \in Period :
         /\ qs = [ps EXCEPT ![i] = row] /\ RowOK(row) /\ Follows(ps[i], row)
         /\ RowUpTo(row, d) /\ row.status = "closed"
  <2>1. CASE ps[i].status = "active" /\ qs = FinishedOn(ps, i, d)
    <3>1. FinishedOn(ps, i, d) = [ps EXCEPT ![i] = u]
      BY DEF FinishedOn
    <3> HIDE DEF u
    <3>2. RowUpTo(u, d)
      BY <1>1, <1>2, <2>1 DEF RowUpTo
    <3> QED
      BY <1>2, <1>3, <2>1, <3>1, <3>2
  <2>2. CASE /\ ps[i].status = "suppressed" /\ qs = Finished(ps, i)
             /\ market[d].signal \in {"none", "short"}
    <3>1. Finished(ps, i) = [ps EXCEPT ![i] = t]
      BY DEF Finished
    <3> HIDE DEF t
    <3>2. d \in ps[i].last .. d
      BY <1>1, ConstantsAssumption DEF Period, Date, Dates
    <3>3. RowUpTo(t, d)
      BY <1>1, <1>2, <2>2, <3>2 DEF RowUpTo, Gap
    <3> QED
      BY <1>2, <1>3, <2>2, <3>1, <3>3
  <2> QED
    BY <2>1, <2>2
<1>5. Advances(ps, qs, d)
  BY <1>4, RowAdvances
<1>6. qs \in Seq(Period) /\ TableOK(qs) /\ Len(qs) = Len(ps) /\ qs[Len(qs)] = row
  BY <1>4, <1>5 DEF Advances
<1> QED
  BY <1>4, <1>5, <1>6, AllClosed

LEMMA EndedAdvances ==
    ASSUME NEW ps \in Seq(Period), TableOK(ps), NEW d \in Dates, TableUpTo(ps, d),
           NEW a \in ReadId(ps, "active"), NEW s \in ReadId(ps, "suppressed"),
           market[d].signal = "none"
    PROVE  Advances(ps, Ended(ps, ps, a, s, d), d)
<1>1. CASE /\ a = Len(ps) /\ a \in DOMAIN ps /\ ps[a].status = "active" /\ s = 0
  <2>1. Ended(ps, ps, a, s, d) \in {FinishedOn(ps, a, d), ps}
    BY <1>1 DEF Ended
  <2> QED
    BY <1>1, <2>1, LastFinished, AdvancesItself
<1>2. CASE /\ s = Len(ps) /\ s \in DOMAIN ps /\ ps[s].status = "suppressed" /\ a = 0
  <2>1. Ended(ps, ps, a, s, d) = Finished(ps, s)
    BY <1>2 DEF Ended
  <2> QED
    BY <1>2, <2>1, LastFinished
<1>3. CASE a = 0 /\ s = 0
  BY <1>3, AdvancesItself DEF Ended
<1> QED
  BY <1>1, <1>2, <1>3, RowsRead

LEMMA ContinuedAdvances ==
    ASSUME NEW ps \in Seq(Period), TableOK(ps), NEW d \in Dates, TableUpTo(ps, d),
           NEW a \in ReadId(ps, "active"), NEW s \in ReadId(ps, "suppressed"),
           NEW sig \in Signals, sig = market[d].signal, sig # "none",
           NEW price \in Quote, PriceOf(price, d)
    PROVE  Advances(ps, Continued(ps, ps, ps, a, s, d, sig, price), d)
<1> DEFINE dir == Direction(sig)
           new == NewPeriod(d, sig, price)
           qs == Continued(ps, ps, ps, a, s, d, sig, price)
<1>1. /\ new \in Period /\ RowOK(new) /\ new.first = d /\ new.last = d
      /\ new.status = "active"
  BY NewPeriodType, NewPeriodOK
<1>2. ASSUME NEW rs, Advances(ps, rs, d), \A i \in DOMAIN rs : rs[i].status = "closed"
      PROVE  Advances(ps, Append(rs, new), d)
  <2> HIDE DEF new
  <2>1. Advances(rs, Append(rs, new), d)
    BY <1>1, <1>2, RowAdded DEF Advances
  <2> QED
    BY <1>2, <2>1, AdvancesAgain
<1> HIDE DEF new
<1>3. CASE /\ a = Len(ps) /\ a \in DOMAIN ps /\ ps[a].status = "active" /\ s = 0
  <2>0. a # 0
    BY <1>3
  <2>1. CASE ps[a].dir = dir
    <3> DEFINE row == Observed(ps[a], ps[a], d, sig, price)
    <3>1. qs = [ps EXCEPT ![a] = row]
      BY <1>3, <2>0, <2>1 DEF Continued
    <3>2. /\ ps[a] \in Period /\ RowOK(ps[a]) /\ RowUpTo(ps[a], d) /\ ps[a].last <= d
      BY <1>3 DEF TableOK, TableUpTo, RowUpTo
    <3>3. /\ RowOK(row) /\ Follows(ps[a], row) /\ row.last = d /\ row.status = "active"
      BY <1>3, <2>1, <3>2, ObservedOK
    <3>4. row \in Period
      BY <3>2, ObservedType
    <3> HIDE DEF row
    <3>5. RowUpTo(row, d)
      BY <3>3, ConstantsAssumption DEF RowUpTo, Dates
    <3> QED
      BY <1>3, <3>1, <3>3, <3>4, <3>5, RowAdvances
  <2>2. CASE ps[a].dir # dir
    <3>1. qs = Append(FinishedOn(ps, a, d), new)
      BY <1>3, <2>0, <2>2 DEF Continued, new
    <3>2. /\ Advances(ps, FinishedOn(ps, a, d), d)
          /\ \A i \in DOMAIN FinishedOn(ps, a, d) :
                FinishedOn(ps, a, d)[i].status = "closed"
      BY <1>3, LastFinished
    <3> QED
      BY <1>2, <3>1, <3>2
  <2> QED
    BY <2>1, <2>2
<1>4. CASE /\ s = Len(ps) /\ s \in DOMAIN ps /\ ps[s].status = "suppressed" /\ a = 0
  <2>0. /\ s # 0 /\ ps[s] \in Period /\ RowOK(ps[s]) /\ RowUpTo(ps[s], d)
        /\ ps[s].last <= d
    BY <1>4 DEF TableOK, TableUpTo, RowUpTo
  <2>1. CASE ps[s].dir = dir /\ d > ps[s].last
    <3> DEFINE row == Bumped(ps[s], d)
    <3>1. qs = [ps EXCEPT ![s] = row]
      BY <2>0, <2>1 DEF Continued
    <3>2. /\ RowOK(row) /\ Follows(ps[s], row) /\ row.last = d
          /\ row.status = ps[s].status
      BY <1>4, <2>0, <2>1, BumpedOK DEF Dates, Period, Date
    <3>3. row \in Period
      BY <2>0, BumpedType
    <3> HIDE DEF row
    <3>4. RowUpTo(row, d)
      BY <1>4, <3>2, ConstantsAssumption DEF RowUpTo, Dates
    <3> QED
      BY <1>4, <3>1, <3>2, <3>3, <3>4, RowAdvances
  <2>2. CASE ps[s].dir = dir /\ ~(d > ps[s].last)
    <3>1. qs = ps
      BY <2>0, <2>2 DEF Continued
    <3> QED
      BY <3>1, AdvancesItself
  <2>3. CASE ps[s].dir # dir
    <3>1. qs = Append(Finished(ps, s), new)
      BY <1>4, <2>0, <2>3 DEF Continued, new
    <3>2. ps[s].dir = "long"
      BY <1>4, <2>0 DEF RowOK, StatusOK, Period
    <3>3. market[d].signal \in {"none", "short"}
      BY <2>3, <3>2 DEF Direction
    <3>4. /\ Advances(ps, Finished(ps, s), d)
          /\ \A i \in DOMAIN Finished(ps, s) : Finished(ps, s)[i].status = "closed"
      BY <1>4, <3>3, LastFinished
    <3> QED
      BY <1>2, <3>1, <3>4
  <2> QED
    BY <2>1, <2>2, <2>3
<1>5. CASE a = 0 /\ s = 0 /\ \A i \in DOMAIN ps : ps[i].status = "closed"
  <2>1. qs = Append(ps, new)
    BY <1>5 DEF Continued, new
  <2> QED
    BY <1>2, <1>5, <2>1, AdvancesItself
<1> QED
  BY <1>3, <1>4, <1>5, RowsRead

\* A sync that writes the rows it has read.
LEMMA SyncAdvances ==
    ASSUME NEW ps \in Seq(Period), TableOK(ps), NEW d \in Dates, TableUpTo(ps, d),
           NEW sig \in Signals, sig = market[d].signal,
           NEW price \in Quote, PriceOf(price, d),
           NEW qs \in SyncResults(ps, ps, ps, d, sig, price)
    PROVE  Advances(ps, qs, d)
<1>1. PICK a \in ReadId(ps, "active"), s \in ReadId(ps, "suppressed") :
         qs = IF sig = "none" THEN Ended(ps, ps, a, s, d)
                              ELSE Continued(ps, ps, ps, a, s, d, sig, price)
  BY DEF SyncResults
<1>2. CASE sig = "none"
  BY <1>1, <1>2, EndedAdvances
<1>3. CASE sig # "none"
  BY <1>1, <1>3, ContinuedAdvances
<1> QED
  BY <1>2, <1>3

-----------------------------------------------------------------------------
(* The tables and the handler that is at work on them *)

\* The last candle that the handler knows of; a manual close reads none, and is dated
\* after all there are.
RunDay(q, latest) == IF q.kind = "manual" THEN latest ELSE q.date

Dated(q) ==
    q.at # "idle" =>
        /\ RunDay(q, Latest) \in 1..Latest
        /\ q.kind = "manual" => q.date > Latest
        /\ \A i \in DOMAIN q.todo : q.todo[i] = "manual" <=> q.kind = "manual"

\* No row of ps is later than the handler's own candles, and what it has read is ps.
Reading(q, ps) ==
    q.at # "idle" =>
        /\ TableUpTo(ps, RunDay(q, Latest))
        /\ q.at # "ensure" => \A i \in DOMAIN ps : Ready(ps[i])
        /\ q.at = "suppressed" => q.seenActive = ps
        /\ q.at = "write" /\ Head(q.todo) \in {"sync", "snapshot"} => q.seenActive = ps
        /\ q.at = "write" /\ Head(q.todo) = "sync" => q.seenSuppressed = ps

JournalOK ==
    \A i \in DOMAIN journal :
        /\ i \in DOMAIN periods /\ Journalable(periods[i])
        /\ journal[i] = TradeOf(periods[i])

Orderly ==
    /\ TableOK(periods) /\ TableUpTo(periods, Latest) /\ JournalOK
    /\ \A w \in Workers : Reading(proc[w], periods)

\* The table as an old version left it, until the first check of the schema repairs it.
FalselyExited ==
    /\ \E r \in FalseExits : periods = <<r>>
    /\ DOMAIN journal = {}
    /\ \A w \in Workers : proc[w].at \in {"idle", "ensure"}

SeqInv ==
    /\ \A w \in Workers : Dated(proc[w])
    /\ Orderly \/ FalselyExited

LEMMA UpToLater ==
    ASSUME NEW ps \in Seq(Period), NEW c \in Int, NEW e \in Int, c <= e, TableUpTo(ps, c)
    PROVE  TableUpTo(ps, e)
<1> SUFFICES ASSUME NEW i \in DOMAIN ps PROVE RowUpTo(ps[i], e)
  BY DEF TableUpTo
<1>1. ps[i] \in Period
  OBVIOUS
<1>2. ps[i].last \in Int
  BY <1>1, ConstantsAssumption DEF Period, Date
<1>3. RowUpTo(ps[i], c)
  BY DEF TableUpTo
<1> QED
  BY <1>2, <1>3 DEF RowUpTo, Gap

LEMMA IdleReads == ASSUME NEW ps PROVE Dated(Idle) /\ Reading(Idle, ps)
BY DEF Dated, Reading, Idle

\* The handler goes on with q, and the tables are as they were.
LEMMA SeqMoved ==
    ASSUME Sequential, IInv, Orderly, NEW w \in Workers, market' = market,
           UNCHANGED <<periods, journal>>, NEW q, proc' = [proc EXCEPT ![w] = q],
           Dated(q), Reading(q, periods)
    PROVE  SeqInv'
<1>1. \A v \in Workers : proc'[v] = q
  BY DEF Sequential, IInv, ProcsOK
<1>2. (\A v \in Workers : Dated(proc[v]) /\ Reading(proc[v], periods))'
  BY <1>1 DEF Dated, Reading, TableUpTo, RowUpTo, Gap, Latest
<1>3. TableOK(periods)' /\ TableUpTo(periods, Latest)'
  BY DEF Orderly, TableOK, TableUpTo, RowUpTo, Gap, Latest
<1>4. JournalOK'
  BY DEF Orderly, JournalOK
<1> QED
  BY <1>2, <1>3, <1>4 DEF SeqInv, Orderly

\* The journal after a commit: old trades are those of rows that kept them.
LEMMA JournalAdvances ==
    ASSUME periods \in Seq(Period), JournalOK, NEW ps, NEW c, Advances(periods, ps, c),
           periods' = ps, journal' = Appended(ps)
    PROVE  JournalOK'
<1> DEFINE Done == {k \in DOMAIN ps : Journalable(ps[k])}
<1>1. /\ DOMAIN journal' = DOMAIN journal \cup Done
      /\ \A i \in DOMAIN journal' :
            journal'[i] = IF i \in DOMAIN journal THEN journal[i] ELSE TradeOf(ps[i])
  BY DEF Appended
<1>2. DOMAIN periods \subseteq DOMAIN ps /\ \A i \in DOMAIN periods : Follows(periods[i], ps[i])
  BY DEF Advances
<1>3. ASSUME NEW i \in DOMAIN journal'
      PROVE  i \in DOMAIN ps /\ Journalable(ps[i]) /\ journal'[i] = TradeOf(ps[i])
  <2>1. CASE i \in DOMAIN journal
    BY <1>1, <1>2, <2>1 DEF JournalOK, Follows
  <2>2. CASE i \notin DOMAIN journal
    BY <1>1, <1>3, <2>2
  <2> QED
    BY <2>1, <2>2
<1> QED
  BY <1>3 DEF JournalOK

\* The handler commits rows that advance the table, or its transaction is rolled back.
LEMMA SeqCommitted ==
    ASSUME Sequential, IInv, Orderly, NEW w \in Workers, proc[w].at # "idle",
           Dated(proc[w]), market' = market, NEW ps,
           Advances(periods, ps, RunDay(proc[w], Latest)), NEW q, Dated(q), Reading(q, ps),
           CommitPeriods(w, ps, q)
    PROVE  SeqInv'
<1>1. CASE /\ periods' = ps /\ journal' = Appended(ps)
           /\ proc' = [proc EXCEPT ![w] = q]
  <2>1. \A v \in Workers : proc'[v] = q
    BY <1>1 DEF Sequential, IInv, ProcsOK
  <2>2. (\A v \in Workers : Dated(proc[v]) /\ Reading(proc[v], periods))'
    BY <1>1, <2>1 DEF Dated, Reading, TableUpTo, RowUpTo, Gap, Latest
  <2>3. ps \in Seq(Period) /\ TableOK(ps) /\ TableUpTo(ps, RunDay(proc[w], Latest))
    BY DEF Advances
  <2>4. TableUpTo(ps, Latest)
    <3>1. RunDay(proc[w], Latest) \in 1..Latest /\ Latest \in Nat
      BY DEF Dated, Latest, IInv, MarketOK
    <3>2. RunDay(proc[w], Latest) \in Int /\ Latest \in Int /\ RunDay(proc[w], Latest) <= Latest
      BY <3>1
    <3> QED
      BY <2>3, <3>2, UpToLater
  <2>5. TableOK(periods)' /\ TableUpTo(periods, Latest)'
    BY <1>1, <2>3, <2>4 DEF TableOK, TableUpTo, RowUpTo, Gap, Latest
  <2>6. JournalOK'
    BY <1>1, JournalAdvances DEF Orderly, IInv, TablesOK
  <2> QED
    BY <2>2, <2>5, <2>6 DEF SeqInv, Orderly
<1>2. CASE proc' = [proc EXCEPT ![w] = Idle] /\ UNCHANGED <<periods, journal>>
  BY <1>2, IdleReads, SeqMoved
<1> QED
  BY <1>1, <1>2 DEF CommitPeriods

\* The next phase of a handler has the date of the last one.
LEMMA NextPhaseReads ==
    ASSUME IInv, NEW w \in Workers, proc[w].at # "idle", Dated(proc[w]), NEW ps,
           TableUpTo(ps, RunDay(proc[w], Latest))
    PROVE  Dated(NextPhase(w)) /\ Reading(NextPhase(w), ps)
<1>1. CASE Tail1(w) = <<>>
  BY <1>1, IdleReads DEF NextPhase
<1>2. CASE Tail1(w) # <<>>
  <2>1. /\ proc[w] \in Proc /\ proc[w].todo \in Seq(Phases) /\ proc[w].todo # <<>>
    BY DEF IInv, ProcsOK, WorkersOK, WorkerOK, Proc
  <2>2. /\ NextPhase(w).at = "ensure" /\ NextPhase(w).todo = Tail(proc[w].todo)
        /\ NextPhase(w).kind = proc[w].kind /\ NextPhase(w).date = proc[w].date
    BY <1>2, <2>1 DEF NextPhase, Proc, Tail1
  <2>3. \A i \in DOMAIN Tail(proc[w].todo) :
           i + 1 \in DOMAIN proc[w].todo /\ Tail(proc[w].todo)[i] = proc[w].todo[i + 1]
    BY <2>1
  <2> QED
    BY <2>2, <2>3 DEF Dated, Reading, RunDay
<1> QED
  BY <1>1, <1>2

LEMMA RunDayFacts ==
    ASSUME IInv, NEW w \in Workers, proc[w].at # "idle", Dated(proc[w])
    PROVE  /\ RunDay(proc[w], Latest) \in Dates /\ RunDay(proc[w], Latest) \in 0..Latest
           /\ Latest \in 0..MaxDate
           /\ Handler(w) = "manual" <=> proc[w].kind = "manual"
           /\ IF Handler(w) = "manual" THEN RunDay(proc[w], Latest) < proc[w].date
                                       ELSE RunDay(proc[w], Latest) = proc[w].date
<1>1. /\ proc[w] \in Proc /\ proc[w].todo \in Seq(Phases) /\ proc[w].todo # <<>>
      /\ proc[w].date \in Int
  BY ConstantsAssumption DEF IInv, ProcsOK, WorkersOK, WorkerOK, Proc, Date
<1>2. Latest \in 0..MaxDate
  BY ConstantsAssumption DEF IInv, MarketOK, Latest
<1>3. RunDay(proc[w], Latest) \in Dates /\ RunDay(proc[w], Latest) \in 0..Latest
  BY <1>2, ConstantsAssumption DEF Dated, Dates
<1>4. Handler(w) = proc[w].todo[1] /\ 1 \in DOMAIN proc[w].todo
  BY <1>1 DEF Handler
<1>5. Handler(w) = "manual" <=> proc[w].kind = "manual"
  BY <1>4 DEF Dated
<1>6. IF Handler(w) = "manual" THEN RunDay(proc[w], Latest) < proc[w].date
                               ELSE RunDay(proc[w], Latest) = proc[w].date
  BY <1>1, <1>2, <1>5 DEF RunDay, Dated
<1> QED
  BY <1>2, <1>3, <1>5, <1>6

\* The repair of the false exit gives a table in order.
LEMMA FalseExitAdvances ==
    ASSUME Latest \in 0..MaxDate, NEW c \in Dates, NEW r \in FalseExits
    PROVE  LET ps == Ensured(<<r>>)
           IN  /\ ps \in Seq(Period) /\ TableOK(ps) /\ TableUpTo(ps, c)
               /\ \A i \in DOMAIN ps : Ready(ps[i]) /\ ~Journalable(ps[i])
<1> DEFINE u == Repaired(EntryFrozen(Backfilled(r)))
           ps == Ensured(<<r>>)
<1>1. /\ r \in Period /\ r.dir = "long" /\ r.status = "suppressed" /\ r.obs = 1
      /\ r.reason = "auto" /\ r.admitted = 1 /\ r.entry = 1
      /\ r.ended = 1 /\ r.first = 1 /\ r.last = 1
  BY FalseExitRows
<1>2. Backfilled(r) = r /\ EntryFrozen(r) = r
  BY <1>1 DEF Backfilled, EntryFrozen, Null
<1>3. u \in Period /\ Sound(u)
  BY <1>1, EnsuredRow, FalseExitRepaired
<1>4. /\ u.dir = "long" /\ u.first = 1 /\ u.last = 1 /\ u.obs = 1 /\ u.status = "active"
      /\ u.ended = Null /\ u.reason = "none" /\ u.admitted = 1 /\ u.entry = 1
      /\ u.exitDate = Null /\ u.exit = Null /\ u.exitReason = "none" /\ u.ret = NoReturn
  BY <1>1, <1>2 DEF Repaired, Coalesce, Period, Null
<1>5. ps = <<u>>
  BY DEF Ensured
<1> HIDE DEF u, ps
<1>6. DaysOK(u)
  BY <1>4, ConstantsAssumption DEF DaysOK, HorizonDate, Null, DateOf, Live
<1>7. RowOK(u) /\ Ready(u) /\ ~Journalable(u)
  BY <1>3, <1>4, <1>6 DEF RowOK, StatusOK, ReturnOK, Ready, Journalable, Null
<1>8. RowUpTo(u, c)
  BY <1>4, ConstantsAssumption DEF RowUpTo, Dates
<1>9. ps \in Seq(Period) /\ Len(ps) = 1 /\ DOMAIN ps = {1} /\ ps[1] = u
  BY <1>3, <1>5
<1>10. TableOK(ps) /\ TableUpTo(ps, c) /\ \A i \in DOMAIN ps : Ready(ps[i]) /\ ~Journalable(ps[i])
  BY <1>7, <1>8, <1>9 DEF TableOK, TableUpTo
<1> QED
  BY <1>9, <1>10 DEF ps

-----------------------------------------------------------------------------
(* Steps *)

\* Whoever is past its check of the schema finds the tables in order.
LEMMA OrderlyPastEnsure ==
    ASSUME SeqInv, NEW w \in Workers, proc[w].at \notin {"idle", "ensure"}
    PROVE  Orderly /\ Reading(proc[w], periods) /\ Dated(proc[w])
BY DEF SeqInv, FalselyExited, Orderly

LEMMA SeqInitially == Init => SeqInv
<1> SUFFICES ASSUME Init PROVE SeqInv
  OBVIOUS
<1>1. \A w \in Workers : proc[w] = Idle
  BY DEF Init
<1>2. \A w \in Workers : proc[w].at = "idle" /\ Dated(proc[w]) /\ Reading(proc[w], periods)
  BY <1>1, IdleReads DEF Idle
<1>3. DOMAIN journal = {}
  BY DEF Init
<1>4. CASE market = <<>> /\ periods = <<>>
  <2>1. TableOK(periods) /\ TableUpTo(periods, Latest)
    BY <1>4 DEF TableOK, TableUpTo
  <2> QED
    BY <1>2, <1>3, <2>1 DEF SeqInv, Orderly, JournalOK
<1>5. ASSUME NEW conf \in {"none", "low", "mid"}, periods = <<LegacyPeriod(conf)>>,
             Len(market) = 1
      PROVE  Orderly
  <2> DEFINE u == LegacyPeriod(conf)
             v == NewPeriod(1, "low", Null)
  <2>1. 1 \in Dates /\ "low" \in Signals /\ Null \in Quote /\ PriceOf(Null, 1)
    BY ConstantsAssumption, NullTypes DEF Dates, Signals, PriceOf
  <2>2. v \in Period /\ RowOK(v) /\ v.last = 1 /\ v.status = "active" /\ v.reason = "none"
    <3>1. v \in Period
      BY <2>1, NewPeriodType
    <3>2. RowOK(v) /\ v.last = 1 /\ v.status = "active" /\ v.reason = "none"
      BY <2>1, NewPeriodOK
    <3> QED
      BY <3>1, <3>2
  <2>3. v.exit = Null
    BY DEF NewPeriod
  <2> HIDE DEF v
  <2>4. u = [v EXCEPT !.conf = conf]
    BY DEF LegacyPeriod, v
  <2>5. /\ u.dir = v.dir /\ u.first = v.first /\ u.last = v.last /\ u.obs = v.obs
        /\ u.status = v.status /\ u.ended = v.ended /\ u.reason = v.reason
        /\ u.admitted = v.admitted /\ u.entry = v.entry /\ u.exitDate = v.exitDate
        /\ u.exit = v.exit /\ u.exitReason = v.exitReason /\ u.ret = v.ret
    BY <2>2, <2>4 DEF Period
  <2>6. periods = <<u>>
    BY <1>5
  <2> HIDE DEF u
  <2>7. Sound(u) /\ StatusOK(u)
    BY <2>2, <2>5 DEF RowOK, Sound, StatusOK
  <2>8. DaysOK(u)
    BY <2>2, <2>5 DEF RowOK, DaysOK, Daily, HorizonDate
  <2>9. ReturnOK(u)
    BY <2>2, <2>3, <2>5 DEF RowOK, ReturnOK
  <2>10. RowUpTo(u, Latest)
    BY <1>5, <2>2, <2>5 DEF RowUpTo, Latest
  <2>11. DOMAIN periods = {1} /\ Len(periods) = 1 /\ periods[1] = u
    BY <2>6
  <2>12. TableOK(periods) /\ TableUpTo(periods, Latest)
    BY <2>7, <2>8, <2>9, <2>10, <2>11 DEF RowOK, TableOK, TableUpTo
  <2> QED
    BY <1>2, <1>3, <2>12 DEF Orderly, JournalOK
<1>6. CASE periods \in {<<FalseExit>>, <<FalseExitFrozen>>}
  BY <1>2, <1>3, <1>6 DEF SeqInv, FalselyExited, FalseExits
<1>7. ASSUME NEW sig \in {"low", "mid"}, market = <<[signal |-> sig, pump |-> FALSE]>>,
             periods \in {<<LegacyPeriod("none")>>, <<LegacyPeriod(sig)>>}
      PROVE  Orderly
  <2>1. Len(market) = 1
    BY <1>7
  <2>2. PICK conf \in {"none", "low", "mid"} : periods = <<LegacyPeriod(conf)>>
    BY <1>7
  <2> QED
    BY <1>5, <2>1, <2>2
<1> QED
  BY <1>2, <1>4, <1>6, <1>7 DEF Init, SeqInv

LEMMA ActivatePricesSeq ==
    ASSUME IInv, SeqInv, ActivatePrices
    PROVE  SeqInv'
<1>1. \A w \in Workers : proc[w].kind = "manual" => Latest' < proc[w].date
  BY PricesActivated
<1>2. /\ Latest \in Nat /\ Latest' \in Nat /\ Latest <= Latest'
      /\ \A d \in 1..Latest : market'[d] = market[d]
  BY PricesActivated DEF IInv, MarketOK, Latest
<1>3. UNCHANGED <<periods, journal, proc>>
  BY DEF ActivatePrices
<1>4. ASSUME NEW w \in Workers PROVE Dated(proc[w])'
  <2>1. Dated(proc[w])
    BY DEF SeqInv
  <2> QED
    BY <1>1, <1>2, <1>3, <2>1 DEF Dated, RunDay
<1>5. CASE Orderly
  <2>1. ASSUME NEW i \in DOMAIN periods
        PROVE  /\ periods[i] \in Period /\ RowOK(periods[i])
               /\ periods[i].last \in Nat \ {0} /\ periods[i].first \in Nat
               /\ periods[i].first <= periods[i].last /\ periods[i].last <= Latest
    <3>1. periods[i] \in Period
      BY DEF IInv, TablesOK
    <3>2. RowOK(periods[i]) /\ periods[i].last <= Latest
      BY <1>5 DEF Orderly, TableOK, TableUpTo, RowUpTo
    <3>3. periods[i].last \in Nat /\ periods[i].first \in Nat /\ periods[i].obs \in Nat
      BY <3>1, ConstantsAssumption DEF Period, Date
    <3> QED
      BY <3>1, <3>2, <3>3 DEF RowOK, Sound, DaysOK
  <2>2. TableOK(periods)'
    <3>1. ASSUME NEW i \in DOMAIN periods, NEW j \in DOMAIN periods,
                 Gap(periods[i].last, periods[j].first)
          PROVE  Gap(periods[i].last, periods[j].first)'
      <4>1. periods[i].last \in Nat \ {0} /\ periods[j].first \in Int
            /\ periods[j].first <= Latest
        BY <1>2, <2>1
      <4> QED
        BY <1>2, <1>3, <3>1, <4>1 DEF Gap
    <3> QED
      BY <1>3, <1>5, <3>1 DEF Orderly, TableOK
  <2>3. ASSUME NEW i \in DOMAIN periods, NEW c \in 0..Latest, NEW e \in Int, c <= e,
               RowUpTo(periods[i], c)
        PROVE  /\ periods[i].last <= e
               /\ periods[i].status = "closed" /\ periods[i].reason # "none" =>
                     \E d \in periods[i].last .. e : market'[d].signal \in {"none", "short"}
    BY <1>2, <2>1, <2>3 DEF RowUpTo, Gap
  <2>4. TableUpTo(periods, Latest)'
    <3>1. \A i \in DOMAIN periods : RowUpTo(periods[i], Latest)
      BY <1>5 DEF Orderly, TableUpTo
    <3>2. Latest \in 0..Latest /\ Latest' \in Int /\ Latest <= Latest'
      BY <1>2
    <3>3. \A i \in DOMAIN periods :
             /\ periods[i].last <= Latest'
             /\ periods[i].status = "closed" /\ periods[i].reason # "none" =>
                   \E d \in periods[i].last .. Latest' :
                      market'[d].signal \in {"none", "short"}
      BY <2>3, <3>1, <3>2
    <3> QED
      BY <1>2, <1>3, <3>3 DEF TableUpTo, RowUpTo, Gap
  <2>5. ASSUME NEW w \in Workers PROVE Reading(proc[w], periods)'
    <3>1. Reading(proc[w], periods) /\ Dated(proc[w])
      BY <1>5 DEF Orderly, SeqInv
    <3>2. CASE proc[w].at = "idle"
      BY <1>3, <3>2 DEF Reading
    <3>3. CASE proc[w].at # "idle"
      <4> DEFINE day == RunDay(proc[w], Latest')
      <4>1. /\ RunDay(proc[w], Latest) \in 0..Latest /\ day \in Int
            /\ RunDay(proc[w], Latest) <= day
        BY <1>2, <3>1, <3>3 DEF Dated, RunDay
      <4>2. \A i \in DOMAIN periods : RowUpTo(periods[i], RunDay(proc[w], Latest))
        BY <3>1, <3>3 DEF Reading, TableUpTo
      <4> HIDE DEF day
      <4>3. \A i \in DOMAIN periods :
               /\ periods[i].last <= day
               /\ periods[i].status = "closed" /\ periods[i].reason # "none" =>
                     \E d \in periods[i].last .. day :
                        market'[d].signal \in {"none", "short"}
        BY <2>3, <4>1, <4>2
      <4>4. TableUpTo(periods, RunDay(proc[w], Latest))'
        BY <1>3, <4>3 DEF TableUpTo, RowUpTo, Gap, day
      <4> QED
        BY <1>3, <3>1, <3>3, <4>4 DEF Reading
    <3> QED
      BY <3>2, <3>3
  <2>6. JournalOK'
    BY <1>3, <1>5 DEF Orderly, JournalOK
  <2> QED
    BY <1>3, <1>4, <2>2, <2>4, <2>5, <2>6 DEF SeqInv, Orderly
<1>6. CASE FalselyExited
  BY <1>3, <1>4, <1>6 DEF SeqInv, FalselyExited
<1> QED
  BY <1>5, <1>6 DEF SeqInv

\* A worker that becomes idle, or begins, whatever the tables are.
LEMMA SeqRestarted ==
    ASSUME Sequential, IInv, SeqInv, NEW w \in Workers, market' = market,
           UNCHANGED <<periods, journal>>, NEW q, proc' = [proc EXCEPT ![w] = q],
           q.at \in {"idle", "ensure"}, Dated(q),
           q.at = "ensure" => RunDay(q, Latest) = Latest
    PROVE  SeqInv'
<1>1. CASE Orderly
  <2>1. Reading(q, periods)
    BY <1>1 DEF Orderly, Reading
  <2> QED
    BY <1>1, <2>1, SeqMoved
<1>2. CASE FalselyExited
  <2>1. \A v \in Workers : proc'[v] = q
    BY DEF Sequential, IInv, ProcsOK
  <2>2. (\A v \in Workers : Dated(proc[v]))'
    BY <2>1 DEF Dated, Latest
  <2> QED
    BY <1>2, <2>1, <2>2 DEF SeqInv, FalselyExited
<1> QED
  BY <1>1, <1>2 DEF SeqInv

LEMMA BeginSeq ==
    ASSUME Sequential, IInv, SeqInv, NEW w \in Workers, NEW k \in Kinds, Begin(w, k)
    PROVE  SeqInv'
<1> DEFINE q == [Idle EXCEPT !.kind = k, !.at = "ensure", !.todo = Program(k, Latest),
                             !.date = RunDate(k), !.fixed = corrected]
<1>1. /\ q.at = "ensure" /\ q.kind = k /\ q.todo = Program(k, Latest) /\ q.date = RunDate(k)
  BY DEF Idle
<1>2. proc' = [proc EXCEPT ![w] = q] /\ UNCHANGED <<market, periods, journal>>
  BY DEF Begin
<1>3. Latest \in Nat /\ Latest > 0 /\ k \in AllKinds
  BY ConstantsAssumption DEF Begin, Latest, IInv, MarketOK
<1>4. \A i \in DOMAIN Program(k, Latest) :
         Program(k, Latest)[i] = "manual" <=> k = "manual"
  <2>1. CASE k = "manual"
    <3>1. Program(k, Latest) = <<"manual">>
      BY <2>1 DEF Program
    <3> QED
      BY <2>1, <3>1
  <2>2. CASE k # "manual"
    <3>1. Program(k, Latest) \in
            {<<"autoclose", "sync", "snapshot">>, <<"snapshot", "sync", "snapshot">>,
             <<"sync", "snapshot">>, <<"sync">>, <<"snapshot">>}
      BY <1>3, <2>2 DEF Program, AllKinds
    <3> HIDE DEF Program
    <3>2. \A i \in DOMAIN Program(k, Latest) : Program(k, Latest)[i] # "manual"
      BY <3>1
    <3> QED
      BY <2>2, <3>2
  <2> QED
    BY <2>1, <2>2
<1> HIDE DEF q
<1>5. RunDay(q, Latest) = Latest
  BY <1>1, <1>3 DEF RunDay, RunDate
<1>6. Dated(q)
  BY <1>1, <1>3, <1>4, <1>5 DEF Dated, RunDate, IInv, MarketOK
<1> QED
  BY <1>1, <1>2, <1>5, <1>6, SeqRestarted

LEMMA CrashSeq ==
    ASSUME Sequential, IInv, SeqInv, NEW w \in Workers, Crash(w)
    PROVE  SeqInv'
<1>1. Dated(Idle) /\ Idle.at = "idle"
  BY IdleReads DEF Idle
<1> QED
  BY <1>1, SeqRestarted DEF Crash

LEMMA EnsureSchemaSeq ==
    ASSUME Sequential, IInv, SeqInv, NEW w \in Workers, EnsureSchema(w)
    PROVE  SeqInv'
<1> DEFINE q == [proc[w] EXCEPT !.at = IF Handler(w) \in {"autoclose", "manual"}
                                       THEN "write" ELSE "active"]
           ps == Ensured(periods)
<1>1. /\ proc[w] \in Proc /\ proc[w].at = "ensure" /\ market' = market
      /\ CommitPeriods(w, ps, q) /\ periods \in Seq(Period)
  BY AtFacts DEF EnsureSchema, IInv, TablesOK
<1>2. Dated(proc[w])
  BY DEF SeqInv
<1>3. /\ RunDay(proc[w], Latest) \in Dates /\ RunDay(proc[w], Latest) \in 0..Latest /\ Latest \in 0..MaxDate
  BY <1>1, <1>2, RunDayFacts
<1>4. /\ q.at = (IF Handler(w) \in {"autoclose", "manual"} THEN "write" ELSE "active")
      /\ q.kind = proc[w].kind /\ q.todo = proc[w].todo /\ q.date = proc[w].date
  BY <1>1 DEF Proc
<1> HIDE DEF q, ps
<1>5. RunDay(q, Latest) = RunDay(proc[w], Latest) /\ Head(q.todo) = Handler(w)
  BY <1>4 DEF RunDay, Handler
<1>6. Dated(q)
  BY <1>1, <1>2, <1>4, <1>5 DEF Dated
<1>7. ASSUME TableUpTo(ps, RunDay(proc[w], Latest)), \A i \in DOMAIN ps : Ready(ps[i])
      PROVE  Reading(q, ps)
  BY <1>4, <1>5, <1>7 DEF Reading
<1>8. CASE Orderly
  <2>1. TableOK(periods) /\ TableUpTo(periods, RunDay(proc[w], Latest))
    BY <1>1, <1>8 DEF Orderly, Reading
  <2>2. Advances(periods, ps, RunDay(proc[w], Latest)) /\ \A i \in DOMAIN ps : Ready(ps[i])
    BY <1>1, <1>3, <2>1, EnsuredAdvances DEF ps
  <2>3. Reading(q, ps)
    BY <1>7, <2>2 DEF Advances
  <2> QED
    BY <1>1, <1>2, <1>6, <1>8, <2>2, <2>3, SeqCommitted
<1>9. CASE FalselyExited
  <2>1. /\ ps \in Seq(Period) /\ TableOK(ps)
        /\ TableUpTo(ps, RunDay(proc[w], Latest)) /\ TableUpTo(ps, Latest)
        /\ \A i \in DOMAIN ps : Ready(ps[i]) /\ ~Journalable(ps[i])
    <3>1. PICK r \in FalseExits : periods = <<r>>
      BY <1>9 DEF FalselyExited
    <3>2. /\ ps \in Seq(Period) /\ TableOK(ps) /\ TableUpTo(ps, RunDay(proc[w], Latest))
          /\ \A i \in DOMAIN ps : Ready(ps[i]) /\ ~Journalable(ps[i])
      BY <1>3, <3>1, FalseExitAdvances DEF ps
    <3>3. RunDay(proc[w], Latest) \in Int /\ Latest \in Int /\ RunDay(proc[w], Latest) <= Latest
      BY <1>3
    <3> QED
      BY <3>2, <3>3, UpToLater
  <2>2. CASE periods' = ps /\ journal' = Appended(ps) /\ proc' = [proc EXCEPT ![w] = q]
    <3>1. \A v \in Workers : proc'[v] = q
      BY <2>2 DEF Sequential, IInv, ProcsOK
    <3>2. Reading(q, ps)
      BY <1>7, <2>1
    <3>3. (\A v \in Workers : Dated(proc[v]) /\ Reading(proc[v], periods))'
      BY <1>1, <1>6, <2>2, <3>1, <3>2
         DEF Dated, Reading, TableUpTo, RowUpTo, Gap, Latest
    <3>4. DOMAIN journal' = {}
      BY <1>9, <2>1, <2>2 DEF Appended, FalselyExited
    <3>5. TableOK(periods)' /\ TableUpTo(periods, Latest)'
      BY <1>1, <2>1, <2>2 DEF TableOK, TableUpTo, RowUpTo, Gap, Latest
    <3> QED
      BY <3>3, <3>4, <3>5 DEF SeqInv, Orderly, JournalOK
  <2>3. CASE proc' = [proc EXCEPT ![w] = Idle] /\ UNCHANGED <<periods, journal>>
    <3>1. Dated(Idle) /\ Idle.at = "idle"
      BY IdleReads DEF Idle
    <3> QED
      BY <1>1, <2>3, <3>1, SeqRestarted
  <2> QED
    BY <1>1, <2>2, <2>3 DEF CommitPeriods
<1> QED
  BY <1>8, <1>9 DEF SeqInv

LEMMA ClosePositionSeq ==
    ASSUME Sequential, IInv, SeqInv, NEW w \in Workers, ClosePosition(w)
    PROVE  SeqInv'
<1> DEFINE reason == IF Handler(w) = "manual" THEN "manual" ELSE "auto"
           quote  == IF Handler(w) = "manual" THEN Live
                     ELSE Close(proc[w].date, proc[w].fixed)
           ps == ClosedPositions(periods, proc[w].date, quote, reason)
           c == RunDay(proc[w], Latest)
<1>1. /\ proc[w] \in Proc /\ proc[w].at = "write" /\ market' = market
      /\ periods \in Seq(Period)
  BY AtFacts DEF ClosePosition, IInv, TablesOK
<1>2. Orderly /\ Reading(proc[w], periods) /\ Dated(proc[w])
  BY <1>1, OrderlyPastEnsure
<1>3. /\ TableOK(periods) /\ TableUpTo(periods, c) /\ \A i \in DOMAIN periods : Ready(periods[i])
  BY <1>1, <1>2 DEF Orderly, Reading
<1>4. /\ c \in Dates /\ c \in Nat
      /\ IF Handler(w) = "manual" THEN c < proc[w].date ELSE proc[w].date = c
  BY <1>1, <1>2, RunDayFacts, ConstantsAssumption DEF Dates
<1>5. /\ proc[w].date \in Date /\ reason \in {"manual", "auto"} /\ quote \in Quote
      /\ IF reason = "manual" THEN c < proc[w].date ELSE proc[w].date = c
      /\ QuoteOfClose(quote, proc[w].date, reason)
  BY <1>1, <1>4, CloseType DEF Proc, Quote, QuoteOfClose
<1>6. \/ ps = periods /\ proc' = [proc EXCEPT ![w] = NextPhase(w)]
                      /\ UNCHANGED <<periods, journal>>
      \/ CommitPeriods(w, ps, NextPhase(w))
  BY DEF ClosePosition
<1> HIDE DEF c, reason, quote
<1>7. Advances(periods, ps, c)
  BY <1>1, <1>3, <1>4, <1>5, ClosedAdvances
<1> HIDE DEF ps
<1>8. TableUpTo(ps, c)
  BY <1>7 DEF Advances
<1>9. Dated(NextPhase(w)) /\ Reading(NextPhase(w), ps)
  BY <1>1, <1>2, <1>8, NextPhaseReads DEF c
<1>10. CASE ps = periods /\ proc' = [proc EXCEPT ![w] = NextPhase(w)]
                        /\ UNCHANGED <<periods, journal>>
  BY <1>1, <1>2, <1>9, <1>10, SeqMoved
<1>11. CASE CommitPeriods(w, ps, NextPhase(w))
  BY <1>1, <1>2, <1>7, <1>9, <1>11, SeqCommitted DEF c
<1> QED
  BY <1>6, <1>10, <1>11

LEMMA ReadSeq ==
    ASSUME Sequential, IInv, SeqInv, NEW w \in Workers, ReadActive(w) \/ ReadSuppressed(w)
    PROVE  SeqInv'
<1> DEFINE qa == [proc[w] EXCEPT !.seenActive = periods,
                                 !.at = IF Handler(w) = "sync" THEN "suppressed" ELSE "write"]
           qs == [proc[w] EXCEPT !.seenSuppressed = periods, !.at = "write"]
<1>1. /\ proc[w] \in Proc /\ proc[w].at \in {"active", "suppressed"} /\ market' = market
      /\ UNCHANGED <<periods, journal>>
  BY AtFacts DEF ReadActive, ReadSuppressed
<1>2. Orderly /\ Reading(proc[w], periods) /\ Dated(proc[w])
  BY <1>1, OrderlyPastEnsure
<1>3. CASE ReadActive(w)
  <2>1. proc[w].at = "active" /\ Handler(w) \in {"sync", "snapshot"}
    BY <1>3, AtFacts DEF ReadActive
  <2>2. /\ qa.at = (IF Handler(w) = "sync" THEN "suppressed" ELSE "write")
        /\ qa.kind = proc[w].kind /\ qa.todo = proc[w].todo /\ qa.date = proc[w].date
        /\ qa.seenActive = periods
    BY <1>1 DEF Proc
  <2>3. proc' = [proc EXCEPT ![w] = qa]
    BY <1>1, <1>3 DEF ReadActive, IInv, ProcsOK, Proc
  <2> HIDE DEF qa
  <2>4. Dated(qa)
    BY <1>1, <1>2, <2>2 DEF Dated, RunDay
  <2>5. Reading(qa, periods)
    BY <1>1, <1>2, <2>1, <2>2 DEF Reading, RunDay, Handler
  <2> QED
    BY <1>1, <1>2, <2>3, <2>4, <2>5, SeqMoved
<1>4. CASE ReadSuppressed(w)
  <2>1. proc[w].at = "suppressed" /\ Handler(w) = "sync"
    BY <1>4, AtFacts DEF ReadSuppressed
  <2>2. /\ qs.at = "write" /\ qs.kind = proc[w].kind /\ qs.todo = proc[w].todo
        /\ qs.date = proc[w].date /\ qs.seenActive = proc[w].seenActive
        /\ qs.seenSuppressed = periods
    BY <1>1 DEF Proc
  <2>3. proc' = [proc EXCEPT ![w] = qs]
    BY <1>1, <1>4 DEF ReadSuppressed, IInv, ProcsOK, Proc
  <2> HIDE DEF qs
  <2>4. Dated(qs)
    BY <1>1, <1>2, <2>2 DEF Dated, RunDay
  <2>5. Reading(qs, periods)
    BY <1>1, <1>2, <2>1, <2>2 DEF Reading, RunDay, Handler
  <2> QED
    BY <1>1, <1>2, <2>3, <2>4, <2>5, SeqMoved
<1> QED
  BY <1>3, <1>4

LEMMA WriteSyncSeq ==
    ASSUME Sequential, IInv, SeqInv, NEW w \in Workers, WriteSync(w)
    PROVE  SeqInv'
<1> DEFINE d == proc[w].date
           sig == market[d].signal
<1>1. /\ proc[w] \in Proc /\ proc[w].at = "write" /\ Handler(w) = "sync" /\ market' = market
      /\ periods \in Seq(Period) /\ d \in Dates /\ d \in 1..Latest
  BY AtFacts DEF WriteSync, IInv, TablesOK
<1>2. Orderly /\ Reading(proc[w], periods) /\ Dated(proc[w])
  BY <1>1, OrderlyPastEnsure
<1>3. /\ TableOK(periods) /\ TableUpTo(periods, RunDay(proc[w], Latest))
      /\ proc[w].seenActive = periods /\ proc[w].seenSuppressed = periods
  BY <1>1, <1>2 DEF Orderly, Reading, Handler
<1>4. RunDay(proc[w], Latest) = d
  BY <1>1, <1>2, RunDayFacts
<1>5. sig \in Signals /\ CurrentPrice(w) \in Quote /\ PriceOf(CurrentPrice(w), d)
  BY <1>1, SignalRead, CloseType, NullTypes DEF CurrentPrice, PriceOf
<1>6. PICK ps \in SyncResults(periods, periods, periods, d, sig, CurrentPrice(w)) :
         CommitPeriods(w, ps, NextPhase(w))
  BY <1>3 DEF WriteSync
<1>7. Advances(periods, ps, d)
  <2> DEFINE price == CurrentPrice(w)
  <2>1. /\ price \in Quote /\ PriceOf(price, d)
        /\ ps \in SyncResults(periods, periods, periods, d, sig, price)
    BY <1>5, <1>6
  <2> HIDE DEF price
  <2> QED
    BY <1>1, <1>3, <1>4, <1>5, <2>1, SyncAdvances
<1>8. TableUpTo(ps, RunDay(proc[w], Latest))
  BY <1>4, <1>7 DEF Advances
<1>9. Dated(NextPhase(w)) /\ Reading(NextPhase(w), ps)
  BY <1>1, <1>2, <1>8, NextPhaseReads
<1> QED
  BY <1>1, <1>2, <1>4, <1>6, <1>7, <1>9, SeqCommitted

LEMMA WriteSnapshotSeq ==
    ASSUME Sequential, IInv, SeqInv, NEW w \in Workers, WriteSnapshot(w)
    PROVE  SeqInv'
<1> DEFINE d == proc[w].date
           ps == SnapshotResult(periods, periods, d, proc[w].fixed)
<1>1. /\ proc[w] \in Proc /\ proc[w].at = "write" /\ Handler(w) = "snapshot"
      /\ market' = market /\ periods \in Seq(Period) /\ d \in Dates
  BY AtFacts DEF WriteSnapshot, IInv, TablesOK
<1>2. Orderly /\ Reading(proc[w], periods) /\ Dated(proc[w])
  BY <1>1, OrderlyPastEnsure
<1>3. /\ TableOK(periods) /\ TableUpTo(periods, RunDay(proc[w], Latest))
      /\ proc[w].seenActive = periods /\ \A i \in DOMAIN periods : Ready(periods[i])
  BY <1>1, <1>2 DEF Orderly, Reading, Handler
<1>4. RunDay(proc[w], Latest) = d
  BY <1>1, <1>2, RunDayFacts
<1>5. CommitPeriods(w, ps, NextPhase(w))
  BY <1>3 DEF WriteSnapshot
<1>6. Advances(periods, ps, d)
  BY <1>1, <1>3, <1>4, SnapshotAdvances
<1> HIDE DEF ps
<1>7. TableUpTo(ps, RunDay(proc[w], Latest))
  BY <1>4, <1>6 DEF Advances
<1>8. Dated(NextPhase(w)) /\ Reading(NextPhase(w), ps)
  BY <1>1, <1>2, <1>7, NextPhaseReads
<1> QED
  BY <1>1, <1>2, <1>4, <1>5, <1>6, <1>8, SeqCommitted

LEMMA SeqSteps ==
    ASSUME Sequential, IInv, SeqInv, [Next]_vars
    PROVE  SeqInv'
<1>1. CASE ActivatePrices
  BY <1>1, ActivatePricesSeq
<1>2. ASSUME NEW w \in Workers, NEW k \in Kinds, Begin(w, k) PROVE SeqInv'
  BY <1>2, BeginSeq
<1>3. ASSUME NEW w \in Workers, Step(w) PROVE SeqInv'
  BY <1>3, EnsureSchemaSeq, ClosePositionSeq, ReadSeq, WriteSyncSeq, WriteSnapshotSeq
     DEF Step
<1>4. ASSUME NEW w \in Workers, Crash(w) PROVE SeqInv'
  BY <1>4, CrashSeq
<1>5. CASE NewDay \/ UNCHANGED vars
  BY <1>5 DEF NewDay, vars, SeqInv, Orderly, FalselyExited, JournalOK, Dated, Reading, TableOK,
              TableUpTo, RowUpTo, Gap, Latest
<1> QED
  BY <1>1, <1>2, <1>3, <1>4, <1>5 DEF Next

LEMMA SeqInvariance ==
    ASSUME Sequential
    PROVE  Spec => []SeqInv
<1>1. Init => SeqInv
  BY SeqInitially
<1>2. IInv /\ SeqInv /\ [Next]_vars => SeqInv'
  BY SeqSteps
<1> QED
  BY <1>1, <1>2, Invariance, PTL DEF Spec

-----------------------------------------------------------------------------
(* Theorems *)

\* A row of the table is in order, or it is the one that is about to be repaired.
LEMMA RowsOfTable ==
    ASSUME IInv, SeqInv, NEW i \in DOMAIN periods
    PROVE  /\ periods[i] \in Period
           /\ RowOK(periods[i]) \/ periods[i] \in FalseExits
<1>1. periods[i] \in Period
  BY DEF IInv, TablesOK
<1>2. Orderly => RowOK(periods[i])
  BY DEF Orderly, TableOK
<1>3. FalselyExited => periods[i] \in FalseExits
  BY DEF FalselyExited
<1> QED
  BY <1>1, <1>2, <1>3 DEF SeqInv

\* "Advance scanner periods once per unique market data date": with one handler at a time,
\* whatever is run, however often and in whatever order, and whichever runs die half way, a
\* period counts no data date twice.
THEOREM EachDateCountedOnce ==
    ASSUME Sequential
    PROVE  Spec => []ObservedOncePerDate
<1>1. IInv /\ SeqInv => ObservedOncePerDate
  <2> SUFFICES ASSUME IInv, SeqInv, NEW i \in DOMAIN periods
               PROVE  periods[i].obs <= periods[i].last - periods[i].first + 1
    BY DEF ObservedOncePerDate
  <2> QED
    BY RowsOfTable, FalseExitRows DEF RowOK, DaysOK
<1> QED
  BY <1>1, SeqInvariance, Invariance, PTL

\* The frozen entry of a position is the close of the day it was admitted on, and its frozen
\* exit the close of the day it is dated with, unless it was sold at the live quote.
THEOREM QuotesAreOfTheirDates ==
    ASSUME Sequential
    PROVE  Spec => []QuotesMatchDates
<1>1. IInv /\ SeqInv => QuotesMatchDates
  <2> SUFFICES ASSUME IInv, SeqInv, NEW i \in DOMAIN periods
               PROVE  LET r == periods[i] IN
                      /\ r.entry # Null => DateOf(r.entry) = r.admitted
                      /\ r.exit # Null =>
                            IF r.exitReason = "manual" THEN r.exit = Live
                                                       ELSE DateOf(r.exit) = r.exitDate
    BY DEF QuotesMatchDates
  <2>1. CASE RowOK(periods[i])
    BY <2>1 DEF RowOK, Sound, WholeExit, DaysOK
  <2>2. CASE periods[i] \in FalseExits
    BY <2>2, FalseExitRows DEF DateOf, Live
  <2> QED
    BY <2>1, <2>2, RowsOfTable
<1> QED
  BY <1>1, SeqInvariance, Invariance, PTL

\* "All exit fields frozen together": no close, snapshot or repair leaves a period with part
\* of an exit, or a position with a return that is not the one between its own two prices.
THEOREM ExitsFrozenTogether ==
    ASSUME Sequential
    PROVE  Spec => []ExitFrozenTogether
<1>1. IInv /\ SeqInv => ExitFrozenTogether
  <2> SUFFICES ASSUME IInv, SeqInv, NEW i \in DOMAIN periods
               PROVE  LET r == periods[i] IN
                      IF r.exit = Null
                      THEN r.exitDate = Null /\ r.exitReason = "none" /\ r.ret = NoReturn
                      ELSE /\ r.exitDate # Null /\ r.exitReason # "none"
                           /\ r.admitted # Null => r.ret = <<r.entry, r.exit>>
    BY DEF ExitFrozenTogether
  <2>1. CASE RowOK(periods[i])
    BY <2>1 DEF RowOK, Sound, WholeExit, ReturnOK
  <2>2. CASE periods[i] \in FalseExits
    BY <2>2, FalseExitRows
  <2> QED
    BY <2>1, <2>2, RowsOfTable
<1> QED
  BY <1>1, SeqInvariance, Invariance, PTL

\* A journal trade is never rewritten, and the period it was made from never moves away from
\* it either: no repair, close, sync or snapshot changes a completed position.
THEOREM JournalAgrees ==
    ASSUME Sequential
    PROVE  Spec => []JournalMatchesPeriods
<1>1. SeqInv => JournalMatchesPeriods
  BY DEF SeqInv, Orderly, JournalOK, FalselyExited, JournalMatchesPeriods
<1> QED
  BY <1>1, SeqInvariance, PTL

\* A position that was followed on every data date does not close before the day it opened
\* on: it is not admitted after the candle its horizon ends with.
THEOREM DailyExitsAreLater ==
    ASSUME Sequential
    PROVE  Spec => []ExitNotBeforeEntryIfDaily
<1>1. IInv /\ SeqInv => ExitNotBeforeEntryIfDaily
  <2> SUFFICES ASSUME IInv, SeqInv, NEW i \in DOMAIN periods,
                      periods[i].admitted # Null, periods[i].exit # Null,
                      periods[i].obs = periods[i].last - periods[i].first + 1
               PROVE  periods[i].admitted <= periods[i].exitDate
    BY DEF ExitNotBeforeEntryIfDaily
  <2>1. CASE RowOK(periods[i])
    BY <2>1 DEF RowOK, DaysOK, Daily
  <2>2. CASE periods[i] \in FalseExits
    BY <2>2, FalseExitRows
  <2> QED
    BY <2>1, <2>2, RowsOfTable
<1> QED
  BY <1>1, SeqInvariance, Invariance, PTL

\* A sold position is not recommended again before the scanner has lost its signal: the
\* suppressed row absorbs the signal for as long as it lasts, through runs that die, dates
\* that are skipped, and closes and syncs in any order.
THEOREM NoReentryWithoutGap ==
    ASSUME Sequential
    PROVE  Spec => []ReentryOnlyAfterGap
<1>1. SeqInv => ReentryOnlyAfterGap
  <2>1. Orderly => ReentryOnlyAfterGap
    BY DEF Orderly, TableOK, Gap, ReentryOnlyAfterGap
  <2>2. FalselyExited => ReentryOnlyAfterGap
    <3> SUFFICES ASSUME FalselyExited, NEW i \in DOMAIN periods, NEW j \in DOMAIN periods
                 PROVE  ~(i < j)
      BY DEF ReentryOnlyAfterGap
    <3>1. DOMAIN periods = {1}
      BY DEF FalselyExited
    <3> QED
      BY <3>1
  <2> QED
    BY <2>1, <2>2 DEF SeqInv
<1> QED
  BY <1>1, SeqInvariance, PTL
-----------------------------------------------------------------------------
(* Alone, a handler is never refused by a UNIQUE index, and so its snapshot  *)
(* takes every position that is over into the journal.                       *)

Distinct(ps) ==
    \A i, j \in DOMAIN ps : i # j => ~(ps[i].dir = ps[j].dir /\ ps[i].first = ps[j].first)

\* The signal of the row was there on its last day; it closed on a later one, up to c.
SeenUntil(r, c) ==
    /\ r.last \in 1..c
    /\ market[r.last].signal # "none" /\ Direction(market[r.last].signal) = r.dir
    /\ r.status = "closed" => r.last < c

TableSeen(ps, c) == Distinct(ps) /\ \A i \in DOMAIN ps : SeenUntil(ps[i], c)

\* No day of a row is after its last one.
LEMMA FirstBeforeLast ==
    ASSUME NEW r \in Period, RowOK(r)
    PROVE  r.first \in Nat /\ r.last \in Nat /\ r.first <= r.last
<1>1. r.first \in Nat /\ r.last \in Nat /\ r.obs \in Nat
  BY ConstantsAssumption DEF Period, Date
<1> QED
  BY <1>1 DEF RowOK, DaysOK

\* In a table in order only the last row may be active, so one index is left to respect.
LEMMA Unbroken ==
    ASSUME NEW ps \in Seq(Period), TableOK(ps), Distinct(ps)
    PROVE  RespectsIndexes(ps)
<1>1. ASSUME NEW i \in DOMAIN ps, ps[i].status = "active" PROVE i = Len(ps)
  <2>1. i \in 1..Len(ps) /\ Len(ps) \in Nat
    OBVIOUS
  <2>2. ~(i < Len(ps))
    BY <1>1 DEF TableOK
  <2> QED
    BY <2>1, <2>2
<1> QED
  BY <1>1 DEF Distinct, RespectsIndexes

\* The fields an index or a day is about are those of r; t is open if r was.
SameDays(r, t) ==
    /\ t.dir = r.dir /\ t.first = r.first /\ t.last = r.last
    /\ t.status = "closed" => r.status = "closed"

LEMMA SameDaysSeen ==
    ASSUME NEW ps, NEW qs, NEW c, TableSeen(ps, c), DOMAIN qs = DOMAIN ps,
           \A i \in DOMAIN ps : SameDays(ps[i], qs[i])
    PROVE  TableSeen(qs, c)
<1>1. Distinct(qs)
  BY DEF TableSeen, Distinct, SameDays
<1>2. \A i \in DOMAIN qs : SeenUntil(qs[i], c)
  BY DEF TableSeen, SeenUntil, SameDays
<1> QED
  BY <1>1, <1>2 DEF TableSeen

LEMMA SeenLater ==
    ASSUME NEW ps, NEW c \in Int, NEW e \in Int, c <= e, TableSeen(ps, c)
    PROVE  TableSeen(ps, e)
BY DEF TableSeen, SeenUntil

LEMMA EnsuredSeen ==
    ASSUME NEW ps \in Seq(Period), NEW c, TableSeen(ps, c)
    PROVE  TableSeen(Ensured(ps), c)
<1> DEFINE qs == Ensured(ps)
<1>1. DOMAIN qs = DOMAIN ps
  BY DEF Ensured
<1>2. ASSUME NEW i \in DOMAIN ps PROVE SameDays(ps[i], qs[i])
  <2> DEFINE b == Backfilled(ps[i])
             e == EntryFrozen(b)
             t == Repaired(e)
  <2>0. ps[i] \in Period /\ qs[i] = t
    BY DEF Ensured
  <2>1. SameDays(ps[i], b) /\ b \in Period
    BY <2>0 DEF Backfilled, Period, SameDays
  <2> HIDE DEF b
  <2>2. /\ SameDays(b, e)
        /\ DOMAIN e = DOMAIN b
    BY <2>1 DEF EntryFrozen, Period, SameDays
  <2>3. DOMAIN b = {"dir", "conf", "first", "last", "obs", "status", "ended", "reason",
                    "closed", "admitted", "entry", "exitDate", "exit", "exitReason", "ret"}
    BY <2>1 DEF Period
  <2> HIDE DEF e
  <2>4. SameDays(e, t)
    BY <2>2, <2>3 DEF Repaired, SameDays
  <2> QED
    BY <2>0, <2>1, <2>2, <2>4 DEF SameDays
<1> HIDE DEF qs
<1> QED
  BY <1>1, <1>2, SameDaysSeen DEF qs

LEMMA ClosedSeen ==
    ASSUME NEW ps \in Seq(Period), NEW c, TableSeen(ps, c), NEW d, NEW quote, NEW reason
    PROVE  TableSeen(ClosedPositions(ps, d, quote, reason), c)
<1> DEFINE qs == ClosedPositions(ps, d, quote, reason)
<1>1. DOMAIN qs = DOMAIN ps
  BY DEF ClosedPositions
<1>2. ASSUME NEW i \in DOMAIN ps PROVE SameDays(ps[i], qs[i])
  <2>1. ps[i] \in Period /\ qs[i] \in {ps[i], ClosedRow(ps[i], d, quote, reason)}
    BY DEF ClosedPositions
  <2>2. SameDays(ps[i], ClosedRow(ps[i], d, quote, reason))
    BY <2>1 DEF ClosedRow, Period, SameDays
  <2> HIDE DEF qs
  <2> QED
    BY <2>1, <2>2 DEF SameDays
<1> HIDE DEF qs
<1> QED
  BY <1>1, <1>2, SameDaysSeen DEF qs

LEMMA SnapshotSeen ==
    ASSUME NEW ps \in Seq(Period), NEW c, TableSeen(ps, c), NEW read, NEW d, NEW fixed
    PROVE  TableSeen(SnapshotResult(ps, read, d, fixed), c)
<1> DEFINE qs == SnapshotResult(ps, read, d, fixed)
<1>1. DOMAIN qs = DOMAIN ps
  BY DEF SnapshotResult
<1>2. ASSUME NEW i \in DOMAIN ps PROVE SameDays(ps[i], qs[i])
  <2>1. ps[i] \in Period /\ qs[i] \in {ps[i], Snapshotted(ps[i], read[i], d, fixed)}
    BY DEF SnapshotResult
  <2>2. SameDays(ps[i], Snapshotted(ps[i], read[i], d, fixed))
    BY <2>1 DEF Snapshotted, Period, SameDays
  <2> HIDE DEF qs
  <2> QED
    BY <2>1, <2>2 DEF SameDays
<1> HIDE DEF qs
<1> QED
  BY <1>1, <1>2, SameDaysSeen DEF qs

\* A signal that is not that of the row closes it on a day after its last one.
LEMMA FinishedSeen ==
    ASSUME NEW ps \in Seq(Period), NEW d \in Nat, TableSeen(ps, d), NEW i \in DOMAIN ps,
           market[d].signal = "none" \/ Direction(market[d].signal) # ps[i].dir,
           NEW qs \in {Finished(ps, i), FinishedOn(ps, i, d)}
    PROVE  TableSeen(qs, d) /\ DOMAIN qs = DOMAIN ps
<1>1. ps[i].last \in 1..d /\ ps[i].last # d
  BY DEF TableSeen, SeenUntil
<1>2. ps[i].last < d
  BY <1>1
<1>3. /\ DOMAIN qs = DOMAIN ps
      /\ \A k \in DOMAIN ps : /\ qs[k].dir = ps[k].dir /\ qs[k].first = ps[k].first
                              /\ qs[k].last = ps[k].last
                              /\ k # i => qs[k].status = ps[k].status
  <2>1. CASE qs = Finished(ps, i)
    <3>1. qs = [ps EXCEPT ![i] = [ps[i] EXCEPT !.status = "closed"]]
      BY <2>1 DEF Finished
    <3>2. ps[i] \in Period
      OBVIOUS
    <3> QED
      BY <3>1, <3>2 DEF Period
  <2>2. CASE qs = FinishedOn(ps, i, d)
    <3>1. qs = [ps EXCEPT ![i] = [ps[i] EXCEPT !.status = "closed", !.ended = d]]
      BY <2>2 DEF FinishedOn
    <3>2. ps[i] \in Period
      OBVIOUS
    <3> QED
      BY <3>1, <3>2 DEF Period
  <2> QED
    BY <2>1, <2>2
<1>4. Distinct(qs)
  BY <1>3 DEF TableSeen, Distinct
<1>5. \A k \in DOMAIN qs : SeenUntil(qs[k], d)
  BY <1>2, <1>3 DEF TableSeen, SeenUntil
<1> QED
  BY <1>3, <1>4, <1>5 DEF TableSeen

LEMMA EndedSeen ==
    ASSUME NEW ps \in Seq(Period), TableOK(ps), NEW d \in Nat, TableSeen(ps, d),
           NEW a \in ReadId(ps, "active"), NEW s \in ReadId(ps, "suppressed"),
           market[d].signal = "none"
    PROVE  TableSeen(Ended(ps, ps, a, s, d), d)
<1>1. CASE a \in DOMAIN ps /\ s = 0
  <2>1. Ended(ps, ps, a, s, d) \in {FinishedOn(ps, a, d), ps}
    BY <1>1 DEF Ended
  <2> QED
    BY <1>1, <2>1, FinishedSeen
<1>2. CASE s = Len(ps) /\ s \in DOMAIN ps /\ a = 0
  <2>1. Ended(ps, ps, a, s, d) = Finished(ps, s)
    BY <1>2 DEF Ended
  <2> QED
    BY <1>2, <2>1, FinishedSeen
<1>3. CASE a = 0 /\ s = 0
  BY <1>3 DEF Ended
<1> QED
  BY <1>1, <1>2, <1>3, RowsRead

\* A row seen again is seen on the day of the sync.
LEMMA SeenAgain ==
    ASSUME NEW ps \in Seq(Period), NEW d \in Nat \ {0}, TableSeen(ps, d),
           NEW i \in DOMAIN ps, NEW row, row.dir = ps[i].dir, row.first = ps[i].first,
           row.last = d, row.status # "closed",
           market[d].signal # "none", Direction(market[d].signal) = ps[i].dir
    PROVE  TableSeen([ps EXCEPT ![i] = row], d)
<1> DEFINE qs == [ps EXCEPT ![i] = row]
<1>1. /\ DOMAIN qs = DOMAIN ps /\ qs[i] = row
      /\ \A k \in DOMAIN ps : k # i => qs[k] = ps[k]
  OBVIOUS
<1> HIDE DEF qs
<1>2. Distinct(qs)
  BY <1>1 DEF TableSeen, Distinct
<1>3. \A k \in DOMAIN qs : SeenUntil(qs[k], d)
  BY <1>1 DEF TableSeen, SeenUntil
<1>4. TableSeen(qs, d)
  BY <1>2, <1>3 DEF TableSeen
<1> QED
  BY <1>4 DEF qs

\* A new row is the first of its day, for all others closed before.
LEMMA AddedSeen ==
    ASSUME NEW ps \in Seq(Period), TableOK(ps), NEW d \in Nat \ {0}, TableSeen(ps, d),
           \A i \in DOMAIN ps : ps[i].status = "closed",
           NEW row, row.first = d, row.last = d, row.status = "active",
           market[d].signal # "none", Direction(market[d].signal) = row.dir
    PROVE  TableSeen(Append(ps, row), d)
<1> DEFINE qs == Append(ps, row)
<1>1. /\ DOMAIN qs = DOMAIN ps \cup {Len(ps) + 1} /\ qs[Len(ps) + 1] = row
      /\ \A k \in DOMAIN ps : qs[k] = ps[k]
  OBVIOUS
<1> HIDE DEF qs
<1>2. ASSUME NEW k \in DOMAIN ps PROVE ps[k].first # d
  <2>1. ps[k].last < d /\ ps[k] \in Period /\ RowOK(ps[k])
    BY DEF TableSeen, SeenUntil, TableOK
  <2> QED
    BY <2>1, FirstBeforeLast
<1>3. Distinct(qs)
  BY <1>1, <1>2 DEF TableSeen, Distinct
<1>4. \A k \in DOMAIN qs : SeenUntil(qs[k], d)
  BY <1>1 DEF TableSeen, SeenUntil
<1>5. TableSeen(qs, d)
  BY <1>3, <1>4 DEF TableSeen
<1> QED
  BY <1>5 DEF qs

LEMMA ContinuedSeen ==
    ASSUME NEW ps \in Seq(Period), TableOK(ps), NEW d \in Dates, TableUpTo(ps, d),
           TableSeen(ps, d),
           NEW a \in ReadId(ps, "active"), NEW s \in ReadId(ps, "suppressed"),
           NEW sig \in Signals, sig = market[d].signal, sig # "none",
           NEW price \in Quote, PriceOf(price, d)
    PROVE  TableSeen(Continued(ps, ps, ps, a, s, d, sig, price), d)
<1> DEFINE dir == Direction(sig)
           new == NewPeriod(d, sig, price)
           qs == Continued(ps, ps, ps, a, s, d, sig, price)
<1>0. d \in Nat \ {0}
  BY ConstantsAssumption DEF Dates
<1>1. /\ new.first = d /\ new.last = d /\ new.status = "active" /\ new.dir = dir
  BY DEF NewPeriod
<1>2. ASSUME NEW rs, Advances(ps, rs, d), \A i \in DOMAIN rs : rs[i].status = "closed",
             TableSeen(rs, d)
      PROVE  TableSeen(Append(rs, new), d)
  <2> HIDE DEF new
  <2> QED
    BY <1>0, <1>1, <1>2, AddedSeen DEF Advances
<1> HIDE DEF new
<1>3. CASE /\ a = Len(ps) /\ a \in DOMAIN ps /\ ps[a].status = "active" /\ s = 0
  <2>0. a # 0
    BY <1>3
  <2>1. CASE ps[a].dir = dir
    <3> DEFINE row == Observed(ps[a], ps[a], d, sig, price)
    <3>1. qs = [ps EXCEPT ![a] = row]
      BY <1>3, <2>0, <2>1 DEF Continued
    <3>2. /\ ps[a] \in Period /\ RowOK(ps[a]) /\ ps[a].last <= d
      BY <1>3 DEF TableOK, TableUpTo, RowUpTo
    <3>3. /\ Follows(ps[a], row) /\ row.last = d /\ row.status = "active"
      BY <1>3, <2>1, <3>2, ObservedOK
    <3> HIDE DEF row
    <3>4. /\ row.dir = ps[a].dir /\ row.first = ps[a].first /\ row.status # "closed"
          /\ market[d].signal # "none" /\ Direction(market[d].signal) = ps[a].dir
      BY <2>1, <3>3 DEF Follows
    <3>5. TableSeen([ps EXCEPT ![a] = row], d)
      BY <1>0, <1>3, <3>3, <3>4, SeenAgain
    <3> QED
      BY <3>1, <3>5
  <2>2. CASE ps[a].dir # dir
    <3>1. qs = Append(FinishedOn(ps, a, d), new)
      BY <1>3, <2>0, <2>2 DEF Continued, new
    <3>2. /\ Advances(ps, FinishedOn(ps, a, d), d)
          /\ \A i \in DOMAIN FinishedOn(ps, a, d) :
                FinishedOn(ps, a, d)[i].status = "closed"
      BY <1>3, LastFinished
    <3>3. TableSeen(FinishedOn(ps, a, d), d)
      BY <1>0, <1>3, <2>2, FinishedSeen
    <3> QED
      BY <1>2, <3>1, <3>2, <3>3
  <2> QED
    BY <2>1, <2>2
<1>4. CASE /\ s = Len(ps) /\ s \in DOMAIN ps /\ ps[s].status = "suppressed" /\ a = 0
  <2>0. /\ s # 0 /\ ps[s] \in Period /\ RowOK(ps[s]) /\ ps[s].last <= d
    BY <1>4 DEF TableOK, TableUpTo, RowUpTo
  <2>1. CASE ps[s].dir = dir /\ d > ps[s].last
    <3> DEFINE row == Bumped(ps[s], d)
    <3>1. qs = [ps EXCEPT ![s] = row]
      BY <2>0, <2>1 DEF Continued
    <3>2. /\ row.dir = ps[s].dir /\ row.first = ps[s].first /\ row.last = d
          /\ row.status = ps[s].status
      BY <2>0 DEF Bumped, Period
    <3> HIDE DEF row
    <3>3. /\ row.status # "closed"
          /\ market[d].signal # "none" /\ Direction(market[d].signal) = ps[s].dir
      BY <1>4, <2>1, <3>2
    <3>4. TableSeen([ps EXCEPT ![s] = row], d)
      BY <1>0, <1>4, <3>2, <3>3, SeenAgain
    <3> QED
      BY <3>1, <3>4
  <2>2. CASE ps[s].dir = dir /\ ~(d > ps[s].last)
    <3>1. qs = ps
      BY <2>0, <2>2 DEF Continued
    <3> QED
      BY <3>1
  <2>3. CASE ps[s].dir # dir
    <3>1. qs = Append(Finished(ps, s), new)
      BY <1>4, <2>0, <2>3 DEF Continued, new
    <3>2. ps[s].dir = "long"
      BY <1>4, <2>0 DEF RowOK, StatusOK, Period
    <3>3. market[d].signal \in {"none", "short"}
      BY <2>3, <3>2 DEF Direction
    <3>4. /\ Advances(ps, Finished(ps, s), d)
          /\ \A i \in DOMAIN Finished(ps, s) : Finished(ps, s)[i].status = "closed"
      BY <1>4, <3>3, LastFinished
    <3>5. TableSeen(Finished(ps, s), d)
      BY <1>0, <1>4, <2>3, FinishedSeen
    <3> QED
      BY <1>2, <3>1, <3>4, <3>5
  <2> QED
    BY <2>1, <2>2, <2>3
<1>5. CASE a = 0 /\ s = 0 /\ \A i \in DOMAIN ps : ps[i].status = "closed"
  <2>1. qs = Append(ps, new)
    BY <1>5 DEF Continued, new
  <2> QED
    BY <1>2, <1>5, <2>1, AdvancesItself
<1> QED
  BY <1>3, <1>4, <1>5, RowsRead

LEMMA SyncSeen ==
    ASSUME NEW ps \in Seq(Period), TableOK(ps), NEW d \in Dates, TableUpTo(ps, d),
           TableSeen(ps, d),
           NEW sig \in Signals, sig = market[d].signal,
           NEW price \in Quote, PriceOf(price, d),
           NEW qs \in SyncResults(ps, ps, ps, d, sig, price)
    PROVE  TableSeen(qs, d)
<1>0. d \in Nat
  BY ConstantsAssumption DEF Dates
<1>1. PICK a \in ReadId(ps, "active"), s \in ReadId(ps, "suppressed") :
         qs = IF sig = "none" THEN Ended(ps, ps, a, s, d)
                              ELSE Continued(ps, ps, ps, a, s, d, sig, price)
  BY DEF SyncResults
<1>2. CASE sig = "none"
  BY <1>0, <1>1, <1>2, EndedSeen
<1>3. CASE sig # "none"
  BY <1>1, <1>3, ContinuedSeen
<1> QED
  BY <1>2, <1>3

\* The rows are explained by the signals up to now, and up to the day of the handler at work.
Unrefused ==
    /\ TableSeen(periods, Latest)
    /\ \A w \in Workers : proc[w].at # "idle" => TableSeen(periods, RunDay(proc[w], Latest))

LEMMA SeenMoved ==
    ASSUME Sequential, IInv, Unrefused, NEW w \in Workers, market' = market,
           periods' = periods, NEW q, proc' = [proc EXCEPT ![w] = q],
           q.at # "idle" => TableSeen(periods, RunDay(q, Latest))
    PROVE  Unrefused'
<1>1. \A v \in Workers : proc'[v] = q
  BY DEF Sequential, IInv, ProcsOK
<1> QED
  BY <1>1 DEF Unrefused, TableSeen, SeenUntil, Latest

LEMMA SeenCommitted ==
    ASSUME Sequential, IInv, Unrefused, NEW w \in Workers, Dated(proc[w]),
           proc[w].at # "idle", market' = market, NEW ps,
           TableSeen(ps, RunDay(proc[w], Latest)), NEW q,
           q.at # "idle" => RunDay(q, Latest) = RunDay(proc[w], Latest), CommitPeriods(w, ps, q)
    PROVE  Unrefused'
<1>1. CASE periods' = ps /\ proc' = [proc EXCEPT ![w] = q]
  <2>1. \A v \in Workers : proc'[v] = q
    BY <1>1 DEF Sequential, IInv, ProcsOK
  <2>2. RunDay(proc[w], Latest) \in 1..Latest /\ Latest \in Nat
    BY DEF Dated, Latest, IInv, MarketOK
  <2>3. RunDay(proc[w], Latest) \in Int /\ Latest \in Int /\ RunDay(proc[w], Latest) <= Latest
    BY <2>2
  <2>4. TableSeen(ps, Latest)
    BY <2>3, SeenLater
  <2>5. TableSeen(periods, Latest)'
    BY <1>1, <2>4 DEF TableSeen, SeenUntil, Latest
  <2>6. q.at # "idle" => TableSeen(ps, RunDay(q, Latest))
    OBVIOUS
  <2>7. \A v \in Workers : proc'[v].at # "idle" => TableSeen(periods, RunDay(proc[v], Latest))'
    BY <1>1, <2>1, <2>6 DEF TableSeen, SeenUntil, RunDay, Latest
  <2> QED
    BY <2>5, <2>7 DEF Unrefused
<1>2. CASE proc' = [proc EXCEPT ![w] = Idle] /\ UNCHANGED <<periods, journal>>
  <2>1. Idle.at = "idle"
    BY DEF Idle
  <2> QED
    BY <1>2, <2>1, SeenMoved
<1> QED
  BY <1>1, <1>2 DEF CommitPeriods

LEMMA NextPhaseDay ==
    ASSUME IInv, NEW w \in Workers, proc[w].at # "idle"
    PROVE  NextPhase(w).at # "idle" => RunDay(NextPhase(w), Latest) = RunDay(proc[w], Latest)
<1>1. CASE Tail1(w) = <<>>
  BY <1>1 DEF NextPhase, Idle
<1>2. CASE Tail1(w) # <<>>
  <2>1. proc[w] \in Proc
    BY DEF IInv, ProcsOK
  <2>2. NextPhase(w).kind = proc[w].kind /\ NextPhase(w).date = proc[w].date
    BY <1>2, <2>1 DEF NextPhase, Proc
  <2> QED
    BY <2>2 DEF RunDay
<1> QED
  BY <1>1, <1>2

\* The four writes, each of rows that respect the indexes.

LEMMA EnsureUnrefused ==
    ASSUME IInv, SeqInv, Unrefused, NEW w \in Workers, At(w, Phases, "ensure")
    PROVE  /\ TableSeen(Ensured(periods), RunDay(proc[w], Latest))
           /\ RespectsIndexes(Ensured(periods))
<1> DEFINE c == RunDay(proc[w], Latest)
           ps == Ensured(periods)
<1>1. proc[w].at = "ensure" /\ periods \in Seq(Period)
  BY AtFacts DEF IInv, TablesOK
<1>2. /\ c \in Dates /\ c \in 0..Latest /\ Latest \in 0..MaxDate
  BY <1>1, RunDayFacts DEF SeqInv
<1>3. TableSeen(periods, c)
  BY <1>1 DEF Unrefused
<1> HIDE DEF c
<1>4. TableSeen(ps, c)
  BY <1>1, <1>3, EnsuredSeen
<1>5. CASE Orderly
  <2>1. TableOK(periods) /\ TableUpTo(periods, c)
    BY <1>1, <1>5 DEF Orderly, Reading, c
  <2>2. ps \in Seq(Period) /\ TableOK(ps)
    BY <1>1, <1>2, <2>1, EnsuredAdvances DEF Advances
  <2> QED
    BY <1>4, <2>2, Unbroken DEF TableSeen, c
<1>6. CASE FalselyExited
  <2>1. ps \in Seq(Period) /\ TableOK(ps)
    BY <1>2, <1>6, FalseExitAdvances DEF FalselyExited
  <2> QED
    BY <1>4, <2>1, Unbroken DEF TableSeen, c
<1> QED
  BY <1>5, <1>6 DEF SeqInv

LEMMA CloseUnrefused ==
    ASSUME IInv, SeqInv, Unrefused, NEW w \in Workers, At(w, {"autoclose", "manual"}, "write")
    PROVE  LET reason == IF Handler(w) = "manual" THEN "manual" ELSE "auto"
               quote  == IF Handler(w) = "manual" THEN Live
                         ELSE Close(proc[w].date, proc[w].fixed)
               ps     == ClosedPositions(periods, proc[w].date, quote, reason)
           IN  TableSeen(ps, RunDay(proc[w], Latest)) /\ RespectsIndexes(ps)
<1> DEFINE reason == IF Handler(w) = "manual" THEN "manual" ELSE "auto"
           quote  == IF Handler(w) = "manual" THEN Live
                     ELSE Close(proc[w].date, proc[w].fixed)
           ps == ClosedPositions(periods, proc[w].date, quote, reason)
           c == RunDay(proc[w], Latest)
<1>1. /\ proc[w] \in Proc /\ proc[w].at = "write" /\ periods \in Seq(Period)
  BY AtFacts DEF IInv, TablesOK
<1>2. Orderly /\ Reading(proc[w], periods) /\ Dated(proc[w])
  BY <1>1, OrderlyPastEnsure
<1>3. /\ TableOK(periods) /\ TableUpTo(periods, c) /\ \A i \in DOMAIN periods : Ready(periods[i])
      /\ TableSeen(periods, c)
  BY <1>1, <1>2 DEF Orderly, Reading, Unrefused
<1>4. /\ c \in Dates /\ c \in Nat
      /\ IF Handler(w) = "manual" THEN c < proc[w].date ELSE proc[w].date = c
  BY <1>1, <1>2, RunDayFacts, ConstantsAssumption DEF Dates
<1>5. /\ proc[w].date \in Date /\ reason \in {"manual", "auto"} /\ quote \in Quote
      /\ IF reason = "manual" THEN c < proc[w].date ELSE proc[w].date = c
      /\ QuoteOfClose(quote, proc[w].date, reason)
  BY <1>1, <1>4, CloseType DEF Proc, Quote, QuoteOfClose
<1> HIDE DEF c, reason, quote
<1>6. Advances(periods, ps, c)
  BY <1>1, <1>3, <1>4, <1>5, ClosedAdvances
<1>7. TableSeen(ps, c)
  BY <1>1, <1>3, ClosedSeen
<1> HIDE DEF ps
<1>8. TableSeen(ps, c) /\ RespectsIndexes(ps)
  BY <1>6, <1>7, Unbroken DEF Advances, TableSeen
<1> QED
  BY <1>8 DEF ps, c, reason, quote

LEMMA SyncUnrefused ==
    ASSUME IInv, SeqInv, Unrefused, NEW w \in Workers, At(w, {"sync"}, "write"),
           NEW ps \in SyncResults(periods, proc[w].seenActive, proc[w].seenSuppressed,
                                  proc[w].date, market[proc[w].date].signal, CurrentPrice(w))
    PROVE  TableSeen(ps, RunDay(proc[w], Latest)) /\ RespectsIndexes(ps)
<1> DEFINE d == proc[w].date
           sig == market[d].signal
           price == CurrentPrice(w)
<1>1. /\ proc[w].at = "write" /\ Handler(w) = "sync"
      /\ periods \in Seq(Period) /\ d \in Dates /\ d \in 1..Latest
  BY AtFacts DEF IInv, TablesOK
<1>2. Orderly /\ Reading(proc[w], periods) /\ Dated(proc[w])
  BY <1>1, OrderlyPastEnsure
<1>3. RunDay(proc[w], Latest) = d
  BY <1>1, <1>2, RunDayFacts
<1>4. /\ TableOK(periods) /\ TableUpTo(periods, d) /\ TableSeen(periods, d)
      /\ proc[w].seenActive = periods /\ proc[w].seenSuppressed = periods
  BY <1>1, <1>2, <1>3 DEF Orderly, Reading, Handler, Unrefused
<1>5. sig \in Signals /\ price \in Quote /\ PriceOf(price, d)
  BY <1>1, SignalRead, CloseType, NullTypes DEF CurrentPrice, PriceOf
<1>6. ps \in SyncResults(periods, periods, periods, d, sig, price)
  BY <1>4
<1> HIDE DEF price
<1>7. Advances(periods, ps, d)
  BY <1>1, <1>4, <1>5, <1>6, SyncAdvances
<1>8. TableSeen(ps, d)
  BY <1>1, <1>4, <1>5, <1>6, SyncSeen
<1> QED
  BY <1>3, <1>7, <1>8, Unbroken DEF Advances, TableSeen

LEMMA SnapshotUnrefused ==
    ASSUME IInv, SeqInv, Unrefused, NEW w \in Workers, At(w, {"snapshot"}, "write")
    PROVE  LET ps == SnapshotResult(periods, proc[w].seenActive, proc[w].date, proc[w].fixed)
           IN  TableSeen(ps, RunDay(proc[w], Latest)) /\ RespectsIndexes(ps)
<1> DEFINE d == proc[w].date
           ps == SnapshotResult(periods, periods, d, proc[w].fixed)
<1>1. /\ proc[w].at = "write" /\ Handler(w) = "snapshot"
      /\ periods \in Seq(Period) /\ d \in Dates
  BY AtFacts DEF IInv, TablesOK
<1>2. Orderly /\ Reading(proc[w], periods) /\ Dated(proc[w])
  BY <1>1, OrderlyPastEnsure
<1>3. RunDay(proc[w], Latest) = d
  BY <1>1, <1>2, RunDayFacts
<1>4. /\ TableOK(periods) /\ TableUpTo(periods, d) /\ TableSeen(periods, d)
      /\ proc[w].seenActive = periods /\ \A i \in DOMAIN periods : Ready(periods[i])
  BY <1>1, <1>2, <1>3 DEF Orderly, Reading, Handler, Unrefused
<1>5. Advances(periods, ps, d)
  BY <1>1, <1>4, SnapshotAdvances
<1>6. TableSeen(ps, d)
  BY <1>1, <1>4, SnapshotSeen
<1> HIDE DEF ps
<1>7. TableSeen(ps, d) /\ RespectsIndexes(ps)
  BY <1>5, <1>6, Unbroken DEF Advances, TableSeen
<1> QED
  BY <1>3, <1>4, <1>7 DEF ps

LEMMA UnrefusedInitially == Init => Unrefused
<1> SUFFICES ASSUME Init PROVE Unrefused
  OBVIOUS
<1>1. \A w \in Workers : proc[w].at = "idle"
  BY DEF Init, Idle
<1>2. CASE periods = <<>>
  BY <1>1, <1>2 DEF Unrefused, TableSeen, Distinct
<1>3. ASSUME NEW sig \in {"low", "mid"}, market = <<[signal |-> sig, pump |-> FALSE]>>,
             NEW r, periods = <<r>>, r.last = 1, r.dir = "long", r.status # "closed"
      PROVE  Unrefused
  <2>1. Latest = 1 /\ market[1].signal = sig
    BY <1>3 DEF Latest
  <2>2. DOMAIN periods = {1} /\ periods[1] = r
    BY <1>3
  <2>3. Direction(sig) = "long"
    BY DEF Direction
  <2>4. SeenUntil(r, 1)
    BY <1>3, <2>1, <2>3 DEF SeenUntil
  <2> QED
    BY <1>1, <2>1, <2>2, <2>4 DEF Unrefused, TableSeen, Distinct
<1>4. \A conf \in {"none", "low", "mid"} :
         /\ LegacyPeriod(conf).last = 1 /\ LegacyPeriod(conf).dir = "long"
         /\ LegacyPeriod(conf).status # "closed"
  BY DEF LegacyPeriod, NewPeriod, Direction
<1>6. ASSUME NEW sig \in {"low", "mid"}, market = <<[signal |-> sig, pump |-> FALSE]>>,
             periods \in {<<LegacyPeriod("none")>>, <<LegacyPeriod(sig)>>}
      PROVE  Unrefused
  BY <1>3, <1>4, <1>6
<1>7. ASSUME NEW r \in FalseExits, market = <<[signal |-> "mid", pump |-> FALSE]>>,
             periods = <<r>>
      PROVE  Unrefused
  BY <1>3, <1>7, FalseExitRows
<1> QED
  BY <1>2, <1>6, <1>7 DEF Init, FalseExits

LEMMA UnrefusedSteps ==
    ASSUME Sequential, IInv, SeqInv, Unrefused, [Next]_vars
    PROVE  Unrefused'
<1>1. CASE ActivatePrices
  <2>2. /\ Latest \in Nat /\ Latest' \in Nat /\ Latest <= Latest'
        /\ \A d \in 1..Latest : market'[d] = market[d]
    BY <1>1, PricesActivated DEF IInv, MarketOK, Latest
  <2>3. UNCHANGED <<periods, proc>>
    BY <1>1 DEF ActivatePrices
  <2>4. \A w \in Workers : proc[w].at # "idle" => RunDay(proc[w], Latest) \in 1..Latest
    BY DEF SeqInv, Dated
  <2>5. ASSUME NEW c \in 0..Latest, TableSeen(periods, c), NEW i \in DOMAIN periods
        PROVE  /\ periods[i].last \in 1..c
               /\ market'[periods[i].last].signal # "none"
               /\ Direction(market'[periods[i].last].signal) = periods[i].dir
               /\ periods[i].status = "closed" => periods[i].last < c
    <3>1. SeenUntil(periods[i], c)
      BY <2>5 DEF TableSeen
    <3>2. periods[i].last \in 1..Latest
      BY <2>2, <3>1 DEF SeenUntil
    <3> QED
      BY <2>2, <3>1, <3>2 DEF SeenUntil
  <2>6. TableSeen(periods, Latest)'
    <3>1. TableSeen(periods, Latest) /\ Distinct(periods) /\ Latest \in 0..Latest
      BY <2>2 DEF Unrefused, TableSeen
    <3>2. ASSUME NEW i \in DOMAIN periods
          PROVE  /\ periods[i].last \in 1..Latest'
                 /\ market'[periods[i].last].signal # "none"
                 /\ Direction(market'[periods[i].last].signal) = periods[i].dir
                 /\ periods[i].status = "closed" => periods[i].last < Latest'
      BY <2>2, <2>5, <3>1
    <3> QED
      BY <2>2, <2>3, <3>1, <3>2 DEF TableSeen, SeenUntil, Distinct
  <2>7. ASSUME NEW w \in Workers, proc[w].at # "idle"
        PROVE  TableSeen(periods, RunDay(proc[w], Latest))'
    <3>1. CASE proc[w].kind = "manual"
      BY <2>3, <2>6, <3>1 DEF RunDay
    <3>2. CASE proc[w].kind # "manual"
      <4>1. /\ TableSeen(periods, proc[w].date) /\ Distinct(periods)
            /\ proc[w].date \in 0..Latest
        BY <2>2, <2>4, <2>7, <3>2 DEF Unrefused, TableSeen, RunDay
      <4> QED
        BY <2>3, <2>5, <3>2, <4>1 DEF TableSeen, SeenUntil, Distinct, RunDay
    <3> QED
      BY <3>1, <3>2
  <2> QED
    BY <2>3, <2>6, <2>7 DEF Unrefused
<1>2. ASSUME NEW w \in Workers, NEW k \in Kinds, Begin(w, k) PROVE Unrefused'
  <2> DEFINE q == [Idle EXCEPT !.kind = k, !.at = "ensure", !.todo = Program(k, Latest),
                               !.date = RunDate(k), !.fixed = corrected]
  <2>1. q.kind = k /\ q.date = RunDate(k)
    BY DEF Idle
  <2>2. proc' = [proc EXCEPT ![w] = q] /\ market' = market /\ periods' = periods
    BY <1>2 DEF Begin
  <2> HIDE DEF q
  <2>3. RunDay(q, Latest) = Latest
    BY <2>1 DEF RunDay, RunDate, Latest, IInv, MarketOK
  <2> QED
    BY <2>2, <2>3, SeenMoved DEF Unrefused
<1>3. ASSUME NEW w \in Workers, Crash(w) PROVE Unrefused'
  <2>1. Idle.at = "idle"
    BY DEF Idle
  <2> QED
    BY <1>3, <2>1, SeenMoved DEF Crash
<1>4. ASSUME NEW w \in Workers, ReadActive(w) \/ ReadSuppressed(w) PROVE Unrefused'
  <2>1. proc[w] \in Proc /\ proc[w].at # "idle" /\ proc \in [Workers -> Proc]
    BY <1>4, AtFacts DEF ReadActive, ReadSuppressed, IInv, ProcsOK
  <2>2. /\ proc' = [proc EXCEPT ![w] = proc'[w]] /\ market' = market /\ periods' = periods
        /\ proc'[w].kind = proc[w].kind /\ proc'[w].date = proc[w].date
    BY <1>4, <2>1 DEF ReadActive, ReadSuppressed, Proc
  <2>3. TableSeen(periods, RunDay(proc'[w], Latest))
    BY <2>1, <2>2 DEF Unrefused, RunDay
  <2> QED
    BY <2>2, <2>3, SeenMoved
<1>5. ASSUME NEW w \in Workers, EnsureSchema(w) PROVE Unrefused'
  <2> DEFINE q == [proc[w] EXCEPT !.at = IF Handler(w) \in {"autoclose", "manual"}
                                         THEN "write" ELSE "active"]
  <2>1. /\ proc[w] \in Proc /\ proc[w].at # "idle" /\ market' = market
        /\ CommitPeriods(w, Ensured(periods), q) /\ At(w, Phases, "ensure")
    BY <1>5, AtFacts DEF EnsureSchema
  <2>2. RunDay(q, Latest) = RunDay(proc[w], Latest)
    BY <2>1 DEF Proc, RunDay
  <2> HIDE DEF q
  <2> QED
    BY <2>1, <2>2, EnsureUnrefused, SeenCommitted DEF SeqInv
<1>6. ASSUME NEW w \in Workers, ClosePosition(w) PROVE Unrefused'
  <2> DEFINE reason == IF Handler(w) = "manual" THEN "manual" ELSE "auto"
             quote  == IF Handler(w) = "manual" THEN Live
                       ELSE Close(proc[w].date, proc[w].fixed)
             ps == ClosedPositions(periods, proc[w].date, quote, reason)
  <2>1. /\ proc[w].at # "idle" /\ market' = market
        /\ At(w, {"autoclose", "manual"}, "write")
    BY <1>6, AtFacts DEF ClosePosition
  <2>2. \/ proc' = [proc EXCEPT ![w] = NextPhase(w)] /\ UNCHANGED <<periods, journal>>
        \/ CommitPeriods(w, ps, NextPhase(w))
    BY <1>6 DEF ClosePosition
  <2>3. TableSeen(ps, RunDay(proc[w], Latest))
    BY <2>1, CloseUnrefused
  <2> HIDE DEF ps
  <2>4. NextPhase(w).at # "idle" => RunDay(NextPhase(w), Latest) = RunDay(proc[w], Latest)
    BY <2>1, NextPhaseDay
  <2>5. CASE proc' = [proc EXCEPT ![w] = NextPhase(w)] /\ UNCHANGED <<periods, journal>>
    <3>1. NextPhase(w).at # "idle" => TableSeen(periods, RunDay(NextPhase(w), Latest))
      BY <2>1, <2>4 DEF Unrefused
    <3> QED
      BY <2>1, <2>5, <3>1, SeenMoved
  <2>6. CASE CommitPeriods(w, ps, NextPhase(w))
    BY <2>1, <2>3, <2>4, <2>6, SeenCommitted DEF SeqInv
  <2> QED
    BY <2>2, <2>5, <2>6
<1>7. ASSUME NEW w \in Workers, WriteSync(w) PROVE Unrefused'
  <2>1. proc[w].at # "idle" /\ market' = market /\ At(w, {"sync"}, "write")
    BY <1>7, AtFacts DEF WriteSync
  <2>2. PICK ps \in SyncResults(periods, proc[w].seenActive, proc[w].seenSuppressed,
                    proc[w].date, market[proc[w].date].signal, CurrentPrice(w)) :
           CommitPeriods(w, ps, NextPhase(w))
    BY <1>7 DEF WriteSync
  <2>3. TableSeen(ps, RunDay(proc[w], Latest))
    BY <2>1, <2>2, SyncUnrefused
  <2>4. NextPhase(w).at # "idle" => RunDay(NextPhase(w), Latest) = RunDay(proc[w], Latest)
    BY <2>1, NextPhaseDay
  <2> QED
    BY <2>1, <2>2, <2>3, <2>4, SeenCommitted DEF SeqInv
<1>8. ASSUME NEW w \in Workers, WriteSnapshot(w) PROVE Unrefused'
  <2> DEFINE ps == SnapshotResult(periods, proc[w].seenActive, proc[w].date, proc[w].fixed)
  <2>1. /\ proc[w].at # "idle" /\ market' = market /\ At(w, {"snapshot"}, "write")
        /\ CommitPeriods(w, ps, NextPhase(w))
    BY <1>8, AtFacts DEF WriteSnapshot
  <2>2. TableSeen(ps, RunDay(proc[w], Latest))
    BY <2>1, SnapshotUnrefused
  <2> HIDE DEF ps
  <2>3. NextPhase(w).at # "idle" => RunDay(NextPhase(w), Latest) = RunDay(proc[w], Latest)
    BY <2>1, NextPhaseDay
  <2> QED
    BY <2>1, <2>2, <2>3, SeenCommitted DEF SeqInv
<1>9. CASE NewDay \/ UNCHANGED vars
  BY <1>9 DEF NewDay, vars, Unrefused, TableSeen, SeenUntil, Latest
<1> QED
  BY <1>1, <1>2, <1>3, <1>4, <1>5, <1>6, <1>7, <1>8, <1>9 DEF Next, Step

LEMMA UnrefusedInvariance ==
    ASSUME Sequential
    PROVE  Spec => []Unrefused
<1>1. Init => Unrefused
  BY UnrefusedInitially
<1>2. IInv /\ SeqInv /\ Unrefused /\ [Next]_vars => Unrefused'
  BY UnrefusedSteps
<1> QED
  BY <1>1, <1>2, Invariance, SeqInvariance, PTL DEF Spec

\* The rows that a handler is about to commit respect the UNIQUE indexes.
NoneRefused ==
    \A w \in Workers :
        /\ At(w, Phases, "ensure") => RespectsIndexes(Ensured(periods))
        /\ At(w, {"autoclose", "manual"}, "write") =>
              LET reason == IF Handler(w) = "manual" THEN "manual" ELSE "auto"
                  quote  == IF Handler(w) = "manual" THEN Live
                            ELSE Close(proc[w].date, proc[w].fixed)
              IN  RespectsIndexes(ClosedPositions(periods, proc[w].date, quote, reason))
        /\ At(w, {"sync"}, "write") =>
              \A ps \in SyncResults(periods, proc[w].seenActive, proc[w].seenSuppressed,
                           proc[w].date, market[proc[w].date].signal, CurrentPrice(w)) :
                 RespectsIndexes(ps)
        /\ At(w, {"snapshot"}, "write") =>
              RespectsIndexes(SnapshotResult(periods, proc[w].seenActive, proc[w].date, proc[w].fixed))

\* No run is ended by an IntegrityError as long as handlers do not overlap: neither a signal
\* that comes and goes, nor a sale, nor a run repeated on one data date brings a row that
\* the table has for that day and direction, or a second active one.
THEOREM NoRunIsRefused ==
    ASSUME Sequential
    PROVE  Spec => []NoneRefused
<1>1. IInv /\ SeqInv /\ Unrefused => NoneRefused
  BY EnsureUnrefused, CloseUnrefused, SyncUnrefused, SnapshotUnrefused DEF NoneRefused
<1> QED
  BY <1>1, Invariance, SeqInvariance, UnrefusedInvariance, PTL

\* A snapshot gives a position that is over all that the journal asks for.
LEMMA OverJournalable ==
    ASSUME NEW r \in Period, RowOK(r), Ready(r), r.dir = "long", r.admitted # Null,
           NEW d \in Dates, NEW fixed, r.last <= d,
           \/ r.status = "closed"
           \/ r.status = "suppressed" /\ r.exit # Null
           \/ r.obs >= Horizon /\ HorizonDate(r) <= d
    PROVE  Journalable(Snapshotted(r, r, d, fixed))
<1> DEFINE exit == ExitFor(r, d, fixed)
           t == Snapshotted(r, r, d, fixed)
<1>1. r.entry # Null /\ EntryFor(r, fixed) = r.entry
  BY DEF Ready, EntryFor, Coalesce
<1>2. CASE r.exit # Null
  <2>1. Journalable(r)
    BY <1>1, <1>2 DEF Journalable, RowOK, ReturnOK, Sound, WholeExit, NoReturn
  <2> QED
    BY <2>1, SnapshottedOK DEF Follows
<1>3. CASE r.exit = Null
  <2>1. r.reason = "none" /\ r.exitDate = Null /\ r.ret = NoReturn
    BY <1>3 DEF RowOK, Sound, WholeExit, ReturnOK
  <2>2. /\ r.first \in Nat \ {0} /\ r.last \in Nat \ {0} /\ r.ended \in Nat
        /\ d \in Nat \ {0} /\ HorizonDate(r) \in Nat \ {0}
    BY ConstantsAssumption DEF RowOK, Sound, Period, Date, Dates, HorizonDate
  <2>3. exit[1] # Null /\ exit[2] # Null
    <3>0. \A e \in Nat \ {0} : Close(e, fixed) # Null
      BY DEF Close, Live, Null
    <3>1. CASE r.obs >= Horizon /\ HorizonDate(r) <= d
      <4>1. exit = <<HorizonDate(r), Close(HorizonDate(r), fixed), "horizon">>
        BY <1>3, <2>1, <3>1 DEF ExitFor
      <4> HIDE DEF exit
      <4> QED
        BY <2>2, <3>0, <4>1 DEF Null
    <3>2. CASE ~(r.obs >= Horizon /\ HorizonDate(r) <= d)
      <4> DEFINE endDate == Coalesce(r.ended, r.last)
                 lastCandle == IF endDate <= d THEN endDate ELSE d
      <4>1. endDate \in Nat \ {0}
        BY <2>2 DEF Coalesce, Null
      <4>2. exit = <<lastCandle, Close(lastCandle, fixed), "ended">>
        BY <1>3, <2>1, <3>2 DEF ExitFor
      <4> HIDE DEF endDate, exit
      <4> QED
        BY <2>2, <3>0, <4>1, <4>2 DEF Null
    <3> QED
      BY <3>1, <3>2
  <2> HIDE DEF exit
  <2>4. /\ t.dir = r.dir /\ t.admitted = r.admitted /\ t.entry = r.entry
        /\ t.exitDate = exit[1] /\ t.exit = exit[2] /\ t.ret = <<r.entry, exit[2]>>
    BY <1>1, <1>3, <2>1, <2>3 DEF Snapshotted, Period, Coalesce, exit
  <2> HIDE DEF t
  <2>5. Journalable(t)
    BY <1>1, <2>3, <2>4 DEF Journalable, NoReturn
  <2> QED
    BY <2>5 DEF t
<1> QED
  BY <1>2, <1>3

\* A snapshot of all candles commits, and takes every position that is over to the journal.
SnapshotsReachJournal ==
    [][\A w \in Workers : WriteSnapshot(w) /\ proc[w].date = Latest =>
          \A i \in DOMAIN periods : PositionOver(i) => i \in DOMAIN journal']_vars

\* Whichever way a position ended - with its signal, by a sale or by the horizon - the next
\* snapshot that reads all candles journals it: the step that OverReachesJournal waits for.
THEOREM SnapshotsJournalAll ==
    ASSUME Sequential
    PROVE  Spec => SnapshotsReachJournal
<1>1. ASSUME IInv, SeqInv, Unrefused, NEW w \in Workers, WriteSnapshot(w),
             proc[w].date = Latest, NEW i \in DOMAIN periods, PositionOver(i)
      PROVE  i \in DOMAIN journal'
  <2> DEFINE d == proc[w].date
             ps == SnapshotResult(periods, periods, d, proc[w].fixed)
  <2>1. /\ proc[w].at = "write" /\ Handler(w) = "snapshot" /\ d \in Dates
        /\ At(w, {"snapshot"}, "write") /\ periods \in Seq(Period)
    BY <1>1, AtFacts DEF WriteSnapshot, IInv, TablesOK
  <2>2. Orderly /\ Reading(proc[w], periods) /\ Dated(proc[w])
    BY <1>1, <2>1, OrderlyPastEnsure
  <2>3. RunDay(proc[w], Latest) = d
    BY <1>1, <2>1, <2>2, RunDayFacts
  <2>4. /\ proc[w].seenActive = periods /\ periods[i] \in Period /\ RowOK(periods[i])
        /\ Ready(periods[i]) /\ periods[i].last <= d
    BY <2>1, <2>2, <2>3 DEF Orderly, Reading, Handler, TableOK, TableUpTo, RowUpTo
  <2>5. RespectsIndexes(ps)
    BY <1>1, <2>1, <2>4, SnapshotUnrefused
  <2>6. journal' = Appended(ps)
    BY <1>1, <2>4, <2>5 DEF WriteSnapshot, CommitPeriods
  <2>7. /\ periods[i].dir = "long" /\ periods[i].admitted # Null
        /\ \/ periods[i].status = "closed"
           \/ periods[i].status = "suppressed" /\ periods[i].exit # Null
           \/ periods[i].obs >= Horizon /\ HorizonDate(periods[i]) <= d
    BY <1>1 DEF PositionOver
  <2>8. DOMAIN ps = DOMAIN periods /\ ps[i] = Snapshotted(periods[i], periods[i], d, proc[w].fixed)
    <3>1. periods[i].entry # Null
      BY <2>4, <2>7 DEF Ready
    <3> QED
      BY <2>7, <3>1 DEF SnapshotResult
  <2> HIDE DEF ps
  <2>9. Journalable(ps[i])
    BY <2>1, <2>4, <2>7, <2>8, OverJournalable
  <2> QED
    BY <2>6, <2>8, <2>9 DEF Appended
<1>2. IInv /\ SeqInv /\ Unrefused =>
        (\A w \in Workers : WriteSnapshot(w) /\ proc[w].date = Latest =>
            \A i \in DOMAIN periods : PositionOver(i) => i \in DOMAIN journal')
  BY <1>1
<1> QED
  BY <1>2, Invariance, SeqInvariance, UnrefusedInvariance, PTL DEF SnapshotsReachJournal
=============================================================================
