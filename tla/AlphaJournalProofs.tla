------------------------- MODULE AlphaJournalProofs -------------------------
(***************************************************************************)
(* Proofs about AlphaJournal, for any number of connections, any horizon   *)
(* and any number of days.                                                 *)
(***************************************************************************)
EXTENDS AlphaJournal, FiniteSetTheorems, TLAPS

\* The scanners have a last date, and what they offer on a date appeared by then.
OffersOK ==
    /\ \A d \in DOMAIN offers : d <= latest
    /\ \A d \in DOMAIN offers :
          offers[d].dir # "none" => 1 <= offers[d].first /\ offers[d].first <= d
    /\ DOMAIN offers # {} => \E m \in DOMAIN offers : \A d \in DOMAIN offers : d <= m

\* What a handler may rely on at each of its steps.
WorkerOK(w) ==
    /\ proc[w].at = "fetch" => today > 1
    /\ proc[w].at = "date" => latest > 0
    /\ proc[w].at \in {"plan", "active", "sync", "expiring", "expire"} => proc[w].date # Null
    /\ proc[w].at \in {"active", "sync"} /\ proc[w].offer.dir # "none" =>
          /\ proc[w].date \in DOMAIN offers
          /\ 1 <= proc[w].offer.first /\ proc[w].offer.first <= proc[w].date
    /\ proc[w].id # 0 => proc[w].id \in DOMAIN trades

WorkersOK == \A w \in Workers : WorkerOK(w)

\* The inductive invariant.
IInv ==
    /\ TypeOK /\ latest < today /\ OffersOK /\ WorkersOK
    /\ OneActive /\ EpisodeTradedOnce /\ ExitWhole

-----------------------------------------------------------------------------
(* The scanners *)

\* The last synced date is a synced date.
LEMMA ScannedSynced ==
    ASSUME TypeOK, OffersOK, Scanned # 0
    PROVE  Scanned \in DOMAIN offers
<1>1. DOMAIN offers # {}
  BY DEF Scanned
<1>2. PICK m \in DOMAIN offers : \A d \in DOMAIN offers : d <= m
  BY <1>1 DEF OffersOK
<1>3. \A d \in DOMAIN offers : d \in Int
  BY DEF TypeOK, Dates
<1>4. \A d \in DOMAIN offers : m >= d
  BY <1>2, <1>3
<1> QED
  BY <1>1, <1>4 DEF Scanned, Max

\* A position that is offered on a synced date has been seen on at least one.
LEMMA AgeType ==
    ASSUME TypeOK, NEW d \in DOMAIN offers, NEW first \in Nat, first <= d
    PROVE  Age(first, d) \in Nat \ {0}
<1> DEFINE S == {e \in DOMAIN offers : first <= e /\ e <= d}
<1>1. d \in S
  BY DEF TypeOK, Dates
<1>2. IsFiniteSet(1..MaxDate)
  BY FS_Interval, ConstantsAssumption
<1>3. S \subseteq 1..MaxDate
  BY DEF TypeOK, Dates
<1>4. IsFiniteSet(S)
  BY <1>2, <1>3, FS_Subset
<1>5. Cardinality(S) \in Nat /\ Cardinality(S) # 0
  BY <1>1, <1>4, FS_CardinalityType, FS_EmptySet
<1> QED
  BY <1>5 DEF Age

-----------------------------------------------------------------------------
(* Rows *)

\* What IInv says of the journal, of any sequence of rows; before the migration its
\* episodes may have several valid rows.
Unmarked(ts) ==
    /\ ts \in Seq(Trade)
    /\ \A i, j \in DOMAIN ts :
          ts[i].status = "active" /\ ts[j].status = "active" => i = j
    /\ \A i \in DOMAIN ts : LET t == ts[i] IN
          IF t.status = "closed"
          THEN t.closed # Null /\ t.exit # Null /\ t.reason # "none"
          ELSE t.closed = Null /\ t.exit = Null /\ t.reason = "none"

Sound(ts) ==
    /\ Unmarked(ts)
    /\ \A i, j \in DOMAIN ts :
          /\ ts[i].canonical = 1 /\ ts[j].canonical = 1
          /\ Episode(ts[i]) = Episode(ts[j])
          => i = j

\* What NeverReopened says of a step, of any two sequences of rows.
Keeps(ts, us) ==
    \A i \in DOMAIN ts :
        /\ i \in DOMAIN us
        /\ ts[i].status = "closed" => us[i].status = "closed"
        /\ Episode(us[i]) = Episode(ts[i])
        /\ us[i].opened = ts[i].opened
        /\ us[i].age = ts[i].age

\* Marking the duplicates leaves one valid row of an episode.
LEMMA MarkedSound ==
    ASSUME NEW ts, Unmarked(ts)
    PROVE  Sound(Marked(ts)) /\ Keeps(ts, Marked(ts)) /\ DOMAIN Marked(ts) = DOMAIN ts
<1> DEFINE us == Marked(ts)
<1>1. ts \in Seq(Trade) /\ DOMAIN ts = 1..Len(ts) /\ Len(ts) \in Nat
  BY DEF Sound, Unmarked
<1>2. DOMAIN us = 1..Len(ts)
  BY <1>1 DEF Marked
<1>3. \A i \in DOMAIN ts :
         /\ us[i] \in Trade
         /\ us[i].status = ts[i].status /\ us[i].opened = ts[i].opened
         /\ us[i].age = ts[i].age /\ us[i].closed = ts[i].closed
         /\ us[i].exit = ts[i].exit /\ us[i].reason = ts[i].reason
         /\ us[i].dir = ts[i].dir /\ us[i].first = ts[i].first
         /\ us[i].canonical = 1 => i = Keeper(ts, Episode(ts[i]))
  <2> SUFFICES ASSUME NEW i \in DOMAIN ts
               PROVE  /\ us[i] \in Trade
                      /\ us[i].status = ts[i].status /\ us[i].opened = ts[i].opened
                      /\ us[i].age = ts[i].age /\ us[i].closed = ts[i].closed
                      /\ us[i].exit = ts[i].exit /\ us[i].reason = ts[i].reason
                      /\ us[i].dir = ts[i].dir /\ us[i].first = ts[i].first
                      /\ us[i].canonical = 1 => i = Keeper(ts, Episode(ts[i]))
    OBVIOUS
  <2> DEFINE mark == IF i = Keeper(ts, Episode(ts[i])) THEN 1 ELSE 0
  <2>1. us[i] = [ts[i] EXCEPT !.canonical = mark]
    BY DEF Marked
  <2>2. ts[i] \in Trade
    BY <1>1
  <2>3. mark \in {0, 1} /\ (mark = 1 => i = Keeper(ts, Episode(ts[i])))
    OBVIOUS
  <2> HIDE DEF mark, us
  <2> QED
    BY <2>1, <2>2, <2>3 DEF Trade
<1>4. us \in Seq(Trade)
  <2> HIDE DEF us
  <2>1. us = [i \in 1..Len(ts) |-> us[i]]
    BY <1>2 DEF us, Marked
  <2> QED
    BY <2>1, <1>1, <1>2, <1>3
<1>5. \A i \in DOMAIN ts : Episode(us[i]) = Episode(ts[i])
  BY <1>3 DEF Episode
<1> HIDE DEF us
<1>6. Keeps(ts, us)
  BY <1>1, <1>2, <1>3, <1>5 DEF Keeps
<1>7. Sound(us)
  BY <1>1, <1>2, <1>3, <1>4, <1>5 DEF Sound, Unmarked
<1> QED
  BY <1>1, <1>2, <1>6, <1>7 DEF us

\* A row that is updated without opening it again leaves the journal sound.
LEMMA UpdatedSound ==
    ASSUME NEW ts, Sound(ts), NEW n \in DOMAIN ts, NEW t \in Trade,
           t.dir = ts[n].dir, t.first = ts[n].first, t.opened = ts[n].opened,
           t.age = ts[n].age, t.canonical = ts[n].canonical,
           ts[n].status = "closed" => t.status = "closed",
           IF t.status = "closed"
           THEN t.closed # Null /\ t.exit # Null /\ t.reason # "none"
           ELSE t.closed = Null /\ t.exit = Null /\ t.reason = "none"
    PROVE  Sound([ts EXCEPT ![n] = t]) /\ Keeps(ts, [ts EXCEPT ![n] = t])
<1> DEFINE us == [ts EXCEPT ![n] = t]
<1>1. ts \in Seq(Trade)
  BY DEF Sound, Unmarked
<1>2. us \in Seq(Trade) /\ DOMAIN us = DOMAIN ts /\ us[n] = t
  BY <1>1
<1>3. \A i \in DOMAIN ts : i # n => us[i] = ts[i]
  BY <1>1
<1>4. Episode(t) = Episode(ts[n])
  BY DEF Episode
<1> HIDE DEF us
<1>5. \A i \in DOMAIN ts :
         /\ us[i].canonical = ts[i].canonical /\ Episode(us[i]) = Episode(ts[i])
         /\ us[i].opened = ts[i].opened /\ us[i].age = ts[i].age
         /\ ts[i].status = "closed" => us[i].status = "closed"
  BY <1>2, <1>3, <1>4
<1>6. \A i \in DOMAIN ts : us[i].status = "active" => ts[i].status = "active"
  <2> SUFFICES ASSUME NEW i \in DOMAIN ts, us[i].status = "active"
               PROVE  ts[i].status = "active"
    OBVIOUS
  <2>1. ts[i] \in Trade
    BY <1>1
  <2> QED
    BY <2>1, <1>5 DEF Trade
<1>7. Sound(us)
  <2>1. \A i \in DOMAIN us : LET r == us[i] IN
          IF r.status = "closed"
          THEN r.closed # Null /\ r.exit # Null /\ r.reason # "none"
          ELSE r.closed = Null /\ r.exit = Null /\ r.reason = "none"
    BY <1>2, <1>3 DEF Sound, Unmarked
  <2> QED
    BY <2>1, <1>2, <1>5, <1>6 DEF Sound, Unmarked
<1>8. Keeps(ts, us)
  BY <1>2, <1>5 DEF Keeps
<1> QED
  BY <1>7, <1>8 DEF us

\* The indexes keep the insertion from adding an active row or an episode twice.
LEMMA OpenedSound ==
    ASSUME NEW ts, Sound(ts), NEW c \in Offer, NEW d \in Date \ {Null},
           c.dir # "none" => Age(c.first, d) \in Nat \ {0}
    PROVE  Sound(Opened(ts, c, d)) /\ Keeps(ts, Opened(ts, c, d))
<1>1. CASE c.dir \in Directions /\ Openable(ts, NewTrade(c, d))
  <2> DEFINE t == NewTrade(c, d)  us == Append(ts, t)
  <2>1. /\ t \in Trade /\ t.status = "active" /\ t.canonical = 1
        /\ t.closed = Null /\ t.exit = Null /\ t.reason = "none"
    <3>1. c.dir \in Directions /\ c.first \in Date /\ Age(c.first, d) \in Nat \ {0}
      BY <1>1 DEF Directions, Offer
    <3>2. d \in Date /\ Null \in Date
      BY ConstantsAssumption DEF Date, Null
    <3> QED
      BY <3>1, <3>2 DEF NewTrade, Trade
  <2>2. ts \in Seq(Trade) /\ DOMAIN ts = 1..Len(ts) /\ Len(ts) \in Nat
    BY DEF Sound, Unmarked
  <2>3. \A i \in DOMAIN ts :
           /\ ts[i].status # "active"
           /\ ts[i].canonical = 1 => Episode(ts[i]) # Episode(t)
    BY <1>1 DEF Openable
  <2> HIDE DEF t
  <2>4. /\ us \in Seq(Trade) /\ DOMAIN us = 1..(Len(ts) + 1) /\ us[Len(ts) + 1] = t
        /\ \A i \in DOMAIN ts : us[i] = ts[i]
    BY <2>1, <2>2
  <2> HIDE DEF us
  <2>5. \A i \in DOMAIN us : i \in DOMAIN ts \/ i = Len(ts) + 1
    BY <2>2, <2>4
  <2>6. \A i, j \in DOMAIN us :
           us[i].status = "active" /\ us[j].status = "active" => i = j
    BY <2>3, <2>4, <2>5
  <2>7. \A i, j \in DOMAIN us :
          /\ us[i].canonical = 1 /\ us[j].canonical = 1
          /\ Episode(us[i]) = Episode(us[j])
          => i = j
    BY <2>3, <2>4, <2>5 DEF Sound, Unmarked
  <2>8. \A i \in DOMAIN us : LET r == us[i] IN
          IF r.status = "closed"
          THEN r.closed # Null /\ r.exit # Null /\ r.reason # "none"
          ELSE r.closed = Null /\ r.exit = Null /\ r.reason = "none"
    BY <2>1, <2>4, <2>5 DEF Sound, Unmarked
  <2>9. Sound(us)
    BY <2>4, <2>6, <2>7, <2>8 DEF Sound, Unmarked
  <2>10. Keeps(ts, us)
    BY <2>2, <2>4 DEF Keeps
  <2>11. Opened(ts, c, d) = us
    BY <1>1 DEF Opened, us, t
  <2> QED
    BY <2>9, <2>10, <2>11
<1>2. CASE ~(c.dir \in Directions /\ Openable(ts, NewTrade(c, d)))
  <2>1. Opened(ts, c, d) = ts
    BY <1>2 DEF Opened
  <2> QED
    BY <2>1 DEF Keeps
<1> QED
  BY <1>1, <1>2

LEMMA KeepsTransitive ==
    ASSUME NEW ts, NEW us, NEW vs, Keeps(ts, us), Keeps(us, vs)
    PROVE  Keeps(ts, vs)
BY DEF Keeps

\* An active row that is closed leaves the journal sound, and so does a closed one.
LEMMA ClosedSound ==
    ASSUME NEW ts, Sound(ts), NEW i \in DOMAIN ts, NEW d \in Date \ {Null},
           NEW exit \in {Live} \cup Date, exit # Null,
           NEW reason \in {"direction_changed", "signal_or_regime_filter",
                           "horizon_reached"}
    PROVE  LET us == [ts EXCEPT ![i] = ClosedTrade(@, d, exit, reason)]
           IN  Sound(us) /\ Keeps(ts, us)
<1> DEFINE t == ClosedTrade(ts[i], d, exit, reason)
<1>1. ts[i] \in Trade
  BY DEF Sound, Unmarked
<1>2. /\ t \in Trade /\ t.status = "closed" /\ t.closed = d /\ t.exit = exit
      /\ t.reason = reason /\ t.dir = ts[i].dir /\ t.first = ts[i].first
      /\ t.opened = ts[i].opened /\ t.age = ts[i].age
      /\ t.canonical = ts[i].canonical
  BY <1>1 DEF ClosedTrade, Trade
<1> HIDE DEF t
<1>3. Sound([ts EXCEPT ![i] = t]) /\ Keeps(ts, [ts EXCEPT ![i] = t])
  BY <1>2, UpdatedSound
<1> QED
  BY <1>3 DEF t

\* An update by id of what was seen last does not touch the exit.
LEMMA ReconfirmedSound ==
    ASSUME NEW ts, Sound(ts), NEW i \in DOMAIN ts, NEW d \in Date
    PROVE  LET us == [ts EXCEPT ![i] = Reconfirmed(@, d)]
           IN  Sound(us) /\ Keeps(ts, us)
<1> DEFINE t == Reconfirmed(ts[i], d)
<1>1. ts[i] \in Trade
  BY DEF Sound, Unmarked
<1>2. /\ t \in Trade /\ t.status = ts[i].status /\ t.closed = ts[i].closed
      /\ t.exit = ts[i].exit /\ t.reason = ts[i].reason /\ t.dir = ts[i].dir
      /\ t.first = ts[i].first /\ t.opened = ts[i].opened /\ t.age = ts[i].age
      /\ t.canonical = ts[i].canonical
  BY <1>1 DEF Reconfirmed, Trade
<1>3. IF ts[i].status = "closed"
      THEN ts[i].closed # Null /\ ts[i].exit # Null /\ ts[i].reason # "none"
      ELSE ts[i].closed = Null /\ ts[i].exit = Null /\ ts[i].reason = "none"
  BY DEF Sound, Unmarked
<1> HIDE DEF t
<1>4. Sound([ts EXCEPT ![i] = t]) /\ Keeps(ts, [ts EXCEPT ![i] = t])
  BY <1>2, <1>3, UpdatedSound
<1> QED
  BY <1>4 DEF t

\* A sync leaves the journal sound, whatever it read before.
LEMMA SyncedSound ==
    ASSUME NEW ts, Sound(ts), NEW i \in {0} \cup DOMAIN ts, NEW row,
           NEW c \in Offer, NEW d \in Date \ {Null},
           c.dir # "none" => Age(c.first, d) \in Nat \ {0}
    PROVE  Sound(Synced(ts, i, row, c, d)) /\ Keeps(ts, Synced(ts, i, row, c, d))
<1>1. CASE i = 0
  BY <1>1, OpenedSound DEF Synced
<1>2. CASE i # 0 /\ c.dir = row.dir
  <2>1. Synced(ts, i, row, c, d) = [ts EXCEPT ![i] = Reconfirmed(@, d)]
    BY <1>2 DEF Synced
  <2>2. i \in DOMAIN ts /\ d \in Date
    BY <1>2
  <2>3. LET us == [ts EXCEPT ![i] = Reconfirmed(@, d)] IN Sound(us) /\ Keeps(ts, us)
    BY <2>2, ReconfirmedSound
  <2> QED
    BY <2>1, <2>3
<1>3. CASE i # 0 /\ c.dir # row.dir /\ Deferred(row, d)
  <2>1. Synced(ts, i, row, c, d) = ts
    BY <1>3 DEF Synced
  <2> QED
    BY <2>1 DEF Keeps
<1>4. CASE i # 0 /\ c.dir # row.dir /\ ~Deferred(row, d)
  <2> DEFINE reason == IF c.dir \in Directions THEN "direction_changed"
                                               ELSE "signal_or_regime_filter"
             us == [ts EXCEPT ![i] = ClosedTrade(@, d, d, reason)]
  <2>1. Synced(ts, i, row, c, d) = Opened(us, c, d)
    BY <1>4 DEF Synced
  <2>2. reason \in {"direction_changed", "signal_or_regime_filter", "horizon_reached"}
    OBVIOUS
  <2> HIDE DEF reason
  <2>3. Sound(us) /\ Keeps(ts, us)
    BY <1>4, <2>2, ClosedSound
  <2> HIDE DEF us
  <2>4. Sound(Opened(us, c, d)) /\ Keeps(us, Opened(us, c, d))
    BY <2>3, OpenedSound
  <2>5. Keeps(ts, Opened(us, c, d))
    BY <2>3, <2>4, KeepsTransitive
  <2> QED
    BY <2>1, <2>4, <2>5
<1> QED
  BY <1>1, <1>2, <1>3, <1>4

\* So does the expiry.
LEMMA ExpiredSound ==
    ASSUME NEW ts, Sound(ts), NEW i \in DOMAIN ts, NEW row, NEW d \in Date \ {Null}
    PROVE  Sound(Expired(ts, i, row, d)) /\ Keeps(ts, Expired(ts, i, row, d))
<1>1. CASE PlannedClose(row) <= d /\ ts[i].status = "active"
  <2> DEFINE us == [ts EXCEPT ![i] = ClosedTrade(@, d, Live, "horizon_reached")]
  <2>1. Expired(ts, i, row, d) = us
    BY <1>1 DEF Expired
  <2>2. Live # Null
    BY DEF Live, Null
  <2>3. Sound(us) /\ Keeps(ts, us)
    BY <2>2, ClosedSound
  <2> HIDE DEF us
  <2> QED
    BY <2>1, <2>3
<1>2. CASE ~(PlannedClose(row) <= d /\ ts[i].status = "active")
  <2>1. Expired(ts, i, row, d) = ts
    BY <1>2 DEF Expired
  <2> QED
    BY <2>1 DEF Keeps
<1> QED
  BY <1>1, <1>2

-----------------------------------------------------------------------------
(* The inductive invariant *)

\* Of the tables, IInv asks what Sound says.
LEMMA SoundTrades ==
    Sound(trades) <=>
        trades \in Seq(Trade) /\ OneActive /\ EpisodeTradedOnce /\ ExitWhole
BY DEF Sound, Unmarked, OneActive, EpisodeTradedOnce, ExitWhole

\* The rows of before the index may be marked, too.
LEMMA LegacySound == Sound(Legacy)
<1> DEFINE a == [dir |-> "long", first |-> 1, opened |-> 1, age |-> 1, lastSeen |-> 2,
                 status |-> "closed", closed |-> 2, exit |-> 2,
                 reason |-> "signal_or_regime_filter", canonical |-> 1]
           b == [a EXCEPT !.opened = 2, !.age = 2, !.status = "active",
                          !.closed = Null, !.exit = Null, !.reason = "none"]
           ts == <<a, b>>
<1>1. 1 \in Date /\ 2 \in Date /\ Null \in Date
  BY ConstantsAssumption DEF Date, Null
<1>2. a \in Trade /\ b \in Trade
  <2>1. a \in Trade
    BY <1>1 DEF Trade, Directions
  <2>2. 2 \in Nat \ {0} /\ Null \in {Live} \cup Date
    BY <1>1
  <2> HIDE DEF a
  <2>3. b \in Trade
    BY <1>1, <2>1, <2>2 DEF Trade
  <2> QED
    BY <2>1, <2>3
<1>3. /\ a.status = "closed" /\ a.closed # Null /\ a.exit # Null /\ a.reason # "none"
      /\ b.status = "active" /\ b.closed = Null /\ b.exit = Null /\ b.reason = "none"
  BY DEF Null
<1>4. Legacy = Marked(ts)
  BY DEF Legacy
<1> HIDE DEF a, b
<1>5. ts \in Seq(Trade) /\ DOMAIN ts = {1, 2} /\ ts[1] = a /\ ts[2] = b
  BY <1>2
<1> HIDE DEF ts
<1>6. Unmarked(ts)
  BY <1>3, <1>5 DEF Unmarked
<1> QED
  BY <1>4, <1>6, MarkedSound

LEMMA InitIInv == Init => IInv
<1> SUFFICES ASSUME Init PROVE IInv
  OBVIOUS
<1>1. NoOffer \in Offer /\ NoOffer.dir = "none"
  BY ConstantsAssumption DEF NoOffer, Offer, Date, Null
<1>2. Idle \in Proc /\ Idle.at = "idle" /\ Idle.offer = NoOffer /\ Idle.id = 0
  BY <1>1, ConstantsAssumption DEF Idle, Proc, Date, Null
<1>3. proc \in [Workers -> Proc] /\ WorkersOK
  <2>1. proc = [w \in Workers |-> Idle]
    BY DEF Init
  <2> QED
    BY <2>1, <1>1, <1>2 DEF WorkersOK, WorkerOK
<1>4. /\ today \in 1..(MaxDate + 1) /\ latest \in 0..MaxDate /\ latest < today
  BY ConstantsAssumption DEF Init
<1>5. /\ DOMAIN offers \subseteq Dates
      /\ \A d \in DOMAIN offers : offers[d] = NoOffer /\ d <= latest
      /\ DOMAIN offers = {} \/ DOMAIN offers = {1, 2}
  BY ConstantsAssumption DEF Init, Dates
<1>6. OffersOK
  BY <1>1, <1>5 DEF OffersOK
<1>7. Sound(trades)
  <2>1. CASE trades = <<>>
    <3>1. trades \in Seq(Trade) /\ DOMAIN trades = {}
      BY <2>1
    <3> QED
      BY <3>1 DEF Sound, Unmarked
  <2> QED
    BY <2>1, LegacySound DEF Init
<1>8. TypeOK
  BY <1>1, <1>3, <1>4, <1>5, <1>7, SoundTrades DEF TypeOK
<1> QED
  BY <1>3, <1>4, <1>6, <1>7, <1>8, SoundTrades DEF IInv

\* The clock, the prices, the scanners and the journal only grow, and whoever steps
\* keeps what it relies on: then everyone does.
LEMMA WorkersKept ==
    ASSUME WorkersOK, latest \in Int, latest' \in Int, latest <= latest',
           today \in Int, today' \in Int, today <= today',
           DOMAIN offers \subseteq DOMAIN offers', DOMAIN trades \subseteq DOMAIN trades',
           \A v \in Workers : proc'[v] = proc[v] \/ WorkerOK(v)'
    PROVE  WorkersOK'
<1> SUFFICES ASSUME NEW v \in Workers PROVE WorkerOK(v)'
  BY DEF WorkersOK
<1>1. CASE proc'[v] = proc[v]
  <2>1. WorkerOK(v)
    BY DEF WorkersOK
  <2> QED
    BY <1>1, <2>1 DEF WorkerOK
<1> QED
  BY <1>1

\* The invariant in its parts.
Parts ==
    /\ today \in 1..(MaxDate + 1) /\ latest \in 0..MaxDate /\ latest < today
    /\ DOMAIN offers \subseteq Dates
    /\ \A d \in DOMAIN offers : offers[d] \in Offer
    /\ OffersOK /\ Sound(trades)
    /\ proc \in [Workers -> Proc] /\ WorkersOK

LEMMA IInvParts == (IInv <=> Parts) /\ (IInv' <=> Parts')
<1>1. IInv <=> Parts
  BY SoundTrades DEF IInv, TypeOK, Parts
<1>2. (Sound(trades))' <=>
          (trades \in Seq(Trade) /\ OneActive /\ EpisodeTradedOnce /\ ExitWhole)'
  BY SoundTrades, PTL
<1>3. IInv' <=> Parts'
  BY <1>2 DEF IInv, TypeOK, Parts
<1> QED
  BY <1>1, <1>3

LEMMA KeepsItself == Keeps(trades, trades)
BY DEF Keeps

\* A scan adds the newest data date, or nothing.
LEMMA ScanOK ==
    ASSUME IInv, Scan, latest' = latest
    PROVE  /\ DOMAIN offers \subseteq DOMAIN offers' /\ DOMAIN offers' \subseteq Dates
           /\ \A d \in DOMAIN offers' : offers'[d] \in Offer
           /\ OffersOK'
<1> USE IInvParts DEF Parts
<1>1. CASE latest \in DOMAIN offers
  <2>1. offers' = offers
    BY <1>1 DEF Scan
  <2> QED
    BY <2>1 DEF OffersOK
<1>2. CASE latest \notin DOMAIN offers
  <2>1. PICK c \in Candidates(latest) :
           offers' = [d \in DOMAIN offers \cup {latest} |->
                         IF d = latest THEN c ELSE offers[d]]
    BY <1>2 DEF Scan
  <2>2. latest \in Dates /\ latest \in Date /\ Null \in Date /\ Dates \subseteq Date
    BY ConstantsAssumption DEF Scan, Dates, Date, Null
  <2>3. c \in Offer /\ (c.dir # "none" => c.first \in DOMAIN offers \cup {latest})
    BY <2>2 DEF Candidates, Offer, NoOffer
  <2>4. /\ DOMAIN offers' = DOMAIN offers \cup {latest} /\ offers'[latest] = c
        /\ \A d \in DOMAIN offers : offers'[d] = offers[d]
    BY <1>2, <2>1
  <2>5. \A d \in DOMAIN offers' : d \in Nat \ {0} /\ d <= latest
    BY <2>2, <2>4 DEF OffersOK, Dates
  <2>6. \A d \in DOMAIN offers' :
           offers'[d].dir # "none" => 1 <= offers'[d].first /\ offers'[d].first <= d
    BY <2>3, <2>4, <2>5 DEF OffersOK
  <2>7. OffersOK'
    BY <2>4, <2>5, <2>6 DEF OffersOK
  <2> QED
    BY <2>2, <2>3, <2>4, <2>7
<1> QED
  BY <1>1, <1>2

\* A step that leaves the workers alone.
LEMMA OthersStep ==
    ASSUME IInv, Midnight \/ PageScan \/ Sell
    PROVE  IInv' /\ Keeps(trades, trades')
<1> USE IInvParts DEF Parts
<1>1. CASE Midnight
  <2>1. /\ today' = today + 1 /\ today <= MaxDate /\ latest' = latest
        /\ offers' = offers /\ trades' = trades /\ proc' = proc
    BY <1>1 DEF Midnight
  <2>2. WorkersOK'
    BY <2>1, WorkersKept
  <2>3. OffersOK' /\ Sound(trades') /\ Keeps(trades, trades')
    BY <2>1, KeepsItself DEF OffersOK
  <2> QED
    BY <2>1, <2>2, <2>3, ConstantsAssumption
<1>2. CASE PageScan
  <2>1. /\ Scan /\ today' = today /\ latest' = latest /\ trades' = trades /\ proc' = proc
    BY <1>2 DEF PageScan
  <2>2. /\ DOMAIN offers \subseteq DOMAIN offers' /\ DOMAIN offers' \subseteq Dates
        /\ \A d \in DOMAIN offers' : offers'[d] \in Offer
        /\ OffersOK'
    BY <2>1, ScanOK
  <2>3. WorkersOK'
    BY <2>1, <2>2, WorkersKept
  <2>4. Sound(trades') /\ Keeps(trades, trades')
    BY <2>1, KeepsItself
  <2> QED
    BY <2>1, <2>2, <2>3, <2>4
<1>3. CASE Sell
  <2>1. /\ offers' = [offers EXCEPT ![Scanned] = NoOffer] /\ today' = today
        /\ latest' = latest /\ trades' = trades /\ proc' = proc
    BY <1>3 DEF Sell
  <2>2. NoOffer \in Offer /\ NoOffer.dir = "none"
    BY ConstantsAssumption DEF NoOffer, Offer, Date, Null
  <2>3. /\ DOMAIN offers' = DOMAIN offers
        /\ \A d \in DOMAIN offers : offers'[d] = offers[d] \/ offers'[d] = NoOffer
    BY <2>1
  <2>4. OffersOK'
    BY <2>1, <2>2, <2>3 DEF OffersOK
  <2>5. WorkersOK'
    BY <2>1, <2>3, WorkersKept
  <2>6. Sound(trades') /\ Keeps(trades, trades')
    BY <2>1, KeepsItself
  <2> QED
    BY <2>1, <2>2, <2>3, <2>4, <2>5, <2>6
<1> QED
  BY <1>1, <1>2, <1>3

\* What a step changes of the worker that takes it.
LEMMA OneSteps ==
    ASSUME proc \in [Workers -> Proc], NEW w \in Workers, NEW p \in Proc,
           proc' = [proc EXCEPT ![w] = p]
    PROVE  /\ proc' \in [Workers -> Proc] /\ proc'[w] = p
           /\ \A v \in Workers : v # w => proc'[v] = proc[v]
OBVIOUS

LEMMA IdleProc ==
    Idle \in Proc /\ Idle.at = "idle" /\ Idle.id = 0
BY ConstantsAssumption DEF Idle, Proc, Offer, NoOffer, Date, Null

\* The steps that read, and the end of a handler that failed.
LEMMA ReadStep ==
    ASSUME IInv, NEW w \in Workers,
           BeginPipeline(w) \/ Fetch(w) \/ ScanStep(w) \/ ReadDate(w) \/ ReadPlan(w)
               \/ BeginExpire(w) \/ Abandon(w)
    PROVE  IInv' /\ Keeps(trades, trades')
<1> USE IInvParts DEF Parts
<1>0. proc[w] \in Proc /\ WorkerOK(w)
  BY DEF WorkersOK
<1>00. latest \in Date /\ today \in Date
  BY ConstantsAssumption DEF Date
<1>1. CASE BeginPipeline(w)
  <2> DEFINE p == [proc[w] EXCEPT !.at = "fetch"]
  <2>1. /\ proc' = [proc EXCEPT ![w] = p] /\ today > 1 /\ today' = today
        /\ latest' = latest /\ offers' = offers /\ trades' = trades
    BY <1>1 DEF BeginPipeline, Goto
  <2>2. p \in Proc /\ p.at = "fetch" /\ p.id = proc[w].id
    BY <1>0 DEF Proc
  <2> HIDE DEF p
  <2>3. proc' \in [Workers -> Proc] /\ proc'[w] = p
        /\ \A v \in Workers : v # w => proc'[v] = proc[v]
    BY <2>1, <2>2, OneSteps
  <2>4. WorkerOK(w)'
    BY <1>0, <2>1, <2>2, <2>3 DEF WorkerOK
  <2>5. WorkersOK'
    BY <2>1, <2>3, <2>4, WorkersKept
  <2>6. OffersOK' /\ Sound(trades') /\ Keeps(trades, trades')
    BY <2>1, KeepsItself DEF OffersOK
  <2> QED
    BY <2>1, <2>3, <2>5, <2>6
<1>2. CASE Fetch(w)
  <2> DEFINE p == [proc[w] EXCEPT !.at = "scan"]
  <2>1. /\ proc' = [proc EXCEPT ![w] = p] /\ today > 1 /\ today' = today
        /\ latest' = today - 1 /\ offers' = offers /\ trades' = trades
    BY <1>0, <1>2 DEF Fetch, Goto, WorkerOK
  <2>2. p \in Proc /\ p.at = "scan" /\ p.id = proc[w].id
    BY <1>0 DEF Proc
  <2> HIDE DEF p
  <2>3. proc' \in [Workers -> Proc] /\ proc'[w] = p
        /\ \A v \in Workers : v # w => proc'[v] = proc[v]
    BY <2>1, <2>2, OneSteps
  <2>4. WorkerOK(w)'
    BY <1>0, <2>1, <2>2, <2>3 DEF WorkerOK
  <2>5. latest' \in 0..MaxDate /\ latest <= latest' /\ latest' < today'
    BY <2>1, ConstantsAssumption
  <2>6. WorkersOK'
    BY <2>1, <2>3, <2>4, <2>5, WorkersKept
  <2>7. \A d \in DOMAIN offers' : d <= latest'
    <3>1. \A d \in DOMAIN offers : d \in Nat /\ d <= latest
      BY DEF OffersOK, Dates
    <3> QED
      BY <2>1, <2>5, <3>1, ConstantsAssumption
  <2>8. OffersOK'
    BY <2>1, <2>7 DEF OffersOK
  <2>9. Sound(trades') /\ Keeps(trades, trades')
    BY <2>1, KeepsItself
  <2> QED
    BY <2>1, <2>3, <2>5, <2>6, <2>8, <2>9
<1>3. CASE ScanStep(w)
  <2> DEFINE p == [proc[w] EXCEPT !.at = "date"]
  <2>1. /\ proc' = [proc EXCEPT ![w] = p] /\ Scan /\ latest > 0 /\ today' = today
        /\ latest' = latest /\ trades' = trades
    BY <1>3 DEF ScanStep, Goto, Scan
  <2>2. p \in Proc /\ p.at = "date" /\ p.id = proc[w].id
    BY <1>0 DEF Proc
  <2> HIDE DEF p
  <2>3. proc' \in [Workers -> Proc] /\ proc'[w] = p
        /\ \A v \in Workers : v # w => proc'[v] = proc[v]
    BY <2>1, <2>2, OneSteps
  <2>4. WorkerOK(w)'
    BY <1>0, <2>1, <2>2, <2>3 DEF WorkerOK
  <2>5. /\ DOMAIN offers \subseteq DOMAIN offers' /\ DOMAIN offers' \subseteq Dates
        /\ \A d \in DOMAIN offers' : offers'[d] \in Offer
        /\ OffersOK'
    BY <2>1, ScanOK
  <2>6. WorkersOK'
    BY <2>1, <2>3, <2>4, <2>5, WorkersKept
  <2>7. Sound(trades') /\ Keeps(trades, trades')
    BY <2>1, KeepsItself
  <2> QED
    BY <2>1, <2>3, <2>5, <2>6, <2>7
<1>4. CASE ReadDate(w)
  <2> DEFINE p == [proc[w] EXCEPT !.at = "plan", !.date = latest]
  <2>1. /\ proc' = [proc EXCEPT ![w] = p] /\ latest > 0 /\ today' = today
        /\ latest' = latest /\ offers' = offers /\ trades' = trades
    BY <1>0, <1>4 DEF ReadDate, WorkerOK
  <2>2. p \in Proc /\ p.at = "plan" /\ p.id = proc[w].id /\ p.date = latest
    BY <1>0, <1>00 DEF Proc
  <2> HIDE DEF p
  <2>3. proc' \in [Workers -> Proc] /\ proc'[w] = p
        /\ \A v \in Workers : v # w => proc'[v] = proc[v]
    BY <2>1, <2>2, OneSteps
  <2>4. WorkerOK(w)'
    BY <1>0, <2>1, <2>2, <2>3 DEF WorkerOK, Null
  <2>5. WorkersOK'
    BY <2>1, <2>3, <2>4, WorkersKept
  <2>6. OffersOK' /\ Sound(trades') /\ Keeps(trades, trades')
    BY <2>1, KeepsItself DEF OffersOK
  <2> QED
    BY <2>1, <2>3, <2>5, <2>6
<1>5. CASE ReadPlan(w)
  <2> DEFINE d == proc[w].date
             p == [proc[w] EXCEPT !.at = "active", !.offer = Plan(d)]
  <2>1. /\ proc' = [proc EXCEPT ![w] = p] /\ d # Null /\ today' = today
        /\ latest' = latest /\ offers' = offers /\ trades' = trades
    BY <1>0, <1>5 DEF ReadPlan, WorkerOK
  <2>2. /\ Plan(d) \in Offer
        /\ Plan(d).dir # "none" => /\ d \in DOMAIN offers
                                   /\ 1 <= Plan(d).first /\ Plan(d).first <= d
    <3>1. CASE Scanned = d /\ d # 0
      <4>1. d \in DOMAIN offers
        BY <3>1, ScannedSynced DEF IInv
      <4>2. Plan(d) = offers[d]
        BY <3>1 DEF Plan
      <4> QED
        BY <4>1, <4>2 DEF OffersOK
    <3>2. CASE ~(Scanned = d /\ d # 0)
      <4>1. Plan(d) = NoOffer
        BY <3>2 DEF Plan
      <4> QED
        BY <4>1, ConstantsAssumption DEF NoOffer, Offer, Date, Null
    <3> QED
      BY <3>1, <3>2
  <2>3. /\ p \in Proc /\ p.at = "active" /\ p.id = proc[w].id /\ p.date = d
        /\ p.offer = Plan(d)
    BY <1>0, <2>2 DEF Proc
  <2> HIDE DEF p
  <2>4. proc' \in [Workers -> Proc] /\ proc'[w] = p
        /\ \A v \in Workers : v # w => proc'[v] = proc[v]
    BY <2>1, <2>3, OneSteps
  <2>5. WorkerOK(w)'
    BY <1>0, <2>1, <2>2, <2>3, <2>4 DEF WorkerOK
  <2>6. WorkersOK'
    BY <2>1, <2>4, <2>5, WorkersKept
  <2>7. OffersOK' /\ Sound(trades') /\ Keeps(trades, trades')
    BY <2>1, KeepsItself DEF OffersOK
  <2> QED
    BY <2>1, <2>4, <2>6, <2>7
<1>6. CASE BeginExpire(w)
  <2>1. PICK priced \in {"yes", "no"} :
           proc' = [proc EXCEPT ![w].at = "expiring", ![w].date = today,
                                ![w].priced = priced]
    BY <1>6 DEF BeginExpire
  <2> DEFINE p == [proc[w] EXCEPT !.at = "expiring", !.date = today, !.priced = priced]
  <2>2. /\ proc' = [proc EXCEPT ![w] = p] /\ today' = today
        /\ latest' = latest /\ offers' = offers /\ trades' = trades
    BY <1>6, <2>1 DEF BeginExpire
  <2>3. p \in Proc /\ p.at = "expiring" /\ p.id = proc[w].id /\ p.date = today
    BY <1>0, <1>00 DEF Proc
  <2> HIDE DEF p
  <2>4. proc' \in [Workers -> Proc] /\ proc'[w] = p
        /\ \A v \in Workers : v # w => proc'[v] = proc[v]
    BY <2>2, <2>3, OneSteps
  <2>5. WorkerOK(w)'
    BY <1>0, <2>2, <2>3, <2>4 DEF WorkerOK, Null
  <2>6. WorkersOK'
    BY <2>2, <2>4, <2>5, WorkersKept
  <2>7. OffersOK' /\ Sound(trades') /\ Keeps(trades, trades')
    BY <2>2, KeepsItself DEF OffersOK
  <2> QED
    BY <2>2, <2>4, <2>6, <2>7
<1>7. CASE Abandon(w)
  <2>1. /\ proc' = [proc EXCEPT ![w] = Idle] /\ today' = today
        /\ latest' = latest /\ offers' = offers /\ trades' = trades
    BY <1>7 DEF Abandon
  <2>2. proc' \in [Workers -> Proc] /\ proc'[w] = Idle
        /\ \A v \in Workers : v # w => proc'[v] = proc[v]
    BY <2>1, IdleProc, OneSteps
  <2>3. WorkerOK(w)'
    BY <2>2, IdleProc DEF WorkerOK
  <2>4. WorkersOK'
    BY <2>1, <2>2, <2>3, WorkersKept
  <2>5. OffersOK' /\ Sound(trades') /\ Keeps(trades, trades')
    BY <2>1, KeepsItself DEF OffersOK
  <2> QED
    BY <2>1, <2>2, <2>4, <2>5
<1> QED
  BY <1>1, <1>2, <1>3, <1>4, <1>5, <1>6, <1>7

\* The steps that write the journal.
LEMMA WriteStep ==
    ASSUME IInv, NEW w \in Workers, ReadActive(w) \/ WriteSync(w) \/ WriteExpire(w)
    PROVE  IInv' /\ Keeps(trades, trades')
<1> USE IInvParts DEF Parts
<1>0. proc[w] \in Proc /\ WorkerOK(w)
  BY DEF WorkersOK
<1>1. CASE ReadActive(w)
  <2> DEFINE next == IF proc[w].at = "active" THEN "sync" ELSE "expire"
  <2>1. /\ proc[w].at \in {"active", "expiring"} /\ trades' = Marked(trades)
        /\ today' = today /\ latest' = latest /\ offers' = offers
    BY <1>1 DEF ReadActive
  <2>2. Sound(trades') /\ Keeps(trades, trades') /\ DOMAIN trades' = DOMAIN trades
    BY <2>1, MarkedSound DEF Sound
  <2>3. next \in {"sync", "expire"} /\ (next = "sync" => proc[w].at = "active")
    OBVIOUS
  <2>4. \E p \in Proc : /\ proc' = [proc EXCEPT ![w] = p] /\ p.at = next
                        /\ p.id \in {proc[w].id} \cup DOMAIN trades'
                        /\ p.date = proc[w].date /\ p.offer = proc[w].offer
    <3> HIDE DEF next
    <3>1. CASE Tracked(trades') = {}
      <4> DEFINE p == [proc[w] EXCEPT !.at = next]
      <4>1. proc' = [proc EXCEPT ![w] = p]
        BY <1>1, <3>1 DEF ReadActive, Goto, next
      <4>2. /\ p \in Proc /\ p.at = next /\ p.id = proc[w].id
            /\ p.date = proc[w].date /\ p.offer = proc[w].offer
        BY <1>0, <2>3 DEF Proc
      <4> QED
        BY <4>1, <4>2
    <3>2. CASE Tracked(trades') # {}
      <4>1. PICK i \in Tracked(trades') :
               proc' = [proc EXCEPT ![w].at = next, ![w].id = i, ![w].row = trades'[i]]
        BY <1>1, <3>2 DEF ReadActive, next
      <4> DEFINE p == [proc[w] EXCEPT !.at = next, !.id = i, !.row = trades'[i]]
      <4>2. proc' = [proc EXCEPT ![w] = p]
        BY <4>1
      <4>3. i \in DOMAIN trades' /\ i \in Nat /\ trades'[i] \in Trade
        BY <2>2 DEF Tracked, Sound, Unmarked
      <4>4. /\ p \in Proc /\ p.at = next /\ p.id = i
            /\ p.date = proc[w].date /\ p.offer = proc[w].offer
        BY <1>0, <2>3, <4>3 DEF Proc
      <4> QED
        BY <4>2, <4>3, <4>4
    <3> QED
      BY <3>1, <3>2
  <2>5. PICK p \in Proc : /\ proc' = [proc EXCEPT ![w] = p] /\ p.at = next
                         /\ p.id \in {proc[w].id} \cup DOMAIN trades'
                         /\ p.date = proc[w].date /\ p.offer = proc[w].offer
    BY <2>4
  <2> HIDE DEF next
  <2>6. proc' \in [Workers -> Proc] /\ proc'[w] = p
        /\ \A v \in Workers : v # w => proc'[v] = proc[v]
    BY <2>5, OneSteps
  <2>7. WorkerOK(w)'
    BY <1>0, <2>1, <2>2, <2>3, <2>5, <2>6 DEF WorkerOK
  <2>8. WorkersOK'
    BY <2>1, <2>2, <2>6, <2>7, WorkersKept
  <2>9. OffersOK'
    BY <2>1 DEF OffersOK
  <2> QED
    BY <2>1, <2>2, <2>6, <2>8, <2>9
<1>2. CASE WriteSync(w) \/ WriteExpire(w)
  <2>1. /\ proc' = [proc EXCEPT ![w] = Idle] /\ today' = today
        /\ latest' = latest /\ offers' = offers
    BY <1>2 DEF WriteSync, WriteExpire
  <2>2. proc[w].date \in Date \ {Null} /\ proc[w].id \in {0} \cup DOMAIN trades
    BY <1>0, <1>2 DEF WriteSync, WriteExpire, WorkerOK, Proc
  <2>3. Sound(trades') /\ Keeps(trades, trades')
    <3>1. CASE WriteSync(w)
      <4> DEFINE c == proc[w].offer  d == proc[w].date
      <4>1. trades' = Synced(trades, proc[w].id, proc[w].row, c, d)
        BY <3>1 DEF WriteSync
      <4>2. c \in Offer
        BY <1>0 DEF Proc
      <4>3. ASSUME c.dir # "none" PROVE Age(c.first, d) \in Nat \ {0}
        <5>1. d \in DOMAIN offers /\ 1 <= c.first /\ c.first <= d
          BY <1>0, <3>1, <4>3 DEF WorkerOK, WriteSync
        <5>2. c.first \in Nat
          BY <4>2 DEF Offer, Date
        <5> QED
          BY <5>1, <5>2, AgeType DEF IInv
      <4> QED
        BY <2>2, <4>1, <4>2, <4>3, SyncedSound
    <3>2. CASE WriteExpire(w)
      <4>1. CASE proc[w].id # 0 /\ proc[w].priced = "yes"
        <5>1. trades' = Expired(trades, proc[w].id, proc[w].row, proc[w].date)
          BY <3>2, <4>1 DEF WriteExpire
        <5>2. proc[w].id \in DOMAIN trades
          BY <2>2, <4>1
        <5> QED
          BY <2>2, <5>1, <5>2, ExpiredSound
      <4>2. CASE ~(proc[w].id # 0 /\ proc[w].priced = "yes")
        <5>1. trades' = trades
          BY <3>2, <4>2 DEF WriteExpire
        <5> QED
          BY <5>1, KeepsItself
      <4> QED
        BY <4>1, <4>2
    <3> QED
      BY <1>2, <3>1, <3>2
  <2>4. DOMAIN trades \subseteq DOMAIN trades'
    BY <2>3 DEF Keeps
  <2>5. proc' \in [Workers -> Proc] /\ proc'[w] = Idle
        /\ \A v \in Workers : v # w => proc'[v] = proc[v]
    BY <2>1, IdleProc, OneSteps
  <2>6. WorkerOK(w)'
    BY <2>5, IdleProc DEF WorkerOK
  <2>7. WorkersOK'
    BY <2>1, <2>4, <2>5, <2>6, WorkersKept
  <2>8. OffersOK'
    BY <2>1 DEF OffersOK
  <2> QED
    BY <2>1, <2>3, <2>5, <2>7, <2>8
<1> QED
  BY <1>1, <1>2

LEMMA NextStep == IInv /\ [Next]_vars => IInv' /\ Keeps(trades, trades')
<1> SUFFICES ASSUME IInv, [Next]_vars PROVE IInv' /\ Keeps(trades, trades')
  OBVIOUS
<1>1. CASE Midnight \/ PageScan \/ Sell
  BY <1>1, OthersStep
<1>2. ASSUME NEW w \in Workers,
             BeginPipeline(w) \/ Pipeline(w) \/ BeginExpire(w) \/ WriteExpire(w)
                 \/ Abandon(w)
      PROVE  IInv' /\ Keeps(trades, trades')
  <2>1. CASE BeginPipeline(w) \/ Fetch(w) \/ ScanStep(w) \/ ReadDate(w) \/ ReadPlan(w)
                 \/ BeginExpire(w) \/ Abandon(w)
    BY <2>1, ReadStep
  <2>2. CASE ReadActive(w) \/ WriteSync(w) \/ WriteExpire(w)
    BY <2>2, WriteStep
  <2> QED
    BY <1>2, <2>1, <2>2 DEF Pipeline
<1>3. CASE UNCHANGED vars
  <2>1. /\ today' = today /\ latest' = latest /\ offers' = offers
        /\ trades' = trades /\ proc' = proc
    BY <1>3 DEF vars
  <2>2. WorkersOK' /\ OffersOK'
    BY <2>1, IInvParts DEF Parts, WorkersOK, WorkerOK, OffersOK
  <2> QED
    BY <2>1, <2>2, IInvParts, KeepsItself DEF Parts
<1> QED
  BY <1>1, <1>2, <1>3 DEF Next

LEMMA Invariance == Spec => []IInv
BY InitIInv, NextStep, PTL DEF Spec

-----------------------------------------------------------------------------
(* The marks: ReadActive marks the duplicates and reads in one step, while   *)
(* the code commits the marks first.  That is the same as long as there is   *)
(* nothing to mark, which is what this section shows.                        *)

\* Row i is the one its episode keeps: the first closed one, or else the first.
Keeps1st(ts, i) ==
    \A j \in DOMAIN ts : Episode(ts[j]) = Episode(ts[i]) =>
        IF ts[i].status = "closed" THEN ts[j].status = "closed" => i <= j
                                   ELSE ts[j].status # "closed" /\ i <= j

\* The marked rows are those that are kept, and every episode has one.
MarkedRight(ts) ==
    \A i \in DOMAIN ts :
        IF ts[i].canonical = 1 THEN Keeps1st(ts, i)
        ELSE \E k \in DOMAIN ts : Episode(ts[k]) = Episode(ts[i]) /\ ts[k].canonical = 1

SameMarks(ts, us) ==
    \A i \in DOMAIN ts : i \in DOMAIN us /\ us[i].canonical = ts[i].canonical

LEMMA KeeperIs ==
    ASSUME NEW ts \in Seq(Trade), NEW i \in DOMAIN ts, Keeps1st(ts, i)
    PROVE  Keeper(ts, Episode(ts[i])) = i
<1> DEFINE rows   == {j \in DOMAIN ts : Episode(ts[j]) = Episode(ts[i])}
           closed == {j \in rows : ts[j].status = "closed"}
           S == IF closed # {} THEN closed ELSE rows
<1>1. i \in S /\ \A j \in S : i <= j
  BY DEF Keeps1st
<1>2. \A j \in S : j \in Int
  OBVIOUS
<1>3. Keeper(ts, Episode(ts[i])) = Min(S)
  BY DEF Keeper
<1> HIDE DEF S
<1> QED
  BY <1>1, <1>2, <1>3 DEF Min

LEMMA MarkedFixed ==
    ASSUME NEW ts \in Seq(Trade), MarkedRight(ts)
    PROVE  Marked(ts) = ts
<1> DEFINE mark(i) == IF i = Keeper(ts, Episode(ts[i])) THEN 1 ELSE 0
<1>1. ASSUME NEW i \in DOMAIN ts PROVE [ts[i] EXCEPT !.canonical = mark(i)] = ts[i]
  <2>1. ts[i] \in Trade
    OBVIOUS
  <2>2. mark(i) = ts[i].canonical
    <3>1. CASE ts[i].canonical = 1
      BY <3>1, KeeperIs DEF MarkedRight
    <3>2. CASE ts[i].canonical # 1
      <4>1. PICK k \in DOMAIN ts : Episode(ts[k]) = Episode(ts[i]) /\ ts[k].canonical = 1
        BY <3>2 DEF MarkedRight
      <4>2. Keeper(ts, Episode(ts[i])) = k
        BY <4>1, KeeperIs DEF MarkedRight
      <4>3. ts[i].canonical = 0
        BY <2>1, <3>2 DEF Trade
      <4> QED
        BY <3>2, <4>1, <4>2, <4>3
    <3> QED
      BY <3>1, <3>2
  <2> HIDE DEF mark
  <2> QED
    BY <2>1, <2>2 DEF Trade
<1>2. Marked(ts) = [i \in DOMAIN ts |-> [ts[i] EXCEPT !.canonical = mark(i)]]
  BY DEF Marked
<1> HIDE DEF mark
<1>3. Marked(ts) = [i \in DOMAIN ts |-> ts[i]]
  BY <1>1, <1>2
<1> QED
  BY <1>3

\* A marked row that is updated without opening it again is still the one that is kept.
LEMMA UpdatedRight ==
    ASSUME NEW ts, Sound(ts), MarkedRight(ts), NEW n \in DOMAIN ts, ts[n].canonical = 1,
           NEW t, t.dir = ts[n].dir, t.first = ts[n].first, t.canonical = 1,
           ts[n].status = "closed" => t.status = "closed"
    PROVE  MarkedRight([ts EXCEPT ![n] = t]) /\ SameMarks(ts, [ts EXCEPT ![n] = t])
<1> DEFINE us == [ts EXCEPT ![n] = t]
<1>1. ts \in Seq(Trade) /\ DOMAIN us = DOMAIN ts /\ DOMAIN ts \subseteq Int
      /\ us[n] = t /\ \A i \in DOMAIN ts : i # n => us[i] = ts[i]
  BY DEF Sound, Unmarked
<1> HIDE DEF us
<1>2. \A i \in DOMAIN ts : Episode(us[i]) = Episode(ts[i]) /\ us[i].canonical = ts[i].canonical
  BY <1>1 DEF Episode
<1>3. ASSUME NEW i \in DOMAIN ts, ts[i].canonical = 1 PROVE Keeps1st(us, i)
  <2>1. Keeps1st(ts, i)
    BY <1>3 DEF MarkedRight
  <2>2. CASE i = n
    BY <1>1, <1>2, <2>1, <2>2 DEF Keeps1st
  <2>3. CASE i # n
    <3>1. Episode(ts[n]) # Episode(ts[i])
      BY <1>3, <2>3 DEF Sound
    <3> QED
      BY <1>1, <1>2, <2>1, <2>3, <3>1 DEF Keeps1st
  <2> QED
    BY <2>2, <2>3
<1>4. MarkedRight(us)
  BY <1>1, <1>2, <1>3 DEF MarkedRight
<1>5. SameMarks(ts, us)
  BY <1>1, <1>2 DEF SameMarks
<1> QED
  BY <1>4, <1>5 DEF us

\* A row that the index lets in is the only one of its episode.
LEMMA OpenedRight ==
    ASSUME NEW ts, Sound(ts), MarkedRight(ts), NEW c, NEW d
    PROVE  MarkedRight(Opened(ts, c, d)) /\ SameMarks(ts, Opened(ts, c, d))
<1> DEFINE t == NewTrade(c, d)
<1>1. ts \in Seq(Trade) /\ DOMAIN ts = 1..Len(ts) /\ Len(ts) \in Nat
  BY DEF Sound, Unmarked
<1>2. CASE c.dir \in Directions /\ Openable(ts, t)
  <2> DEFINE us == Append(ts, t)
             m == Len(ts) + 1
  <2>1. t.canonical = 1
    BY DEF NewTrade
  <2>2. \A i \in DOMAIN ts : Episode(ts[i]) # Episode(t)
    BY <1>2 DEF Openable, MarkedRight
  <2>3. Opened(ts, c, d) = us
    BY <1>2 DEF Opened
  <2> HIDE DEF t
  <2>4. /\ DOMAIN us = DOMAIN ts \cup {m} /\ us[m] = t /\ m \notin DOMAIN ts
        /\ m \in Int /\ \A i \in DOMAIN ts : us[i] = ts[i]
    BY <1>1
  <2> HIDE DEF us, m
  <2>5. Keeps1st(us, m)
    BY <2>2, <2>4 DEF Keeps1st
  <2>6. ASSUME NEW i \in DOMAIN ts, ts[i].canonical = 1 PROVE Keeps1st(us, i)
    BY <2>2, <2>4, <2>6 DEF Keeps1st, MarkedRight
  <2>7. MarkedRight(us)
    BY <2>1, <2>4, <2>5, <2>6 DEF MarkedRight
  <2>8. SameMarks(ts, us)
    BY <2>4 DEF SameMarks
  <2> QED
    BY <2>3, <2>7, <2>8
<1>3. CASE ~(c.dir \in Directions /\ Openable(ts, t))
  BY <1>3 DEF Opened, SameMarks
<1> QED
  BY <1>2, <1>3

LEMMA ClosedRight ==
    ASSUME NEW ts, Sound(ts), MarkedRight(ts), NEW i \in DOMAIN ts, ts[i].canonical = 1,
           NEW d, NEW exit, NEW reason
    PROVE  LET us == [ts EXCEPT ![i] = ClosedTrade(@, d, exit, reason)]
           IN  MarkedRight(us) /\ SameMarks(ts, us)
<1> DEFINE t == ClosedTrade(ts[i], d, exit, reason)
<1>1. ts[i] \in Trade
  BY DEF Sound, Unmarked
<1>2. /\ t.dir = ts[i].dir /\ t.first = ts[i].first /\ t.canonical = 1
      /\ t.status = "closed"
  BY <1>1 DEF ClosedTrade, Trade
<1> HIDE DEF t
<1>3. MarkedRight([ts EXCEPT ![i] = t]) /\ SameMarks(ts, [ts EXCEPT ![i] = t])
  BY <1>2, UpdatedRight
<1> QED
  BY <1>3 DEF t

LEMMA SyncedRight ==
    ASSUME NEW ts, Sound(ts), MarkedRight(ts), NEW i \in {0} \cup DOMAIN ts,
           i # 0 => ts[i].canonical = 1, NEW row, NEW c \in Offer, NEW d \in Date \ {Null}
    PROVE  MarkedRight(Synced(ts, i, row, c, d)) /\ SameMarks(ts, Synced(ts, i, row, c, d))
<1>1. CASE i = 0
  BY <1>1, OpenedRight DEF Synced
<1>2. CASE i # 0 /\ c.dir = row.dir
  <2> DEFINE t == Reconfirmed(ts[i], d)
  <2>1. ts[i] \in Trade /\ i \in DOMAIN ts
    BY <1>2 DEF Sound, Unmarked
  <2>2. /\ t.dir = ts[i].dir /\ t.first = ts[i].first /\ t.canonical = 1
        /\ t.status = ts[i].status
    BY <1>2, <2>1 DEF Reconfirmed, Trade
  <2>3. Synced(ts, i, row, c, d) = [ts EXCEPT ![i] = t]
    BY <1>2 DEF Synced
  <2> HIDE DEF t
  <2>4. MarkedRight([ts EXCEPT ![i] = t]) /\ SameMarks(ts, [ts EXCEPT ![i] = t])
    BY <1>2, <2>1, <2>2, UpdatedRight
  <2> QED
    BY <2>3, <2>4
<1>3. CASE i # 0 /\ c.dir # row.dir /\ Deferred(row, d)
  BY <1>3 DEF Synced, SameMarks
<1>4. CASE i # 0 /\ c.dir # row.dir /\ ~Deferred(row, d)
  <2> DEFINE reason == IF c.dir \in Directions THEN "direction_changed"
                                               ELSE "signal_or_regime_filter"
             us == [ts EXCEPT ![i] = ClosedTrade(@, d, d, reason)]
  <2>1. Synced(ts, i, row, c, d) = Opened(us, c, d)
    BY <1>4 DEF Synced
  <2>2. reason \in {"direction_changed", "signal_or_regime_filter", "horizon_reached"}
    OBVIOUS
  <2> HIDE DEF reason
  <2>3. Sound(us)
    BY <1>4, <2>2, ClosedSound
  <2>4. MarkedRight(us) /\ SameMarks(ts, us)
    BY <1>4, ClosedRight
  <2> HIDE DEF us
  <2>5. MarkedRight(Opened(us, c, d)) /\ SameMarks(us, Opened(us, c, d))
    BY <2>3, <2>4, OpenedRight
  <2> QED
    BY <2>1, <2>4, <2>5 DEF SameMarks
<1> QED
  BY <1>1, <1>2, <1>3, <1>4

LEMMA ExpiredRight ==
    ASSUME NEW ts, Sound(ts), MarkedRight(ts), NEW i \in DOMAIN ts, ts[i].canonical = 1,
           NEW row, NEW d
    PROVE  MarkedRight(Expired(ts, i, row, d)) /\ SameMarks(ts, Expired(ts, i, row, d))
<1>1. CASE PlannedClose(row) <= d /\ ts[i].status = "active"
  <2> DEFINE us == [ts EXCEPT ![i] = ClosedTrade(@, d, Live, "horizon_reached")]
  <2>1. Expired(ts, i, row, d) = us
    BY <1>1 DEF Expired
  <2>2. MarkedRight(us) /\ SameMarks(ts, us)
    BY ClosedRight
  <2> HIDE DEF us
  <2> QED
    BY <2>1, <2>2
<1>2. CASE ~(PlannedClose(row) <= d /\ ts[i].status = "active")
  BY <1>2 DEF Expired, SameMarks
<1> QED
  BY <1>1, <1>2

\* The rows of before the index: of the one episode the closed row is kept.
LEMMA LegacyRight == MarkedRight(Legacy)
<1> DEFINE a == [dir |-> "long", first |-> 1, opened |-> 1, age |-> 1, lastSeen |-> 2,
                 status |-> "closed", closed |-> 2, exit |-> 2,
                 reason |-> "signal_or_regime_filter", canonical |-> 1]
           b == [a EXCEPT !.opened = 2, !.age = 2, !.status = "active",
                          !.closed = Null, !.exit = Null, !.reason = "none"]
           ts == <<a, b>>
           us == Marked(ts)
<1>1. Legacy = us
  BY DEF Legacy
<1>2. /\ a.status = "closed" /\ b.status = "active" /\ Episode(a) = Episode(b)
      /\ DOMAIN a = DOMAIN b /\ "canonical" \in DOMAIN a
  BY DEF Episode
<1>3. a \in Trade /\ b \in Trade
  <2>1. 1 \in Date /\ 2 \in Date /\ Null \in Date
    BY ConstantsAssumption DEF Date, Null
  <2>2. a \in Trade
    BY <2>1 DEF Trade, Directions
  <2>3. 2 \in Nat \ {0} /\ Null \in {Live} \cup Date
    BY <2>1
  <2> HIDE DEF a
  <2>4. b \in Trade
    BY <2>1, <2>2, <2>3 DEF Trade
  <2> QED
    BY <2>2, <2>4
<1> HIDE DEF a, b
<1>4. ts \in Seq(Trade) /\ DOMAIN ts = {1, 2} /\ ts[1] = a /\ ts[2] = b
  BY <1>3
<1> HIDE DEF ts
<1>5. Keeps1st(ts, 1)
  BY <1>2, <1>4 DEF Keeps1st
<1>6. Keeper(ts, Episode(a)) = 1
  BY <1>4, <1>5, KeeperIs
<1>7. /\ DOMAIN us = {1, 2}
      /\ us[1] = [a EXCEPT !.canonical = 1] /\ us[2] = [b EXCEPT !.canonical = 0]
  BY <1>2, <1>4, <1>6 DEF Marked
<1> HIDE DEF us
<1>8. /\ us[1].canonical = 1 /\ us[2].canonical = 0
      /\ us[1].status = "closed" /\ us[2].status = "active"
      /\ Episode(us[1]) = Episode(us[2])
  BY <1>2, <1>3, <1>7 DEF Trade, Episode
<1>9. Keeps1st(us, 1)
  BY <1>7, <1>8 DEF Keeps1st
<1>10. MarkedRight(us)
  <2> SUFFICES ASSUME NEW i \in {1, 2}
               PROVE  IF us[i].canonical = 1 THEN Keeps1st(us, i)
                      ELSE \E k \in {1, 2} : Episode(us[k]) = Episode(us[i]) /\ us[k].canonical = 1
    BY <1>7 DEF MarkedRight
  <2>1. CASE i = 1
    BY <2>1, <1>8, <1>9
  <2>2. CASE i = 2
    BY <2>2, <1>8
  <2> QED
    BY <2>1, <2>2
<1> QED
  BY <1>1, <1>10

\* The marks are right, and whoever holds a row holds a marked one.
MarksOK ==
    /\ MarkedRight(trades)
    /\ \A w \in Workers : proc[w].id # 0 =>
          proc[w].id \in DOMAIN trades /\ trades[proc[w].id].canonical = 1

LEMMA MarksInitially == Init => MarksOK
<1> SUFFICES ASSUME Init PROVE MarksOK
  OBVIOUS
<1>1. \A w \in Workers : proc[w].id = 0
  BY IdleProc DEF Init
<1>2. MarkedRight(<<>>)
  BY DEF MarkedRight
<1> QED
  BY <1>1, <1>2, LegacyRight DEF Init, MarksOK

\* Whoever steps on holds the row it held, one just read, or none.
LEMMA HeldMarked ==
    ASSUME MarksOK, MarkedRight(trades'), SameMarks(trades, trades'),
           \A v \in Workers : \/ proc'[v].id = proc[v].id \/ proc'[v].id = 0
                              \/ proc'[v].id \in Tracked(trades')
    PROVE  MarksOK'
BY DEF MarksOK, SameMarks, Tracked

LEMMA MarkSteps == IInv /\ MarksOK /\ [Next]_vars => MarksOK'
<1> SUFFICES ASSUME IInv, MarksOK, [Next]_vars PROVE MarksOK'
  OBVIOUS
<1>1. Sound(trades) /\ proc \in [Workers -> Proc] /\ trades \in Seq(Trade)
  BY SoundTrades DEF IInv, TypeOK
<1>2. MarkedRight(trades) /\ SameMarks(trades, trades)
  BY DEF MarksOK, SameMarks
<1>3. CASE Midnight \/ PageScan \/ Sell \/ UNCHANGED vars
  <2>1. trades' = trades /\ proc' = proc
    BY <1>3 DEF Midnight, PageScan, Sell, vars
  <2> QED
    BY <1>2, <2>1, HeldMarked
<1>4. ASSUME NEW w \in Workers,
             BeginPipeline(w) \/ Fetch(w) \/ ScanStep(w) \/ ReadDate(w) \/ ReadPlan(w)
                 \/ BeginExpire(w) \/ Abandon(w)
      PROVE  MarksOK'
  <2>1. trades' = trades
    BY <1>4 DEF BeginPipeline, Fetch, ScanStep, ReadDate, ReadPlan, BeginExpire, Abandon
  <2>2. \E p : proc' = [proc EXCEPT ![w] = p] /\ (p.id = proc[w].id \/ p.id = 0)
    <3> proc[w] \in Proc
      BY <1>1
    <3>1. CASE BeginPipeline(w) \/ Fetch(w) \/ ScanStep(w)
      <4> DEFINE at == IF BeginPipeline(w) THEN "fetch" ELSE IF Fetch(w) THEN "scan" ELSE "date"
                 p == [proc[w] EXCEPT !.at = at]
      <4>1. proc' = [proc EXCEPT ![w] = p]
        BY <1>1, <3>1 DEF BeginPipeline, Fetch, ScanStep, Goto
      <4>2. p.id = proc[w].id
        BY DEF Proc
      <4> HIDE DEF p
      <4> QED
        BY <4>1, <4>2
    <3>2. CASE ReadDate(w)
      <4> DEFINE p == [proc[w] EXCEPT !.at = "plan", !.date = latest]
      <4>1. proc' = [proc EXCEPT ![w] = p]
        BY <1>1, <3>2 DEF ReadDate
      <4>2. p.id = proc[w].id
        BY DEF Proc
      <4> HIDE DEF p
      <4> QED
        BY <4>1, <4>2
    <3>3. CASE ReadPlan(w)
      <4> DEFINE p == [proc[w] EXCEPT !.at = "active", !.offer = Plan(proc[w].date)]
      <4>1. proc' = [proc EXCEPT ![w] = p]
        BY <1>1, <3>3 DEF ReadPlan
      <4>2. p.id = proc[w].id
        BY DEF Proc
      <4> HIDE DEF p
      <4> QED
        BY <4>1, <4>2
    <3>4. CASE BeginExpire(w)
      <4>1. PICK priced \in {"yes", "no"} :
              proc' = [proc EXCEPT ![w].at = "expiring", ![w].date = today, ![w].priced = priced]
        BY <3>4 DEF BeginExpire
      <4> DEFINE p == [proc[w] EXCEPT !.at = "expiring", !.date = today, !.priced = priced]
      <4>2. proc' = [proc EXCEPT ![w] = p]
        BY <1>1, <4>1
      <4>3. p.id = proc[w].id
        BY DEF Proc
      <4> HIDE DEF p
      <4> QED
        BY <4>2, <4>3
    <3>5. CASE Abandon(w)
      BY <3>5, IdleProc DEF Abandon
    <3> QED
      BY <1>4, <3>1, <3>2, <3>3, <3>4, <3>5
  <2>3. \A v \in Workers : proc'[v].id = proc[v].id \/ proc'[v].id = 0
    BY <1>1, <2>2
  <2> QED
    BY <1>2, <2>1, <2>3, HeldMarked
<1>5. ASSUME NEW w \in Workers, ReadActive(w) PROVE MarksOK'
  <2>1. trades' = trades
    BY <1>1, <1>2, <1>5, MarkedFixed DEF ReadActive
  <2>2. \/ \E next \in {"sync", "expire"} : Goto(w, next)
        \/ \E i \in Tracked(trades'), next \in {"sync", "expire"} :
              proc' = [proc EXCEPT ![w].at = next, ![w].id = i, ![w].row = trades'[i]]
    BY <1>5, Zenon DEF ReadActive
  <2>3. \A v \in Workers : proc'[v].id = proc[v].id \/ proc'[v].id \in Tracked(trades')
    <3> SUFFICES ASSUME NEW v \in Workers
                 PROVE  proc'[v].id = proc[v].id \/ proc'[v].id \in Tracked(trades')
      OBVIOUS
    <3>1. proc[v] \in Proc /\ proc[w] \in Proc
      BY <1>1
    <3>2. ASSUME NEW next \in {"sync", "expire"}, Goto(w, next)
          PROVE  proc'[v].id = proc[v].id
      BY <1>1, <3>1, <3>2 DEF Goto, Proc
    <3>3. ASSUME NEW i \in Tracked(trades'), NEW next \in {"sync", "expire"},
                 proc' = [proc EXCEPT ![w].at = next, ![w].id = i, ![w].row = trades'[i]]
          PROVE  proc'[v].id = proc[v].id \/ proc'[v].id = i
      <4> HIDE DEF Tracked
      <4>1. proc' = [proc EXCEPT ![w] = [proc[w] EXCEPT !.at = next, !.id = i, !.row = trades'[i]]]
        BY <1>1, <3>3
      <4>2. [proc[w] EXCEPT !.at = next, !.id = i, !.row = trades'[i]].id = i
        BY <3>1 DEF Proc
      <4> QED
        BY <1>1, <4>1, <4>2
    <3> QED
      BY <2>2, <3>2, <3>3
  <2> QED
    BY <1>2, <2>1, <2>3, HeldMarked
<1>6. ASSUME NEW w \in Workers, WriteSync(w) \/ WriteExpire(w) PROVE MarksOK'
  <2>1. \A v \in Workers : proc'[v].id = proc[v].id \/ proc'[v].id = 0
    BY <1>1, <1>6, IdleProc DEF WriteSync, WriteExpire
  <2>2. proc[w] \in Proc /\ (proc[w].id # 0 =>
           proc[w].id \in DOMAIN trades /\ trades[proc[w].id].canonical = 1)
    BY <1>1 DEF MarksOK
  <2>3. MarkedRight(trades') /\ SameMarks(trades, trades')
    <3>1. CASE WriteSync(w)
      <4>1. proc[w].offer \in Offer /\ proc[w].date \in Date \ {Null}
        BY <2>2, <3>1 DEF Proc, WriteSync, IInv, WorkersOK, WorkerOK
      <4>2. trades' = Synced(trades, proc[w].id, proc[w].row, proc[w].offer, proc[w].date)
        BY <3>1 DEF WriteSync
      <4> QED
        BY <1>1, <1>2, <2>2, <4>1, <4>2, SyncedRight
    <3>2. CASE WriteExpire(w) /\ proc[w].id # 0 /\ proc[w].priced = "yes"
      <4>1. trades' = Expired(trades, proc[w].id, proc[w].row, proc[w].date)
        BY <3>2 DEF WriteExpire
      <4> QED
        BY <1>1, <1>2, <2>2, <3>2, <4>1, ExpiredRight
    <3>3. CASE WriteExpire(w) /\ ~(proc[w].id # 0 /\ proc[w].priced = "yes")
      BY <1>2, <3>3 DEF WriteExpire
    <3> QED
      BY <1>6, <3>1, <3>2, <3>3
  <2> QED
    BY <2>1, <2>3, HeldMarked
<1> QED
  BY <1>3, <1>4, <1>5, <1>6 DEF Next, Pipeline

-----------------------------------------------------------------------------
(* Theorems *)

\* Every table and program counter holds values of its type.
THEOREM TypeCorrect == Spec => []TypeOK
<1>1. IInv => TypeOK
  BY DEF IInv
<1> QED
  BY <1>1, Invariance, PTL

\* However the handlers interleave, a ticker has one open recommendation at a time.
THEOREM OneActiveAlways == Spec => []OneActive
<1>1. IInv => OneActive
  BY DEF IInv
<1> QED
  BY <1>1, Invariance, PTL

\* A scanner episode is traded once, also in a journal of before the episode index.
THEOREM EpisodesTradedOnce == Spec => []EpisodeTradedOnce
<1>1. IInv => EpisodeTradedOnce
  BY DEF IInv
<1> QED
  BY <1>1, Invariance, PTL

\* An exit is recorded as a whole, or not at all.
THEOREM ExitsWhole == Spec => []ExitWhole
<1>1. IInv => ExitWhole
  BY DEF IInv
<1> QED
  BY <1>1, Invariance, PTL

\* No interleaving reopens a closed trade, loses one, or changes what was opened.
THEOREM NothingReopened == Spec => NeverReopened
<1>1. IInv /\ [Next]_vars =>
        [\A i \in DOMAIN trades :
           /\ i \in DOMAIN trades'
           /\ trades[i].status = "closed" => trades'[i].status = "closed"
           /\ Episode(trades'[i]) = Episode(trades[i])
           /\ trades'[i].opened = trades[i].opened
           /\ trades'[i].age = trades[i].age]_trades
  BY NextStep DEF Keeps
<1> QED
  BY <1>1, Invariance, PTL DEF Spec, NeverReopened

\* After the migration there is nothing to mark: a handler that marks, commits and then reads
\* reads what it would have read in one step, as ReadActive does.
THEOREM MarksStay == Spec => []MarkStable
<1>1. IInv /\ MarksOK => MarkStable
  BY MarkedFixed DEF IInv, TypeOK, MarksOK, MarkStable
<1> QED
  BY <1>1, MarksInitially, MarkSteps, Invariance, PTL DEF Spec


-----------------------------------------------------------------------------
(* One handler at a time: what is read stays true until it is written. *)

\* Handlers do not overlap.
Sequential == \A v, w \in Workers : v = w

\* The date, the offer and the row that a handler holds are those of the tables.
HandlerOK(w) ==
    LET q == proc[w] IN
    /\ q.at \in {"date", "plan", "active", "sync"} => latest \in DOMAIN offers
    /\ q.at \in {"plan", "active", "sync"} => q.date = latest
    /\ q.at \in {"active", "sync"} /\ q.offer.dir = "none" => offers[latest].dir = "none"
    /\ q.at \in {"expiring", "expire"} => q.date > latest
    /\ q.id # 0 => /\ q.at \in {"sync", "expire"}
                   /\ q.id \in DOMAIN trades /\ q.row = trades[q.id]
                   /\ trades[q.id].status = "active"

\* A trade was opened and confirmed on data dates, and a lost signal was lost.
DatesOK(t) ==
    /\ t.opened <= t.lastSeen /\ t.opened <= latest
    /\ t.status = "closed" => t.closed > t.opened
    /\ t.reason = "signal_or_regime_filter" =>
          t.closed \in DOMAIN offers /\ offers[t.closed].dir # t.dir

SeqInv ==
    /\ \A w \in Workers : HandlerOK(w)
    /\ \A i \in DOMAIN trades : DatesOK(trades[i])

\* The rows of before the index, in detail.
LEMMA LegacyRows ==
    \A i \in DOMAIN Legacy : LET t == Legacy[i] IN
        /\ t.dir = "long" /\ t.opened <= t.lastSeen /\ t.opened <= 2
        /\ t.status = "closed" => t.closed > t.opened
        /\ t.reason = "signal_or_regime_filter" => t.closed = 2
<1> DEFINE a == [dir |-> "long", first |-> 1, opened |-> 1, age |-> 1, lastSeen |-> 2,
                 status |-> "closed", closed |-> 2, exit |-> 2,
                 reason |-> "signal_or_regime_filter", canonical |-> 1]
           b == [a EXCEPT !.opened = 2, !.age = 2, !.status = "active",
                          !.closed = Null, !.exit = Null, !.reason = "none"]
           ts == <<a, b>>
           mark(i) == IF i = Keeper(ts, Episode(ts[i])) THEN 1 ELSE 0
<1>1. Legacy = [i \in DOMAIN ts |-> [ts[i] EXCEPT !.canonical = mark(i)]]
  BY DEF Legacy, Marked
<1> HIDE DEF mark
<1>2. DOMAIN ts = {1, 2} /\ ts[1] = a /\ ts[2] = b
  OBVIOUS
<1>3. ASSUME NEW c
      PROVE  LET t == [a EXCEPT !.canonical = c]
             IN  /\ t.dir = "long" /\ t.opened = 1 /\ t.lastSeen = 2 /\ t.status = "closed"
                 /\ t.closed = 2
  OBVIOUS
<1>4. ASSUME NEW c
      PROVE  LET t == [b EXCEPT !.canonical = c]
             IN  /\ t.dir = "long" /\ t.opened = 2 /\ t.lastSeen = 2 /\ t.status = "active"
                 /\ t.reason = "none"
  OBVIOUS
<1> HIDE DEF a, b, ts
<1> SUFFICES ASSUME NEW i \in {1, 2}
             PROVE  LET t == Legacy[i] IN
                    /\ t.dir = "long" /\ t.opened <= t.lastSeen /\ t.opened <= 2
                    /\ t.status = "closed" => t.closed > t.opened
                    /\ t.reason = "signal_or_regime_filter" => t.closed = 2
  BY <1>1, <1>2
<1>5. CASE i = 1
  <2>1. Legacy[i] = [a EXCEPT !.canonical = mark(1)]
    BY <1>1, <1>2, <1>5
  <2> HIDE DEF Legacy
  <2> QED
    BY <1>3, <2>1
<1>6. CASE i = 2
  <2>1. Legacy[i] = [b EXCEPT !.canonical = mark(2)]
    BY <1>1, <1>2, <1>6
  <2> HIDE DEF Legacy
  <2> QED
    BY <1>4, <2>1
<1> QED
  BY <1>5, <1>6

LEMMA SeqInitially == Init => SeqInv
<1> SUFFICES ASSUME Init PROVE SeqInv
  OBVIOUS
<1>1. \A w \in Workers : HandlerOK(w)
  BY DEF Init, Idle, HandlerOK
<1>2. CASE trades = <<>>
  BY <1>1, <1>2 DEF SeqInv
<1>3. CASE latest = 2 /\ trades = Legacy /\ offers = [d \in {1, 2} |-> NoOffer]
  <2>1. 2 \in DOMAIN offers /\ offers[2].dir = "none"
    BY <1>3 DEF NoOffer
  <2> QED
    BY <1>1, <1>3, <2>1, LegacyRows DEF SeqInv, DatesOK
<1> QED
  BY <1>2, <1>3 DEF Init

\* A scan offers something on the newest date, and changes no earlier offer.
LEMMA ScanAdds ==
    ASSUME Scan
    PROVE  /\ DOMAIN offers' = DOMAIN offers \cup {latest}
           /\ \A d \in DOMAIN offers : offers'[d] = offers[d]
BY DEF Scan

\* While nothing is written, rows stay well dated if no signal of the past comes back.
LEMMA DatesKept ==
    ASSUME \A i \in DOMAIN trades : DatesOK(trades[i]), trades' = trades,
           trades \in Seq(Trade), DOMAIN offers \subseteq DOMAIN offers',
           latest \in Int, latest' \in Int, latest <= latest',
           \A d \in DOMAIN offers : offers'[d].dir \in {offers[d].dir, "none"}
    PROVE  (\A i \in DOMAIN trades : DatesOK(trades[i]))'
<1> SUFFICES ASSUME NEW i \in DOMAIN trades PROVE DatesOK(trades[i])'
  OBVIOUS
<1>1. trades[i] \in Trade
  OBVIOUS
<1>2. trades[i].opened \in Int /\ trades[i].dir # "none"
  BY <1>1, ConstantsAssumption DEF Trade, Date, Directions
<1> QED
  BY <1>2 DEF DatesOK

\* The scanners change what is offered, while no handler writes.
LEMMA ScannersStep ==
    ASSUME IInv, SeqInv, Midnight \/ PageScan \/ Sell \/ UNCHANGED vars
    PROVE  SeqInv'
<1>1. /\ latest' = latest /\ latest \in Int /\ trades' = trades /\ proc' = proc
      /\ trades \in Seq(Trade)
  BY ConstantsAssumption DEF IInv, TypeOK, Midnight, PageScan, Sell, vars
<1>2. /\ DOMAIN offers \subseteq DOMAIN offers'
      /\ \A d \in DOMAIN offers : offers'[d].dir \in {offers[d].dir, "none"}
  <2>1. CASE PageScan
    BY <2>1, ScanAdds DEF PageScan
  <2>2. CASE Sell
    BY <2>2 DEF Sell, NoOffer
  <2>3. CASE Midnight \/ UNCHANGED vars
    BY <2>3 DEF Midnight, vars
  <2> QED
    BY <2>1, <2>2, <2>3
<1>3. \A w \in Workers : HandlerOK(w)'
  BY <1>1, <1>2 DEF SeqInv, HandlerOK
<1> QED
  BY <1>1, <1>2, <1>3, DatesKept DEF SeqInv

\* A lone handler that steps on to q leaves the tables well dated if q agrees with them.
LEMMA LoneStep ==
    ASSUME Sequential, IInv, SeqInv, NEW w \in Workers, HandlerOK(w)',
           (\A i \in DOMAIN trades : DatesOK(trades[i]))'
    PROVE  SeqInv'
BY DEF Sequential, SeqInv

\* The last date that the scanners were synced for, if it is the newest.
LEMMA ScannedLatest ==
    ASSUME IInv, latest \in DOMAIN offers
    PROVE  Scanned = latest
<1>1. \A d \in DOMAIN offers : d \in Nat /\ d <= latest
  BY ConstantsAssumption DEF IInv, TypeOK, OffersOK, Dates
<1>2. Max(DOMAIN offers) = latest
  BY <1>1 DEF Max
<1> QED
  BY <1>2 DEF Scanned

LEMMA FetchSteps ==
    ASSUME Sequential, IInv, SeqInv, NEW w \in Workers,
           BeginPipeline(w) \/ Fetch(w) \/ ScanStep(w) \/ Abandon(w)
    PROVE  SeqInv'
<1>1. /\ proc[w] \in Proc /\ proc \in [Workers -> Proc] /\ trades \in Seq(Trade)
      /\ latest \in Int /\ today \in Int /\ latest < today
  BY ConstantsAssumption DEF IInv, TypeOK
<1>2. trades' = trades /\ latest' \in Int /\ latest <= latest'
  BY <1>1 DEF BeginPipeline, Fetch, ScanStep, Abandon
<1>3. /\ DOMAIN offers \subseteq DOMAIN offers'
      /\ \A d \in DOMAIN offers : offers'[d].dir \in {offers[d].dir, "none"}
  BY ScanAdds DEF BeginPipeline, Fetch, ScanStep, Abandon
<1>4. HandlerOK(w)'
  <2>1. CASE BeginPipeline(w)
    <3>1. proc'[w].at = "fetch" /\ proc'[w].id = 0
      BY <1>1, <2>1 DEF BeginPipeline, Goto, Idle, Proc
    <3> QED
      BY <3>1 DEF HandlerOK
  <2>2. CASE Fetch(w)
    <3>1. proc'[w].at = "scan" /\ proc'[w].id = proc[w].id /\ proc[w].at = "fetch"
      BY <1>1, <2>2 DEF Fetch, Goto, Proc
    <3> QED
      BY <3>1 DEF HandlerOK, SeqInv
  <2>3. CASE ScanStep(w)
    <3>1. proc'[w].at = "date" /\ proc'[w].id = proc[w].id /\ proc[w].at = "scan"
      BY <1>1, <2>3 DEF ScanStep, Goto, Proc
    <3> QED
      BY <2>3, <3>1, ScanAdds DEF HandlerOK, SeqInv, ScanStep
  <2>4. CASE Abandon(w)
    <3>1. proc'[w].at = "idle" /\ proc'[w].id = 0
      BY <1>1, <2>4 DEF Abandon, Idle
    <3> QED
      BY <3>1 DEF HandlerOK
  <2> QED
    BY <2>1, <2>2, <2>3, <2>4
<1> QED
  BY <1>1, <1>2, <1>3, <1>4, DatesKept, LoneStep DEF SeqInv

LEMMA PlanSteps ==
    ASSUME Sequential, IInv, SeqInv, NEW w \in Workers,
           ReadDate(w) \/ ReadPlan(w) \/ BeginExpire(w)
    PROVE  SeqInv'
<1>1. /\ proc[w] \in Proc /\ proc \in [Workers -> Proc] /\ trades \in Seq(Trade)
      /\ latest \in Int /\ latest < today
  BY ConstantsAssumption DEF IInv, TypeOK
<1>2. trades' = trades /\ latest' = latest /\ offers' = offers
  BY DEF ReadDate, ReadPlan, BeginExpire
<1>3. HandlerOK(w)
  BY DEF SeqInv
<1>4. HandlerOK(w)'
  <2>1. CASE ReadDate(w)
    <3>1. /\ proc'[w].at = "plan" /\ proc'[w].id = proc[w].id /\ proc[w].at = "date"
          /\ proc'[w].date = latest
      BY <1>1, <2>1 DEF ReadDate, Proc
    <3> QED
      BY <1>2, <1>3, <3>1 DEF HandlerOK
  <2>2. CASE ReadPlan(w)
    <3>1. /\ proc'[w].at = "active" /\ proc'[w].id = proc[w].id /\ proc[w].at = "plan"
          /\ proc'[w].date = proc[w].date /\ proc'[w].offer = Plan(proc[w].date)
      BY <1>1, <2>2 DEF ReadPlan, Proc
    <3>2. proc[w].date = latest /\ latest \in DOMAIN offers /\ latest # 0
      BY <1>3, <3>1, ConstantsAssumption DEF HandlerOK, IInv, TypeOK, Dates
    <3>3. proc'[w].offer = offers[latest]
      BY <3>1, <3>2, ScannedLatest DEF Plan
    <3> QED
      BY <1>2, <1>3, <3>1, <3>2, <3>3 DEF HandlerOK
  <2>3. CASE BeginExpire(w)
    <3>1. proc'[w].at = "expiring" /\ proc'[w].id = 0 /\ proc'[w].date = today
      BY <1>1, <2>3 DEF BeginExpire, Proc, Idle
    <3> QED
      BY <1>1, <1>2, <3>1 DEF HandlerOK
  <2> QED
    BY <2>1, <2>2, <2>3
<1> QED
  BY <1>1, <1>2, <1>4, DatesKept, LoneStep DEF SeqInv

\* Marking changes nothing, so the row that is read is the row that is there.
LEMMA ReadActiveStep ==
    ASSUME Sequential, IInv, MarksOK, SeqInv, NEW w \in Workers, ReadActive(w)
    PROVE  SeqInv'
<1>1. /\ proc[w] \in Proc /\ proc \in [Workers -> Proc] /\ trades \in Seq(Trade)
      /\ latest \in Int
  BY ConstantsAssumption DEF IInv, TypeOK
<1>2. trades' = trades /\ latest' = latest /\ offers' = offers
  BY <1>1, MarkedFixed DEF ReadActive, MarksOK
<1>3. HandlerOK(w) /\ proc[w].at \in {"active", "expiring"} /\ proc[w].id = 0
  BY DEF SeqInv, ReadActive, HandlerOK
<1> DEFINE next == IF proc[w].at = "active" THEN "sync" ELSE "expire"
<1>4. \/ Goto(w, next)
      \/ \E i \in Tracked(trades) :
            proc' = [proc EXCEPT ![w].at = next, ![w].id = i, ![w].row = trades[i]]
  BY <1>2 DEF ReadActive
<1> HIDE DEF next
<1>5. /\ proc'[w].at = next /\ proc'[w].date = proc[w].date /\ proc'[w].offer = proc[w].offer
      /\ \/ proc'[w].id = proc[w].id
         \/ proc'[w].id \in Tracked(trades) /\ proc'[w].row = trades[proc'[w].id]
  <2>1. CASE Goto(w, next)
    BY <1>1, <2>1 DEF Goto, Proc
  <2>2. ASSUME NEW i \in Tracked(trades),
               proc' = [proc EXCEPT ![w].at = next, ![w].id = i, ![w].row = trades[i]]
        PROVE  /\ proc'[w].at = next /\ proc'[w].date = proc[w].date
               /\ proc'[w].offer = proc[w].offer
               /\ proc'[w].id = i /\ proc'[w].row = trades[i]
    BY <1>1, <2>2 DEF Proc
  <2> QED
    BY <1>4, <2>1, <2>2
<1>6. HandlerOK(w)'
  BY <1>2, <1>3, <1>5 DEF HandlerOK, Tracked, next
<1> QED
  BY <1>1, <1>2, <1>6, DatesKept, LoneStep DEF SeqInv

DatesTable(ts) == \A i \in DOMAIN ts : DatesOK(ts[i])

LEMMA OpenedDates ==
    ASSUME NEW ts \in Seq(Trade), DatesTable(ts), NEW c, latest \in Int
    PROVE  DatesTable(Opened(ts, c, latest))
<1> DEFINE t == NewTrade(c, latest)
<1>1. DatesOK(t)
  BY DEF DatesOK, NewTrade
<1>2. Opened(ts, c, latest) = Append(ts, t) \/ Opened(ts, c, latest) = ts
  BY DEF Opened
<1> HIDE DEF t
<1>3. DatesTable(Append(ts, t))
  BY <1>1 DEF DatesTable
<1> QED
  BY <1>2, <1>3

LEMMA ClosedDates ==
    ASSUME NEW ts \in Seq(Trade), DatesTable(ts), NEW i \in DOMAIN ts, NEW d \in Nat,
           NEW exit, NEW reason, d > ts[i].opened,
           reason = "signal_or_regime_filter" =>
              d \in DOMAIN offers /\ offers[d].dir # ts[i].dir
    PROVE  DatesTable([ts EXCEPT ![i] = ClosedTrade(@, d, exit, reason)])
<1> DEFINE t == ClosedTrade(ts[i], d, exit, reason)
<1>1. ts[i] \in Trade /\ DatesOK(ts[i])
  BY DEF DatesTable
<1>2. /\ t.opened = ts[i].opened /\ t.dir = ts[i].dir /\ t.lastSeen = d /\ t.closed = d
      /\ t.reason = reason
  BY <1>1 DEF ClosedTrade, Trade
<1>3. ts[i].opened \in Int
  BY <1>1, ConstantsAssumption DEF Trade, Date
<1> HIDE DEF t
<1>4. DatesOK(t)
  BY <1>1, <1>2, <1>3 DEF DatesOK
<1>5. DatesTable([ts EXCEPT ![i] = t])
  BY <1>4 DEF DatesTable
<1> QED
  BY <1>5 DEF t

LEMMA ReconfirmedDates ==
    ASSUME NEW ts \in Seq(Trade), DatesTable(ts), NEW i \in DOMAIN ts, latest \in Int
    PROVE  DatesTable([ts EXCEPT ![i] = Reconfirmed(@, latest)])
<1> DEFINE t == Reconfirmed(ts[i], latest)
<1>1. ts[i] \in Trade /\ DatesOK(ts[i])
  BY DEF DatesTable
<1>2. DatesOK(t)
  BY <1>1 DEF DatesOK, Reconfirmed, Trade
<1> HIDE DEF t
<1>3. DatesTable([ts EXCEPT ![i] = t])
  BY <1>2 DEF DatesTable
<1> QED
  BY <1>3 DEF t

\* A closed row of ts is a row of us that differs in its mark at most.
ClosedStay(ts, us) ==
    \A i \in DOMAIN ts : ts[i].status = "closed" => i \in DOMAIN us /\ us[i] = ts[i]

LEMMA OpenedStay ==
    ASSUME NEW ts \in Seq(Trade), NEW c, NEW d
    PROVE  ClosedStay(ts, Opened(ts, c, d))
<1> DEFINE t == NewTrade(c, d)
<1>1. Opened(ts, c, d) = Append(ts, t) \/ Opened(ts, c, d) = ts
  BY DEF Opened
<1> HIDE DEF t
<1> QED
  BY <1>1 DEF ClosedStay

\* The write half of a sync, with the row and the offer as they are in the tables.
LEMMA SyncedDates ==
    ASSUME NEW ts \in Seq(Trade), Sound(ts), DatesTable(ts), NEW i \in {0} \cup DOMAIN ts,
           i # 0 => ts[i].status = "active", NEW c \in Offer,
           latest \in Nat, latest \in DOMAIN offers, latest \in Dates,
           c.dir = "none" => offers[latest].dir = "none"
    PROVE  /\ DatesTable(Synced(ts, i, ts[i], c, latest))
           /\ ClosedStay(ts, Synced(ts, i, ts[i], c, latest))
<1>1. CASE i = 0
  BY <1>1, OpenedDates, OpenedStay DEF Synced
<1>2. CASE i # 0 /\ c.dir = ts[i].dir
  <2>1. Synced(ts, i, ts[i], c, latest) = [ts EXCEPT ![i] = Reconfirmed(@, latest)]
    BY <1>2 DEF Synced
  <2> QED
    BY <1>2, <2>1, ReconfirmedDates DEF ClosedStay
<1>3. CASE i # 0 /\ c.dir # ts[i].dir /\ Deferred(ts[i], latest)
  BY <1>3 DEF Synced, ClosedStay
<1>4. CASE i # 0 /\ c.dir # ts[i].dir /\ ~Deferred(ts[i], latest)
  <2> DEFINE reason == IF c.dir \in Directions THEN "direction_changed"
                                               ELSE "signal_or_regime_filter"
             us == [ts EXCEPT ![i] = ClosedTrade(@, latest, latest, reason)]
  <2>1. Synced(ts, i, ts[i], c, latest) = Opened(us, c, latest)
    BY <1>4 DEF Synced
  <2>2. ts[i] \in Trade /\ DatesOK(ts[i])
    BY <1>4 DEF DatesTable
  <2>3. latest > ts[i].opened
    BY <1>4, <2>2, ConstantsAssumption DEF Deferred, DatesOK, Trade, Date
  <2>4. reason = "signal_or_regime_filter" => offers[latest].dir # ts[i].dir
    BY <2>2 DEF Offer, Trade, Directions
  <2>5. reason \in {"direction_changed", "signal_or_regime_filter", "horizon_reached"}
    OBVIOUS
  <2> HIDE DEF reason
  <2>6. DatesTable(us)
    BY <1>4, <2>3, <2>4, ClosedDates
  <2>7. us \in Seq(Trade)
    <3> DEFINE t == ClosedTrade(ts[i], latest, latest, reason)
    <3>1. t \in Trade
      <4>1. latest \in Date /\ latest # Null
        BY ConstantsAssumption DEF Dates, Date, Null
      <4> QED
        BY <2>2, <2>5, <4>1 DEF ClosedTrade, Trade
    <3> HIDE DEF t
    <3>2. [ts EXCEPT ![i] = t] \in Seq(Trade)
      BY <1>4, <3>1
    <3> QED
      BY <3>2 DEF t
  <2>8. ClosedStay(ts, us)
    BY <1>4 DEF ClosedStay
  <2> HIDE DEF us
  <2>9. DatesTable(Opened(us, c, latest)) /\ ClosedStay(us, Opened(us, c, latest))
    BY <2>6, <2>7, OpenedDates, OpenedStay
  <2> QED
    BY <2>1, <2>8, <2>9 DEF ClosedStay
<1> QED
  BY <1>1, <1>2, <1>3, <1>4

LEMMA WriteSyncStep ==
    ASSUME Sequential, IInv, SeqInv, NEW w \in Workers, WriteSync(w)
    PROVE  SeqInv' /\ ClosedStay(trades, trades')
<1> DEFINE id == proc[w].id
           c == proc[w].offer
<1>1. /\ proc[w] \in Proc /\ proc \in [Workers -> Proc] /\ trades \in Seq(Trade)
      /\ latest \in Nat /\ DatesTable(trades) /\ Sound(trades)
  BY SoundTrades, ConstantsAssumption DEF IInv, TypeOK, SeqInv, DatesTable
<1>2. /\ latest' = latest /\ offers' = offers /\ proc'[w] = Idle /\ proc[w].at = "sync"
      /\ trades' = Synced(trades, id, proc[w].row, c, proc[w].date)
  BY <1>1 DEF WriteSync
<1>3. /\ latest \in DOMAIN offers /\ proc[w].date = latest
      /\ c.dir = "none" => offers[latest].dir = "none"
      /\ id # 0 => /\ id \in DOMAIN trades /\ proc[w].row = trades[id]
                   /\ trades[id].status = "active"
  BY <1>2 DEF SeqInv, HandlerOK
<1>3a. latest \in Dates
  BY <1>3 DEF IInv, TypeOK
<1>4. c \in Offer /\ id \in {0} \cup DOMAIN trades
  BY <1>1, <1>3 DEF Proc
<1> HIDE DEF id, c
<1>5. trades' = Synced(trades, id, trades[id], c, latest)
  BY <1>2, <1>3 DEF Synced
<1>6. DatesTable(trades') /\ ClosedStay(trades, trades')
  BY <1>1, <1>3, <1>3a, <1>4, <1>5, SyncedDates
<1>7. (\A i \in DOMAIN trades : DatesOK(trades[i]))'
  BY <1>2, <1>6 DEF DatesTable, DatesOK
<1>8. HandlerOK(w)'
  BY <1>2 DEF HandlerOK, Idle
<1> QED
  BY <1>6, <1>7, <1>8, LoneStep

LEMMA WriteExpireStep ==
    ASSUME Sequential, IInv, SeqInv, NEW w \in Workers, WriteExpire(w)
    PROVE  SeqInv' /\ ClosedStay(trades, trades')
<1> DEFINE id == proc[w].id
           d == proc[w].date
<1>1. /\ proc[w] \in Proc /\ proc \in [Workers -> Proc] /\ trades \in Seq(Trade)
      /\ latest \in Nat /\ DatesTable(trades)
  BY ConstantsAssumption DEF IInv, TypeOK, SeqInv, DatesTable
<1>2. /\ latest' = latest /\ offers' = offers /\ proc'[w] = Idle /\ proc[w].at = "expire"
      /\ \/ trades' = trades
         \/ id # 0 /\ trades' = Expired(trades, id, proc[w].row, d)
  BY <1>1 DEF WriteExpire
<1>3. /\ d > latest /\ d \in Nat
      /\ id # 0 => id \in DOMAIN trades /\ trades[id].status = "active"
  BY <1>1, <1>2, ConstantsAssumption DEF SeqInv, HandlerOK, Proc, Date
<1> HIDE DEF id, d
<1>4. DatesTable(trades') /\ ClosedStay(trades, trades')
  <2>1. CASE trades' = trades
    BY <1>1, <2>1 DEF ClosedStay
  <2>2. CASE id # 0 /\ trades' = [trades EXCEPT ![id] = ClosedTrade(@, d, Live, "horizon_reached")]
    <3>1. trades[id] \in Trade /\ DatesOK(trades[id]) /\ id \in DOMAIN trades
      BY <1>1, <1>3, <2>2 DEF DatesTable
    <3>2. d > trades[id].opened
      BY <1>1, <1>3, <3>1, ConstantsAssumption DEF DatesOK, Trade, Date
    <3>3. DatesTable([trades EXCEPT ![id] = ClosedTrade(@, d, Live, "horizon_reached")])
      BY <1>1, <1>3, <3>1, <3>2, ClosedDates
    <3> QED
      BY <1>3, <2>2, <3>3 DEF ClosedStay
  <2> QED
    BY <1>2, <2>1, <2>2 DEF Expired
<1>5. (\A i \in DOMAIN trades : DatesOK(trades[i]))'
  BY <1>2, <1>4 DEF DatesTable, DatesOK
<1>6. HandlerOK(w)'
  BY <1>2 DEF HandlerOK, Idle
<1> QED
  BY <1>4, <1>5, <1>6, LoneStep

\* Every step of a lone handler keeps the dates, and every closed row.
LEMMA SeqNext ==
    ASSUME Sequential
    PROVE  IInv /\ MarksOK /\ SeqInv /\ [Next]_vars => SeqInv' /\ ClosedStay(trades, trades')
<1> SUFFICES ASSUME IInv, MarksOK, SeqInv, [Next]_vars
             PROVE  SeqInv' /\ ClosedStay(trades, trades')
  OBVIOUS
<1>1. ClosedStay(trades, trades)
  BY DEF ClosedStay
<1>2. CASE Midnight \/ PageScan \/ Sell \/ UNCHANGED vars
  BY <1>1, <1>2, ScannersStep DEF Midnight, PageScan, Sell, vars
<1>3. ASSUME NEW w \in Workers, WriteSync(w) \/ WriteExpire(w)
      PROVE  SeqInv' /\ ClosedStay(trades, trades')
  BY <1>3, WriteSyncStep, WriteExpireStep
<1>4. ASSUME NEW w \in Workers,
             \/ BeginPipeline(w) \/ Fetch(w) \/ ScanStep(w) \/ Abandon(w)
             \/ ReadDate(w) \/ ReadPlan(w) \/ BeginExpire(w) \/ ReadActive(w)
      PROVE  SeqInv' /\ ClosedStay(trades, trades')
  <2>1. SeqInv'
    BY <1>4, FetchSteps, PlanSteps, ReadActiveStep
  <2>2. trades' = trades
    BY <1>4, MarkedFixed
       DEF BeginPipeline, Fetch, ScanStep, Abandon, ReadDate, ReadPlan, BeginExpire,
           ReadActive, IInv, TypeOK, MarksOK
  <2> QED
    BY <1>1, <2>1, <2>2
<1> QED
  BY <1>2, <1>3, <1>4 DEF Next, Pipeline

LEMMA SeqInvariance ==
    ASSUME Sequential
    PROVE  Spec => [](IInv /\ MarksOK /\ SeqInv)
<1>1. Init => MarksOK /\ SeqInv
  BY MarksInitially, SeqInitially
<1>2. IInv /\ MarksOK /\ SeqInv /\ [Next]_vars => MarksOK' /\ SeqInv'
  BY MarkSteps, SeqNext
<1> QED
  BY <1>1, <1>2, Invariance, PTL DEF Spec

\* While handlers do not overlap, no position is closed on the snapshot it was opened on, or
\* before: a page view closes on a day that has no candle yet, and a sync closes on a date
\* that is newer than the one the position was last confirmed for.
THEOREM ClosedLater ==
    ASSUME Sequential
    PROVE  Spec => []ClosedAfterOpened
<1>1. SeqInv => ClosedAfterOpened
  BY DEF SeqInv, DatesOK, ClosedAfterOpened
<1> QED
  BY <1>1, SeqInvariance, PTL

\* While handlers do not overlap, a trade closed as lost had no signal on its close date, and
\* no later sync of the scanners or sale by hand gives that date the signal back.
THEOREM LossesAreReal ==
    ASSUME Sequential
    PROVE  Spec => []LossIsReal
<1>1. SeqInv => LossIsReal
  BY DEF SeqInv, DatesOK, LossIsReal
<1> QED
  BY <1>1, SeqInvariance, PTL

\* While handlers do not overlap, an exit is written once: what closes a row has read it
\* open, and the marking of duplicates leaves all else alone.
THEOREM ClosedTradesFrozen ==
    ASSUME Sequential
    PROVE  Spec => ClosedFrozen
<1>1. IInv /\ MarksOK /\ SeqInv /\ [Next]_vars =>
        [\A i \in DOMAIN trades :
           trades[i].status = "closed" =>
               [trades'[i] EXCEPT !.canonical = 0] = [trades[i] EXCEPT !.canonical = 0]]_trades
  BY SeqNext DEF ClosedStay
<1> QED
  BY <1>1, SeqInvariance, PTL DEF Spec, ClosedFrozen
=============================================================================
