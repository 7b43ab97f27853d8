------------------------ MODULE ScannerPeriodsProofs ------------------------
(***************************************************************************)
(* Proofs about ScannerPeriods, for any number of workers, any horizon and *)
(* any number of data dates.                                               *)
(***************************************************************************)
EXTENDS ScannerPeriods, TLAPS

-----------------------------------------------------------------------------
(* Each update of a row gives a row again, and keeps an entry price that is there. *)

Reasons == {"none", "manual", "auto", "horizon", "ended"}

\* t is r after an update that respects COALESCE(strategy_entry_price, ...).
KeepsEntry(r, t) == r.entry # Null => t.entry = r.entry

LEMMA NullTypes == Null \in Date /\ Null \in Quote /\ NoReturn \in Quote \X Quote
BY ConstantsAssumption DEF Null, Date, Quote, NoReturn

\* A close is a quote of its own day, corrected or not.
LEMMA CloseType ==
    ASSUME NEW d \in Dates, NEW fixed
    PROVE  /\ Close(d, fixed) \in Quote /\ Close(d, fixed) \notin {Null, Live}
           /\ DateOf(Close(d, fixed)) = d
<1>1. d \in Nat /\ d > 0
  BY ConstantsAssumption DEF Dates
<1> QED
  BY <1>1 DEF Close, Quote, DateOf, Null, Live

LEMMA NewPeriodType ==
    ASSUME NEW d \in Dates, NEW sig \in Signals, NEW price \in Quote
    PROVE  NewPeriod(d, sig, price) \in Period
BY ConstantsAssumption
   DEF NewPeriod, Period, Dates, Date, Quote, Direction, Confidence, Null, Live, NoReturn

LEMMA LegacyTypes ==
    /\ \A conf \in {"none", "low", "mid"} : LegacyPeriod(conf) \in Period
    /\ FalseExit \in Period /\ FalseExitFrozen \in Period
<1>0. 1 \in Dates /\ "low" \in Signals /\ "mid" \in Signals
  BY ConstantsAssumption DEF Dates, Signals
<1>1. 1 \in Date /\ 1 \in Quote
  BY ConstantsAssumption DEF Date, Quote, Dates
<1>2. NewPeriod(1, "low", Null) \in Period /\ NewPeriod(1, "mid", 1) \in Period
  BY <1>0, <1>1, NullTypes, NewPeriodType, Zenon
<1>3. LegacyPeriod("none") \in Period /\ LegacyPeriod("low") \in Period
      /\ LegacyPeriod("mid") \in Period /\ FalseExit \in Period
  BY <1>1, <1>2 DEF LegacyPeriod, FalseExit, Period
<1> HIDE DEF FalseExit
<1>4. FalseExitFrozen \in Period
  BY <1>1, <1>3 DEF FalseExitFrozen, Period
<1> QED
  BY <1>3, <1>4

LEMMA EnsuredRow ==
    ASSUME NEW r \in Period, Latest \in 0..MaxDate
    PROVE  /\ Repaired(EntryFrozen(Backfilled(r))) \in Period
           /\ KeepsEntry(r, Repaired(EntryFrozen(Backfilled(r))))
<1>1. Backfilled(r) \in Period /\ KeepsEntry(r, Backfilled(r))
  BY DEF Backfilled, Period, KeepsEntry
<1>2. \A t \in Period : EntryFrozen(t) \in Period /\ KeepsEntry(t, EntryFrozen(t))
  <2>1. \A t \in Period : t.admitted \in 1..Latest
           => Close(t.admitted, corrected) \in Quote
    BY CloseType, ConstantsAssumption DEF Dates
  <2>2. ASSUME NEW t \in Period, NEW quote \in Quote
        PROVE  [t EXCEPT !.entry = quote] \in Period
    BY DEF Period
  <2>3. ASSUME NEW t \in Period
        PROVE  EntryFrozen(t) \in Period /\ KeepsEntry(t, EntryFrozen(t))
    BY <2>1, <2>2, <2>3, Zenon DEF EntryFrozen, KeepsEntry
  <2> QED
    BY <2>3
<1>3. ASSUME NEW t \in Period
      PROVE  Repaired(t) \in Period /\ KeepsEntry(t, Repaired(t))
  <2> DEFINE u == [t EXCEPT !.status = "active", !.ended = Null, !.reason = "none",
                            !.closed = Null, !.exitDate = Null, !.exit = Null,
                            !.exitReason = "none", !.ret = NoReturn]
  <2>1. u \in Period
    BY NullTypes DEF Period
  <2>2. u.entry = t.entry
    BY DEF Period
  <2>3. Repaired(t) \in {t, u}
    BY DEF Repaired
  <2> HIDE DEF u
  <2> QED
    BY <2>1, <2>2, <2>3 DEF KeepsEntry
<1> QED
  BY <1>1, <1>2, <1>3 DEF KeepsEntry

LEMMA ClosedRowType ==
    ASSUME NEW r \in Period, NEW d \in Date, NEW quote \in Quote,
           NEW reason \in {"manual", "auto"}
    PROVE  /\ ClosedRow(r, d, quote, reason) \in Period
           /\ KeepsEntry(r, ClosedRow(r, d, quote, reason))
<1>1. <<r.entry, quote>> \in Quote \X Quote
  BY DEF Period
<1> DEFINE exitDate == Coalesce(r.exitDate, d)
           exit == Coalesce(r.exit, quote)
           exitReason == IF r.exitReason = "none" THEN reason ELSE r.exitReason
           ret == IF r.ret = NoReturn /\ r.entry # Null THEN <<r.entry, quote>> ELSE r.ret
<1>4. /\ exitDate \in Date /\ exit \in Quote /\ ret \in Quote \X Quote
      /\ exitReason \in {"none", "manual", "auto", "horizon", "ended"}
  BY <1>1 DEF Period, Coalesce
<1>5. ClosedRow(r, d, quote, reason) =
         [r EXCEPT !.status = "suppressed", !.ended = d, !.reason = reason,
                   !.closed = quote, !.exitDate = exitDate, !.exit = exit,
                   !.exitReason = exitReason, !.ret = ret]
  BY DEF ClosedRow, Period
<1>2. ClosedRow(r, d, quote, reason) \in Period
  <2> HIDE DEF exitDate, exit, exitReason, ret
  <2> QED
    BY <1>4, <1>5 DEF Period
<1>3. ClosedRow(r, d, quote, reason).entry = r.entry
  BY DEF ClosedRow, Period
<1> QED
  BY <1>2, <1>3 DEF KeepsEntry

LEMMA BumpedType ==
    ASSUME NEW t \in Period, NEW d \in Dates
    PROVE  Bumped(t, d) \in Period /\ KeepsEntry(t, Bumped(t, d))
<1> DEFINE next == t.obs + 1
<1>1. next \in Nat /\ d \in Date
  BY ConstantsAssumption DEF Period, Dates, Date
<1>2. Bumped(t, d) = [t EXCEPT !.last = d, !.obs = next]
  BY DEF Bumped, Period
<1> HIDE DEF next
<1>3. Bumped(t, d) \in Period
  BY <1>1, <1>2 DEF Period
<1>4. Bumped(t, d).entry = t.entry
  BY DEF Bumped, Period
<1> QED
  BY <1>3, <1>4 DEF KeepsEntry

LEMMA ObservedType ==
    ASSUME NEW r \in Period, NEW read \in Period, NEW d \in Dates,
           NEW sig \in Signals, NEW price \in Quote
    PROVE  /\ Observed(r, read, d, sig, price) \in Period
           /\ KeepsEntry(r, Observed(r, read, d, sig, price))
<1>1. d \in Date
  BY ConstantsAssumption DEF Date, Dates
<1>2. \A t \in Period : Bumped(t, d) \in Period /\ KeepsEntry(t, Bumped(t, d))
  BY BumpedType
<1> DEFINE admitted == [r EXCEPT !.admitted = d, !.entry = Coalesce(@, price)]
<1>3. admitted \in Period /\ KeepsEntry(r, admitted)
  BY <1>1 DEF Period, Coalesce, KeepsEntry
<1>4. \A t \in Period : LET g == [t EXCEPT !.conf = Confidence(sig)]
                        IN  g \in Period /\ KeepsEntry(t, g)
  BY DEF Period, Confidence, KeepsEntry
<1> HIDE DEF admitted
<1> DEFINE graded(t) == [t EXCEPT !.conf = Confidence(sig)]
<1>5. Observed(r, read, d, sig, price) \in
         {r, admitted, graded(r), graded(admitted), Bumped(r, d), Bumped(admitted, d),
          Bumped(graded(r), d), Bumped(graded(admitted), d)}
  BY DEF Observed, admitted
<1>6. KeepsEntry(r, graded(admitted)) /\ graded(admitted) \in Period
      /\ KeepsEntry(r, graded(r)) /\ graded(r) \in Period
  BY <1>3, <1>4 DEF KeepsEntry
<1> HIDE DEF graded
<1> QED
  BY <1>2, <1>3, <1>5, <1>6 DEF KeepsEntry

LEMMA ExitForType ==
    ASSUME NEW read \in Period, NEW d \in Dates, NEW fixed
    PROVE  ExitFor(read, d, fixed) \in Date \X Quote \X Reasons
<1>1. \A e \in 0..d : Close(e, fixed) \in Quote
  <2>1. ASSUME NEW e \in 1..d PROVE Close(e, fixed) \in Quote
    BY CloseType, ConstantsAssumption DEF Dates
  <2>2. Close(0, fixed) \in Quote
    BY DEF Close, Quote, Live, Null
  <2> QED
    BY <2>1, <2>2, ConstantsAssumption DEF Dates
<1> HIDE DEF Quote, Close
<1> QED
  BY <1>1, ConstantsAssumption
     DEF ExitFor, HorizonDate, Period, Dates, Date, Coalesce, Reasons, Null

LEMMA SnapshottedType ==
    ASSUME NEW r \in Period, NEW read \in Period, NEW d \in Dates, NEW fixed,
           read.entry # Null \/ read.admitted \in 1..d
    PROVE  /\ Snapshotted(r, read, d, fixed) \in Period
           /\ KeepsEntry(r, Snapshotted(r, read, d, fixed))
<1>1. ExitFor(read, d, fixed) \in Date \X Quote \X Reasons
  BY ExitForType
<1>2. EntryFor(read, fixed) \in Quote
  <2>1. read.admitted \in 1..d => Close(read.admitted, fixed) \in Quote
    BY CloseType, ConstantsAssumption DEF Dates
  <2> QED
    BY <2>1, Zenon DEF EntryFor, Coalesce, Period
<1> DEFINE exit == ExitFor(read, d, fixed)
<1>3. /\ exit[1] \in Date /\ exit[2] \in Quote /\ exit[3] \in Reasons
      /\ <<EntryFor(read, fixed), exit[2]>> \in Quote \X Quote
  BY <1>1, <1>2
<1>4. Snapshotted(r, read, d, fixed) =
         [r EXCEPT !.entry = Coalesce(@, EntryFor(read, fixed)),
                   !.exitDate = Coalesce(@, exit[1]),
                   !.exit = Coalesce(@, exit[2]),
                   !.exitReason = IF @ = "none" THEN exit[3] ELSE @,
                   !.ret = IF @ = NoReturn /\ exit[2] # Null
                           THEN <<EntryFor(read, fixed), exit[2]>> ELSE @]
  BY DEF Snapshotted
<1> HIDE DEF exit
<1> QED
  BY <1>2, <1>3, <1>4 DEF Period, Coalesce, KeepsEntry, Reasons

-----------------------------------------------------------------------------
(* The same of the whole table: rows are added and updated, never dropped. *)

Succeeds(ps, qs) ==
    /\ qs \in Seq(Period)
    /\ Len(ps) <= Len(qs)
    /\ \A i \in DOMAIN ps : KeepsEntry(ps[i], qs[i])

LEMMA SucceedsItself ==
    ASSUME NEW ps \in Seq(Period)
    PROVE  Succeeds(ps, ps)
BY DEF Succeeds, KeepsEntry

LEMMA SucceedsAgain ==
    ASSUME NEW ps \in Seq(Period), NEW qs, NEW rs, Succeeds(ps, qs), Succeeds(qs, rs)
    PROVE  Succeeds(ps, rs)
BY DEF Succeeds, KeepsEntry

LEMMA ReplaceRows ==
    ASSUME NEW ps \in Seq(Period), NEW qs, DOMAIN qs = DOMAIN ps,
           qs = [i \in DOMAIN ps |-> qs[i]],
           \A i \in DOMAIN ps : qs[i] \in Period /\ KeepsEntry(ps[i], qs[i])
    PROVE  Succeeds(ps, qs)
<1>1. qs \in [1..Len(ps) -> Period]
  OBVIOUS
<1>2. qs \in Seq(Period) /\ Len(qs) = Len(ps)
  BY <1>1
<1> QED
  BY <1>2 DEF Succeeds

LEMMA ReplaceRow ==
    ASSUME NEW ps \in Seq(Period), NEW i, NEW row,
           i \in DOMAIN ps => row \in Period /\ KeepsEntry(ps[i], row)
    PROVE  Succeeds(ps, [ps EXCEPT ![i] = row])
<1> DEFINE qs == [ps EXCEPT ![i] = row]
<1>1. DOMAIN qs = DOMAIN ps /\ qs = [k \in DOMAIN ps |-> qs[k]]
  OBVIOUS
<1>2. ASSUME NEW k \in DOMAIN ps PROVE qs[k] \in Period /\ KeepsEntry(ps[k], qs[k])
  <2>1. ps[k] \in Period
    OBVIOUS
  <2>2. qs[k] = IF k = i THEN row ELSE ps[k]
    OBVIOUS
  <2> QED
    BY <2>1, <2>2 DEF KeepsEntry
<1> HIDE DEF qs
<1>3. Succeeds(ps, qs)
  BY <1>1, <1>2, ReplaceRows
<1> QED
  BY <1>3 DEF qs

LEMMA EnsuredTable ==
    ASSUME NEW ps \in Seq(Period), Latest \in 0..MaxDate
    PROVE  Succeeds(ps, Ensured(ps))
<1>1. \A i \in DOMAIN ps : ps[i] \in Period
  OBVIOUS
<1> HIDE DEF Repaired, EntryFrozen, Backfilled
<1> QED
  BY <1>1, EnsuredRow, ReplaceRows DEF Ensured

LEMMA ClosedTable ==
    ASSUME NEW ps \in Seq(Period), NEW d \in Date, NEW quote \in Quote,
           NEW reason \in {"manual", "auto"}
    PROVE  Succeeds(ps, ClosedPositions(ps, d, quote, reason))
<1>1. \A i \in DOMAIN ps : ps[i] \in Period
  OBVIOUS
<1>2. \A r \in Period : KeepsEntry(r, r)
  BY DEF KeepsEntry
<1> QED
  BY <1>1, <1>2, ClosedRowType, ReplaceRows DEF ClosedPositions

LEMMA SnapshotTable ==
    ASSUME NEW ps \in Seq(Period), NEW read \in Seq(Period), NEW d \in Dates, NEW fixed
    PROVE  Succeeds(ps, SnapshotResult(ps, read, d, fixed))
<1>1. (\A i \in DOMAIN ps : ps[i] \in Period) /\ \A i \in DOMAIN read : read[i] \in Period
  OBVIOUS
<1>2. \A r \in Period : KeepsEntry(r, r)
  BY DEF KeepsEntry
<1> DEFINE qs == SnapshotResult(ps, read, d, fixed)
<1>3. DOMAIN qs = DOMAIN ps /\ qs = [i \in DOMAIN ps |-> qs[i]]
  BY DEF SnapshotResult
<1>4. ASSUME NEW i \in DOMAIN ps PROVE qs[i] \in Period /\ KeepsEntry(ps[i], qs[i])
  <2>1. \/ qs[i] = ps[i]
        \/ /\ i \in DOMAIN read /\ (read[i].entry # Null \/ read[i].admitted \in 1..d)
           /\ qs[i] = Snapshotted(ps[i], read[i], d, fixed)
    BY <1>1, ConstantsAssumption DEF SnapshotResult, Period, Date, Dates, Null
  <2> QED
    BY <1>1, <1>2, <2>1, SnapshottedType
<1> HIDE DEF qs
<1> QED
  BY <1>3, <1>4, ReplaceRows DEF qs

LEMMA FinishedTable ==
    ASSUME NEW ps \in Seq(Period), NEW i, NEW d \in Dates
    PROVE  Succeeds(ps, Finished(ps, i)) /\ Succeeds(ps, FinishedOn(ps, i, d))
<1> DEFINE row  == [ps[i] EXCEPT !.status = "closed"]
           row2 == [ps[i] EXCEPT !.status = "closed", !.ended = d]
<1>1. Finished(ps, i) = [ps EXCEPT ![i] = row]
  BY DEF Finished
<1>2. FinishedOn(ps, i, d) = [ps EXCEPT ![i] = row2]
  BY DEF FinishedOn
<1>3. ASSUME i \in DOMAIN ps
      PROVE  /\ row \in Period /\ KeepsEntry(ps[i], row)
             /\ row2 \in Period /\ KeepsEntry(ps[i], row2)
  <2>1. ps[i] \in Period /\ d \in Date
    BY <1>3, ConstantsAssumption DEF Date, Dates
  <2>2. row \in Period /\ row2 \in Period
    BY <2>1 DEF Period
  <2>3. row.entry = ps[i].entry /\ row2.entry = ps[i].entry
    BY <2>1 DEF Period
  <2> QED
    BY <2>2, <2>3 DEF KeepsEntry
<1> HIDE DEF row, row2
<1>4. Succeeds(ps, [ps EXCEPT ![i] = row])
  BY <1>3, ReplaceRow
<1>5. Succeeds(ps, [ps EXCEPT ![i] = row2])
  BY <1>3, ReplaceRow
<1> QED
  BY <1>1, <1>2, <1>4, <1>5

LEMMA ContinuedTable ==
    ASSUME NEW ps \in Seq(Period), NEW act \in Seq(Period), NEW sup \in Seq(Period),
           NEW a \in DOMAIN act \cup {0}, NEW s \in DOMAIN sup \cup {0},
           NEW d \in Dates, NEW sig \in Signals, NEW price \in Quote
    PROVE  Succeeds(ps, Continued(ps, act, sup, a, s, d, sig, price))
<1> DEFINE dir == Direction(sig)
           released == IF s # 0 THEN Finished(ps, s) ELSE ps
           flipped == IF a # 0 THEN FinishedOn(released, a, d) ELSE released
<1>1. Succeeds(ps, released) /\ released \in Seq(Period)
  BY FinishedTable, SucceedsItself DEF Succeeds
<1>2. Succeeds(ps, flipped) /\ flipped \in Seq(Period)
  <2> HIDE DEF released
  <2>1. Succeeds(released, flipped)
    BY <1>1, FinishedTable, SucceedsItself
  <2> QED
    BY <1>1, <2>1, SucceedsAgain DEF Succeeds
<1>3. Succeeds(ps, Append(flipped, NewPeriod(d, sig, price)))
  <2> HIDE DEF flipped
  <2>1. NewPeriod(d, sig, price) \in Period
    BY NewPeriodType
  <2>2. Succeeds(flipped, Append(flipped, NewPeriod(d, sig, price)))
    BY <1>2, <2>1 DEF Succeeds, KeepsEntry
  <2> QED
    BY <1>2, <2>2, SucceedsAgain
<1>4. Succeeds(ps, [ps EXCEPT ![s] = Bumped(@, d)])
  <2> DEFINE row == Bumped(ps[s], d)
  <2>1. s \in DOMAIN ps => row \in Period /\ KeepsEntry(ps[s], row)
    BY BumpedType
  <2> HIDE DEF row
  <2>2. Succeeds(ps, [ps EXCEPT ![s] = row])
    BY <2>1, ReplaceRow
  <2> QED
    BY <2>2 DEF row
<1>5. a # 0 => Succeeds(ps, [released EXCEPT ![a] = Observed(@, act[a], d, sig, price)])
  <2> HIDE DEF released
  <2> SUFFICES ASSUME a # 0
               PROVE  Succeeds(ps, [released EXCEPT ![a] =
                                      Observed(@, act[a], d, sig, price)])
    OBVIOUS
  <2> DEFINE row == Observed(released[a], act[a], d, sig, price)
  <2>1. act[a] \in Period /\ (a \in DOMAIN released => released[a] \in Period)
    BY <1>1
  <2>2. a \in DOMAIN released => row \in Period /\ KeepsEntry(released[a], row)
    BY <2>1, ObservedType
  <2> HIDE DEF row
  <2>3. Succeeds(released, [released EXCEPT ![a] = row])
    BY <1>1, <2>2, ReplaceRow
  <2> QED
    BY <1>1, <2>3, SucceedsAgain DEF row
<1> QED
  BY <1>1, <1>3, <1>4, <1>5, SucceedsItself DEF Continued

LEMMA EndedTable ==
    ASSUME NEW ps \in Seq(Period), NEW act, NEW a, NEW s, NEW d \in Dates
    PROVE  Succeeds(ps, Ended(ps, act, a, s, d))
<1> DEFINE ended == IF a # 0 /\ d > act[a].last THEN FinishedOn(ps, a, d) ELSE ps
<1>1. Succeeds(ps, ended) /\ ended \in Seq(Period)
  BY FinishedTable, SucceedsItself DEF Succeeds
<1> HIDE DEF ended
<1>2. Succeeds(ended, IF s # 0 THEN Finished(ended, s) ELSE ended)
  BY <1>1, FinishedTable, SucceedsItself
<1> QED
  BY <1>1, <1>2, SucceedsAgain DEF Ended, ended

LEMMA SyncTable ==
    ASSUME NEW ps \in Seq(Period), NEW act \in Seq(Period), NEW sup \in Seq(Period),
           NEW d \in Dates, NEW sig \in Signals, NEW price \in Quote,
           NEW qs \in SyncResults(ps, act, sup, d, sig, price)
    PROVE  Succeeds(ps, qs)
<1>1. PICK a \in ReadId(act, "active"), s \in ReadId(sup, "suppressed") :
         qs = IF sig = "none" THEN Ended(ps, act, a, s, d)
                              ELSE Continued(ps, act, sup, a, s, d, sig, price)
  BY DEF SyncResults
<1>2. a \in DOMAIN act \cup {0} /\ s \in DOMAIN sup \cup {0}
  BY DEF ReadId, WithStatus
<1> QED
  BY <1>1, <1>2, ContinuedTable, EndedTable

-----------------------------------------------------------------------------
(* The inductive invariant. *)

\* A trade is journaled with the entry of its period, which is there.
JournaledEntries ==
    /\ DOMAIN journal \subseteq DOMAIN periods
    /\ \A i \in DOMAIN journal :
          /\ journal[i] \in Trade
          /\ journal[i].entry = periods[i].entry
          /\ periods[i].entry # Null

TablesOK == periods \in Seq(Period) /\ JournaledEntries

\* A worker that is not idle has a phase to go, and reads candles that exist.
WorkerOK(w) ==
    proc[w].at # "idle" =>
        /\ proc[w].kind \in Kinds
        /\ proc[w].todo # <<>>
        /\ \A i \in DOMAIN proc[w].todo :
              proc[w].todo[i] # "manual" => proc[w].date \in 1..Latest

WorkersOK == \A w \in Workers : WorkerOK(w)

ProcsOK == proc \in [Workers -> Proc] /\ WorkersOK

MarketOK ==
    /\ market \in Seq(Candle) /\ corrected \subseteq Dates
    /\ today \in Int /\ Latest < today /\ today <= MaxDate + 1

IInv ==
    /\ MarketOK /\ TablesOK /\ ProcsOK
    /\ crashes \in 0..MaxCrashes

\* What no commit does: drop a journal trade, change one, or change an entry.
FrozenKept == JournalKept /\ EntriesKept

LEMMA TradeType ==
    ASSUME NEW r \in Period, Journalable(r)
    PROVE  TradeOf(r) \in Trade /\ TradeOf(r).entry = r.entry /\ r.entry # Null
BY DEF TradeOf, Trade, Period, Journalable

\* A commit appends to the journal the trades that the new rows complete.
LEMMA CommitTables ==
    ASSUME TablesOK, NEW ps, Succeeds(periods, ps),
           \/ periods' = ps /\ journal' = Appended(ps)
           \/ UNCHANGED <<periods, journal>>
    PROVE  TablesOK' /\ FrozenKept
<1>1. CASE UNCHANGED <<periods, journal>>
  BY <1>1 DEF TablesOK, JournaledEntries, FrozenKept, JournalKept, EntriesKept
<1>2. CASE periods' = ps /\ journal' = Appended(ps)
  <2> DEFINE Done == {k \in DOMAIN ps : Journalable(ps[k])}
  <2>1. /\ ps \in Seq(Period) /\ DOMAIN periods \subseteq DOMAIN ps
        /\ \A i \in DOMAIN periods : periods[i].entry # Null => ps[i].entry = periods[i].entry
    BY DEF Succeeds, KeepsEntry, TablesOK
  <2>2. /\ DOMAIN journal' = DOMAIN journal \cup Done
        /\ \A i \in DOMAIN journal' :
              journal'[i] = IF i \in DOMAIN journal THEN journal[i] ELSE TradeOf(ps[i])
    BY <1>2 DEF Appended
  <2>3. DOMAIN journal' \subseteq DOMAIN ps
    BY <2>1, <2>2 DEF TablesOK, JournaledEntries
  <2>4. ASSUME NEW i \in DOMAIN journal'
        PROVE  /\ journal'[i] \in Trade /\ journal'[i].entry = ps[i].entry
               /\ ps[i].entry # Null
    <3>1. CASE i \in DOMAIN journal
      BY <2>1, <2>2, <3>1 DEF TablesOK, JournaledEntries
    <3>2. CASE i \notin DOMAIN journal
      <4>1. i \in DOMAIN ps /\ Journalable(ps[i]) /\ ps[i] \in Period
        BY <2>1, <2>2, <3>2
      <4> QED
        BY <2>2, <3>2, <4>1, TradeType
    <3> QED
      BY <3>1, <3>2
  <2>5. TablesOK'
    BY <1>2, <2>1, <2>3, <2>4 DEF TablesOK, JournaledEntries
  <2>6. FrozenKept
    BY <1>2, <2>1, <2>2 DEF FrozenKept, JournalKept, EntriesKept
  <2> QED
    BY <2>5, <2>6
<1> QED
  BY <1>1, <1>2

\* A worker that steps on is well off if its new program counter is.
LEMMA OneWorker ==
    ASSUME ProcsOK, market' = market, NEW w \in Workers, NEW q \in Proc,
           proc' = [proc EXCEPT ![w] = q],
           q.at # "idle" => /\ q.kind \in Kinds /\ q.todo # <<>>
                            /\ \A i \in DOMAIN q.todo :
                                  q.todo[i] # "manual" => q.date \in 1..Latest
    PROVE  ProcsOK'
<1>1. proc' \in [Workers -> Proc]
  BY DEF ProcsOK
<1>2. proc'[w] = q /\ \A v \in Workers : v # w => proc'[v] = proc[v]
  BY DEF ProcsOK
<1> QED
  BY <1>1, <1>2 DEF ProcsOK, WorkersOK, WorkerOK, Latest

LEMMA IdleProc == Idle \in Proc /\ Idle.at = "idle"
BY ConstantsAssumption DEF Idle, Proc, Date

\* The next phase of a handler is well off where the last one was.
LEMMA NextPhaseOK ==
    ASSUME ProcsOK, NEW w \in Workers, proc[w].at # "idle"
    PROVE  /\ NextPhase(w) \in Proc
           /\ NextPhase(w).at # "idle" =>
                 /\ NextPhase(w).kind \in Kinds /\ NextPhase(w).todo # <<>>
                 /\ \A i \in DOMAIN NextPhase(w).todo :
                       NextPhase(w).todo[i] # "manual" => NextPhase(w).date \in 1..Latest
<1>1. /\ proc[w] \in Proc /\ proc[w].todo \in Seq(Phases) /\ proc[w].todo # <<>>
      /\ proc[w].kind \in Kinds
      /\ \A i \in DOMAIN proc[w].todo :
            proc[w].todo[i] # "manual" => proc[w].date \in 1..Latest
  BY DEF ProcsOK, WorkersOK, WorkerOK, Proc
<1>2. CASE Tail1(w) = <<>>
  BY <1>2, IdleProc DEF NextPhase
<1>3. CASE Tail1(w) # <<>>
  <2> DEFINE rest == Tail(proc[w].todo)
  <2>1. NextPhase(w) = [proc[w] EXCEPT !.todo = rest, !.at = "ensure",
                                       !.seenActive = <<>>, !.seenSuppressed = <<>>]
    BY <1>3 DEF NextPhase, Tail1
  <2>2. /\ rest \in Seq(Phases) /\ rest # <<>>
        /\ \A i \in DOMAIN rest : /\ i + 1 \in DOMAIN proc[w].todo
                                  /\ rest[i] = proc[w].todo[i + 1]
    BY <1>1, <1>3 DEF Tail1
  <2>3. \A i \in DOMAIN rest : rest[i] # "manual" => proc[w].date \in 1..Latest
    BY <1>1, <2>2
  <2> HIDE DEF rest
  <2>4. <<>> \in Seq(Period)
    OBVIOUS
  <2>5. /\ NextPhase(w) \in Proc /\ NextPhase(w).kind = proc[w].kind
        /\ NextPhase(w).todo = rest /\ NextPhase(w).date = proc[w].date
    BY <1>1, <2>1, <2>2, <2>4 DEF Proc
  <2> QED
    BY <1>1, <2>2, <2>3, <2>5
<1> QED
  BY <1>2, <1>3

\* What a worker at a step knows of its handler and date.
LEMMA AtFacts ==
    ASSUME IInv, NEW w \in Workers, NEW phases, NEW step, At(w, phases, step),
           step # "idle"
    PROVE  /\ proc[w] \in Proc /\ proc[w].at = step
           /\ Handler(w) \in Phases \cap phases
           /\ Handler(w) # "manual" => proc[w].date \in 1..Latest /\ proc[w].date \in Dates
           /\ Latest \in 0..MaxDate
<1>1. /\ proc[w] \in Proc /\ proc[w].todo \in Seq(Phases) /\ proc[w].todo # <<>>
      /\ \A i \in DOMAIN proc[w].todo :
            proc[w].todo[i] # "manual" => proc[w].date \in 1..Latest
  BY DEF At, IInv, ProcsOK, WorkersOK, WorkerOK, Proc
<1>2. Handler(w) = proc[w].todo[1] /\ 1 \in DOMAIN proc[w].todo
  BY <1>1 DEF Handler
<1>3. Handler(w) \in Phases
  BY <1>1, <1>2
<1>4. Latest \in 0..MaxDate
  BY ConstantsAssumption DEF IInv, MarketOK, Latest
<1> QED
  BY <1>1, <1>2, <1>3, <1>4, ConstantsAssumption DEF At, Dates

\* A commit of rows that succeed those of the table, going on with q.
LEMMA CommitOK ==
    ASSUME IInv, NEW w \in Workers, proc[w].at # "idle", NEW ps, NEW q \in Proc,
           CommitPeriods(w, ps, q), UNCHANGED <<today, market, corrected, crashes>>,
           Succeeds(periods, ps),
           q.at # "idle" => /\ q.kind \in Kinds /\ q.todo # <<>>
                            /\ \A i \in DOMAIN q.todo :
                                  q.todo[i] # "manual" => q.date \in 1..Latest
    PROVE  IInv' /\ FrozenKept
<1>1. TablesOK' /\ FrozenKept
  BY CommitTables DEF CommitPeriods, IInv
<1>2. ProcsOK'
  <2>1. CASE proc' = [proc EXCEPT ![w] = q]
    BY <2>1, OneWorker DEF IInv
  <2>2. CASE proc' = [proc EXCEPT ![w] = Idle]
    BY <2>2, OneWorker, IdleProc DEF IInv
  <2> QED
    BY <2>1, <2>2 DEF CommitPeriods
<1>3. MarketOK'
  BY DEF IInv, MarketOK, Latest
<1> QED
  BY <1>1, <1>2, <1>3 DEF IInv

\* A step that leaves the tables alone and goes on with q.
LEMMA MoveOK ==
    ASSUME IInv, NEW w \in Workers, NEW q \in Proc, crashes' \in 0..MaxCrashes,
           proc' = [proc EXCEPT ![w] = q], UNCHANGED <<today, market, corrected, periods, journal>>,
           q.at # "idle" => /\ q.kind \in Kinds /\ q.todo # <<>>
                            /\ \A i \in DOMAIN q.todo :
                                  q.todo[i] # "manual" => q.date \in 1..Latest
    PROVE  IInv' /\ FrozenKept
<1>1. ProcsOK'
  BY OneWorker DEF IInv
<1>2. TablesOK' /\ FrozenKept
  BY DEF IInv, TablesOK, JournaledEntries, FrozenKept, JournalKept, EntriesKept
<1>3. MarketOK'
  BY DEF IInv, MarketOK, Latest
<1> QED
  BY <1>1, <1>2, <1>3 DEF IInv

-----------------------------------------------------------------------------
(* One lemma per action. *)

LEMMA EnsureSchemaStep ==
    ASSUME IInv, NEW w \in Workers, EnsureSchema(w)
    PROVE  IInv' /\ FrozenKept
<1> DEFINE q == [proc[w] EXCEPT !.at = IF Handler(w) \in {"autoclose", "manual"}
                                       THEN "write" ELSE "active"]
<1>1. /\ proc[w] \in Proc /\ proc[w].at = "ensure" /\ Latest \in 0..MaxDate
  BY AtFacts DEF EnsureSchema
<1>2. /\ q \in Proc /\ q.kind = proc[w].kind /\ q.todo = proc[w].todo
      /\ q.date = proc[w].date
  BY <1>1 DEF Proc
<1>3. WorkerOK(w)
  BY DEF IInv, ProcsOK, WorkersOK
<1>4. Succeeds(periods, Ensured(periods))
  BY <1>1, EnsuredTable DEF IInv, TablesOK
<1>5. CommitPeriods(w, Ensured(periods), q) /\ UNCHANGED <<today, market, corrected, crashes>>
  BY DEF EnsureSchema
<1> HIDE DEF q
<1> QED
  BY <1>1, <1>2, <1>3, <1>4, <1>5, CommitOK DEF WorkerOK

LEMMA ClosePositionStep ==
    ASSUME IInv, NEW w \in Workers, ClosePosition(w)
    PROVE  IInv' /\ FrozenKept
<1> DEFINE reason == IF Handler(w) = "manual" THEN "manual" ELSE "auto"
           quote  == IF Handler(w) = "manual" THEN Live
                     ELSE Close(proc[w].date, proc[w].fixed)
           closed == ClosedPositions(periods, proc[w].date, quote, reason)
<1>1. /\ proc[w] \in Proc /\ proc[w].at = "write"
      /\ Handler(w) # "manual" => proc[w].date \in Dates
  BY AtFacts DEF ClosePosition
<1>2. /\ proc[w].date \in Date /\ quote \in Quote /\ reason \in {"manual", "auto"}
  BY <1>1, CloseType DEF Proc, Quote
<1>3. Succeeds(periods, closed)
  BY <1>2, ClosedTable DEF IInv, TablesOK
<1>4. \/ /\ proc' = [proc EXCEPT ![w] = NextPhase(w)]
         /\ UNCHANGED <<periods, journal>>
      \/ CommitPeriods(w, closed, NextPhase(w))
  BY DEF ClosePosition
<1>5. UNCHANGED <<today, market, corrected, crashes>>
  BY DEF ClosePosition
<1>6. ProcsOK /\ proc[w].at # "idle"
  BY <1>1 DEF IInv
<1> HIDE DEF closed
<1>7. CASE CommitPeriods(w, closed, NextPhase(w))
  BY <1>3, <1>5, <1>6, <1>7, NextPhaseOK, CommitOK
<1>8. CASE /\ proc' = [proc EXCEPT ![w] = NextPhase(w)]
           /\ UNCHANGED <<periods, journal>>
  BY <1>5, <1>6, <1>8, NextPhaseOK, MoveOK DEF IInv
<1> QED
  BY <1>4, <1>7, <1>8

LEMMA ReadStep ==
    ASSUME IInv, NEW w \in Workers, ReadActive(w) \/ ReadSuppressed(w)
    PROVE  IInv' /\ FrozenKept
<1> DEFINE qa == [proc[w] EXCEPT !.seenActive = periods,
                                 !.at = IF Handler(w) = "sync" THEN "suppressed" ELSE "write"]
           qs == [proc[w] EXCEPT !.seenSuppressed = periods, !.at = "write"]
<1>1. proc[w] \in Proc /\ proc[w].at # "idle"
  BY AtFacts DEF ReadActive, ReadSuppressed
<1>2. WorkerOK(w) /\ periods \in Seq(Period) /\ crashes' \in 0..MaxCrashes
  BY DEF IInv, ProcsOK, WorkersOK, TablesOK, ReadActive, ReadSuppressed
<1>3. /\ qa \in Proc /\ qa.kind = proc[w].kind /\ qa.todo = proc[w].todo
      /\ qa.date = proc[w].date
  BY <1>1, <1>2 DEF Proc
<1>4. /\ qs \in Proc /\ qs.kind = proc[w].kind /\ qs.todo = proc[w].todo
      /\ qs.date = proc[w].date
  BY <1>1, <1>2 DEF Proc
<1>5. proc' = [proc EXCEPT ![w] = qa] \/ proc' = [proc EXCEPT ![w] = qs]
  BY <1>1 DEF ReadActive, ReadSuppressed, IInv, ProcsOK, Proc
<1>6. UNCHANGED <<today, market, corrected, periods, journal>>
  BY DEF ReadActive, ReadSuppressed
<1> HIDE DEF qa, qs
<1>7. CASE proc' = [proc EXCEPT ![w] = qa]
  BY <1>1, <1>2, <1>3, <1>6, <1>7, MoveOK DEF WorkerOK
<1>8. CASE proc' = [proc EXCEPT ![w] = qs]
  BY <1>1, <1>2, <1>4, <1>6, <1>8, MoveOK DEF WorkerOK
<1> QED
  BY <1>5, <1>7, <1>8

\* A data date that has a candle has a signal.
LEMMA SignalRead ==
    ASSUME IInv, NEW d \in 1..Latest
    PROVE  market[d].signal \in Signals
<1>1. market \in Seq(Candle) /\ d \in 1..Len(market)
  BY DEF IInv, MarketOK, Latest
<1>2. \A c \in Candle : c.signal \in Signals
  BY Zenon DEF Candle
<1>3. market[d] \in Candle
  BY <1>1
<1> QED
  BY <1>2, <1>3

LEMMA WriteSyncStep ==
    ASSUME IInv, NEW w \in Workers, WriteSync(w)
    PROVE  IInv' /\ FrozenKept
<1>1. /\ proc[w] \in Proc /\ proc[w].at # "idle"
      /\ proc[w].date \in Dates /\ proc[w].date \in 1..Latest
  BY AtFacts DEF WriteSync
<1>2. PICK ps \in SyncResults(periods, proc[w].seenActive, proc[w].seenSuppressed,
                              proc[w].date, market[proc[w].date].signal, CurrentPrice(w)) :
         CommitPeriods(w, ps, NextPhase(w))
  BY DEF WriteSync
<1>3. market[proc[w].date].signal \in Signals
  BY <1>1, SignalRead
<1>4. /\ proc[w].seenActive \in Seq(Period) /\ proc[w].seenSuppressed \in Seq(Period)
      /\ CurrentPrice(w) \in Quote
  BY <1>1, CloseType, NullTypes DEF Proc, CurrentPrice
<1>5. Succeeds(periods, ps)
  BY <1>1, <1>2, <1>3, <1>4, SyncTable DEF IInv, TablesOK
<1>6. ProcsOK /\ UNCHANGED <<today, market, corrected, crashes>>
  BY DEF IInv, WriteSync
<1> QED
  BY <1>1, <1>2, <1>5, <1>6, NextPhaseOK, CommitOK

LEMMA WriteSnapshotStep ==
    ASSUME IInv, NEW w \in Workers, WriteSnapshot(w)
    PROVE  IInv' /\ FrozenKept
<1>1. proc[w] \in Proc /\ proc[w].at # "idle" /\ proc[w].date \in Dates
  BY AtFacts DEF WriteSnapshot
<1>2. Succeeds(periods, SnapshotResult(periods, proc[w].seenActive, proc[w].date,
                                        proc[w].fixed))
  BY <1>1, SnapshotTable DEF Proc, IInv, TablesOK
<1>3. ProcsOK /\ UNCHANGED <<today, market, corrected, crashes>>
      /\ CommitPeriods(w, SnapshotResult(periods, proc[w].seenActive, proc[w].date,
                                        proc[w].fixed),
                       NextPhase(w))
  BY DEF IInv, WriteSnapshot
<1> QED
  BY <1>1, <1>2, <1>3, NextPhaseOK, CommitOK

LEMMA CrashStep ==
    ASSUME IInv, NEW w \in Workers, Crash(w)
    PROVE  IInv' /\ FrozenKept
<1>1. crashes' \in 0..MaxCrashes
  BY ConstantsAssumption DEF IInv, Crash
<1> QED
  BY <1>1, IdleProc, MoveOK DEF Crash

LEMMA BeginStep ==
    ASSUME IInv, NEW w \in Workers, NEW k \in Kinds, Begin(w, k)
    PROVE  IInv' /\ FrozenKept
<1> DEFINE todo == Program(k, Latest)
           q == [Idle EXCEPT !.kind = k, !.at = "ensure", !.todo = todo,
                             !.date = RunDate(k), !.fixed = corrected]
<1>1. Latest \in 1..MaxDate /\ today \in Date
  BY ConstantsAssumption DEF IInv, MarketOK, Latest, Begin, Date
<1>2. /\ todo \in Seq(Phases) /\ todo # <<>>
      /\ k # "manual" => \A i \in DOMAIN todo : todo[i] # "manual"
      /\ k = "manual" => \A i \in DOMAIN todo : todo[i] = "manual"
  <2>1. todo \in {<<"autoclose", "sync", "snapshot">>, <<"snapshot", "sync", "snapshot">>,
                  <<"sync", "snapshot">>, <<"sync">>, <<"snapshot">>, <<"manual">>}
    <3>1. k \in AllKinds
      BY ConstantsAssumption
    <3>2. CASE market[Latest].pump
      BY <3>1, <3>2, Zenon DEF AllKinds, Program
    <3>3. CASE ~market[Latest].pump
      BY <3>1, <3>3, Zenon DEF AllKinds, Program
    <3> QED
      BY <3>2, <3>3
  <2>2. k = "manual" <=> todo = <<"manual">>
    <3>1. k \in AllKinds
      BY ConstantsAssumption
    <3> QED
      BY <3>1 DEF AllKinds, Program
  <2> HIDE DEF todo
  <2>3. CASE todo = <<"autoclose", "sync", "snapshot">>
    BY <2>2, <2>3 DEF Phases
  <2>4. CASE todo = <<"snapshot", "sync", "snapshot">>
    BY <2>2, <2>4 DEF Phases
  <2>5. CASE todo = <<"sync", "snapshot">>
    BY <2>2, <2>5 DEF Phases
  <2>6. CASE todo = <<"sync">>
    BY <2>2, <2>6 DEF Phases
  <2>7. CASE todo = <<"snapshot">>
    BY <2>2, <2>7 DEF Phases
  <2>8. CASE todo = <<"manual">>
    BY <2>2, <2>8 DEF Phases
  <2> QED
    BY <2>1, <2>3, <2>4, <2>5, <2>6, <2>7, <2>8
<1>3. RunDate(k) \in Date /\ (k # "manual" => RunDate(k) \in 1..Latest)
  BY <1>1, ConstantsAssumption DEF RunDate, Date
<1> HIDE DEF todo
<1>4. /\ q \in Proc /\ q.kind = k /\ q.todo = todo /\ q.date = RunDate(k)
  <2>1. <<>> \in Seq(Period)
    OBVIOUS
  <2>2. /\ Idle.seenActive = <<>> /\ Idle.seenSuppressed = <<>>
        /\ DOMAIN Idle = {"kind", "todo", "at", "date", "fixed",
                          "seenActive", "seenSuppressed"}
    BY DEF Idle
  <2> QED
    BY <1>2, <1>3, <2>1, <2>2, IdleProc DEF Proc, IInv, MarketOK
<1>5. /\ proc' = [proc EXCEPT ![w] = q]
      /\ UNCHANGED <<today, market, corrected, periods, journal, crashes>>
  BY DEF Begin, todo
<1> HIDE DEF q
<1> QED
  BY <1>2, <1>3, <1>4, <1>5, MoveOK DEF IInv

LEMMA NewDayStep ==
    ASSUME IInv, NewDay
    PROVE  IInv' /\ FrozenKept
<1>1. MarketOK'
  BY ConstantsAssumption DEF NewDay, IInv, MarketOK, Latest
<1>2. UNCHANGED <<market, periods, journal, proc, crashes>>
  BY DEF NewDay
<1>3. TablesOK' /\ FrozenKept
  BY <1>2 DEF IInv, TablesOK, JournaledEntries, FrozenKept, JournalKept, EntriesKept
<1>4. ProcsOK'
  BY <1>2 DEF IInv, ProcsOK, WorkersOK, WorkerOK, Latest
<1> QED
  BY <1>1, <1>2, <1>3, <1>4 DEF IInv

\* The new candles follow the old ones, which stay.
LEMMA PricesActivated ==
    ASSUME IInv, ActivatePrices
    PROVE  /\ MarketOK' /\ Latest <= Latest'
           /\ \A d \in 1..Latest : market'[d] = market[d]
           /\ \A w \in Workers : proc[w].kind = "manual" => Latest' < proc[w].date
<1>1. PICK upto \in {today - 2, today - 1}, again \in SUBSET (Dates \cap Latest - 7..Latest) :
         /\ upto >= Latest /\ corrected' = corrected \cup again
         /\ \A w \in Workers : proc[w].kind = "manual" => upto < proc[w].date
         /\ \E new \in [1..upto - Latest -> Candle] : market' = market \o new
  BY DEF ActivatePrices
<1>2. PICK new \in [1..upto - Latest -> Candle] : market' = market \o new
  BY <1>1
<1>3. /\ market \in Seq(Candle) /\ Latest \in Nat /\ today \in Int
      /\ today <= MaxDate + 1 /\ corrected \subseteq Dates
  BY DEF IInv, MarketOK, Latest
<1>4. upto - Latest \in Nat /\ upto < today /\ upto \in Int
  BY <1>1, <1>3
<1>5. new \in Seq(Candle) /\ Len(new) = upto - Latest
  BY <1>2, <1>4
<1>6. /\ market' \in Seq(Candle) /\ Len(market') = upto
      /\ \A d \in 1..Len(market) : market'[d] = market[d]
  BY <1>2, <1>3, <1>4, <1>5 DEF Latest
<1>7. today' = today
  BY DEF ActivatePrices
<1>8. Latest' = upto /\ MarketOK'
  BY <1>1, <1>3, <1>4, <1>6, <1>7 DEF MarketOK, Latest
<1> QED
  BY <1>1, <1>3, <1>6, <1>8 DEF Latest

LEMMA ActivatePricesStep ==
    ASSUME IInv, ActivatePrices
    PROVE  IInv' /\ FrozenKept
<1>1. MarketOK' /\ Latest <= Latest' /\ Latest \in Nat /\ Latest' \in Nat
  BY PricesActivated DEF IInv, MarketOK, Latest
<1>2. UNCHANGED <<periods, journal, proc, crashes>>
  BY DEF ActivatePrices
<1>3. TablesOK' /\ FrozenKept
  BY <1>2 DEF IInv, TablesOK, JournaledEntries, FrozenKept, JournalKept, EntriesKept
<1>4. ProcsOK'
  BY <1>1, <1>2 DEF IInv, ProcsOK, WorkersOK, WorkerOK
<1> QED
  BY <1>1, <1>2, <1>3, <1>4 DEF IInv

-----------------------------------------------------------------------------
(* The invariant, and what follows from it. *)

LEMMA Initially == Init => IInv
<1> SUFFICES ASSUME Init PROVE IInv
  OBVIOUS
<1>1. <<>> \in Seq(Candle) /\ <<>> \in Seq(Period)
  OBVIOUS
<1>2. ASSUME NEW sig \in {"low", "mid"}
      PROVE  <<[signal |-> sig, pump |-> FALSE]>> \in Seq(Candle)
  <2> DEFINE c == [signal |-> sig, pump |-> FALSE]
  <2>1. c \in Candle
    BY Zenon DEF Signals, Candle
  <2> HIDE DEF c
  <2>2. <<c>> \in Seq(Candle)
    BY <2>1
  <2> QED
    BY <2>2 DEF c
<1>3. /\ market \in Seq(Candle)
      /\ market = <<>> \/ Len(market) = 1
  BY <1>1, <1>2 DEF Init
<1>4. ASSUME NEW r, r \in Period
      PROVE  <<r>> \in Seq(Period)
  BY <1>4
<1>5. periods \in Seq(Period)
  BY <1>1, <1>4, LegacyTypes DEF Init
<1>6. MarketOK
  <2>1. Len(market) \in Nat /\ Len(market) <= MaxDate
    BY <1>3, ConstantsAssumption
  <2>2. today = Len(market) + 1 /\ corrected = {}
    BY DEF Init, Latest
  <2> QED
    BY <1>3, <2>1, <2>2, ConstantsAssumption DEF MarketOK, Latest
<1>7. DOMAIN journal = {}
  BY DEF Init
<1>8. TablesOK
  BY <1>5, <1>7 DEF TablesOK, JournaledEntries
<1>9. ProcsOK
  BY IdleProc DEF Init, ProcsOK, WorkersOK, WorkerOK
<1> QED
  BY <1>6, <1>8, <1>9, ConstantsAssumption DEF Init, IInv

\* Every step keeps the invariant, every trade and every entry.
LEMMA Steps == IInv /\ [Next]_vars => IInv' /\ FrozenKept
<1> SUFFICES ASSUME IInv, [Next]_vars
             PROVE  IInv' /\ FrozenKept
  OBVIOUS
<1>1. CASE NewDay \/ ActivatePrices
  BY <1>1, NewDayStep, ActivatePricesStep
<1>2. ASSUME NEW w \in Workers, NEW k \in Kinds, Begin(w, k)
      PROVE  IInv' /\ FrozenKept
  BY <1>2, BeginStep
<1>3. ASSUME NEW w \in Workers, Step(w)
      PROVE  IInv' /\ FrozenKept
  BY <1>3, EnsureSchemaStep, ClosePositionStep, ReadStep, WriteSyncStep,
     WriteSnapshotStep DEF Step
<1>4. ASSUME NEW w \in Workers, Crash(w)
      PROVE  IInv' /\ FrozenKept
  BY <1>4, CrashStep
<1>5. CASE UNCHANGED vars
  <2>1. IInv'
    BY <1>5 DEF vars, IInv, MarketOK, TablesOK, JournaledEntries, ProcsOK, WorkersOK,
                WorkerOK, Latest
  <2>2. FrozenKept
    BY <1>5 DEF vars, FrozenKept, JournalKept, EntriesKept
  <2> QED
    BY <2>1, <2>2
<1> QED
  BY <1>1, <1>2, <1>3, <1>4, <1>5 DEF Next

LEMMA Invariance == Spec => []IInv
<1>1. Init => IInv
  BY Initially
<1>2. IInv /\ [Next]_vars => IInv'
  BY Steps
<1> QED
  BY <1>1, <1>2, PTL DEF Spec

\* Every table, snapshot and program counter holds values of its type, whatever
\* the number of workers.
THEOREM TypeCorrect == Spec => []TypeOK
<1>1. IInv => TypeOK
  <2> SUFFICES ASSUME IInv PROVE TypeOK
    OBVIOUS
  <2>1. today \in Latest + 1..MaxDate + 1
    BY ConstantsAssumption DEF IInv, MarketOK, Latest
  <2> QED
    BY <2>1 DEF IInv, MarketOK, TablesOK, JournaledEntries, ProcsOK, TypeOK
<1> QED
  BY <1>1, Invariance, PTL

\* The journal and the periods agree on the entry price of every trade, however
\* the handlers interleave: no UPDATE is left without its COALESCE.
THEOREM JournalEntriesAgree == Spec => []JournalEntriesMatch
<1>1. IInv => JournalEntriesMatch
  BY DEF IInv, TablesOK, JournaledEntries, JournalEntriesMatch
<1> QED
  BY <1>1, Invariance, PTL

\* A trade, once journaled, and an entry price, once there, survive every sync, snapshot,
\* close and schema repair of every worker, though each of them writes from rows and from
\* closes read earlier, which the provider may have corrected since.
THEOREM HistoryStaysFrozen == Spec => HistoryFrozen
<1>1. IInv /\ [Next]_vars => [JournalKept /\ EntriesKept]_<<periods, journal>>
  BY Steps DEF FrozenKept
<1> QED
  BY <1>1, Invariance, PTL DEF Spec, HistoryFrozen

-----------------------------------------------------------------------------
(* Exits: each update leaves a row with a whole exit.                        *)

\* The exit of a row is whole, one that is sold has an exit, and its days are there.
Sound(r) ==
    /\ WholeExit(r.exitDate, r.exit, r.exitReason)
    /\ r.reason # "none" => r.exit # Null
    /\ r.first > 0 /\ r.last > 0

SoundTable(ps) == \A i \in DOMAIN ps : Sound(ps[i])

\* The fields that Sound looks at are those of r.
SameExit(r, t) ==
    /\ t.exitDate = r.exitDate /\ t.exit = r.exit /\ t.exitReason = r.exitReason
    /\ t.reason = r.reason /\ t.first = r.first /\ t.last >= r.last

LEMMA SameExitSound ==
    ASSUME NEW r \in Period, NEW t \in Period, Sound(r), SameExit(r, t)
    PROVE  Sound(t)
BY ConstantsAssumption DEF Sound, SameExit, Period, Date

LEMMA NewPeriodSound ==
    ASSUME NEW d \in Dates, NEW sig \in Signals, NEW price \in Quote
    PROVE  Sound(NewPeriod(d, sig, price))
BY ConstantsAssumption DEF NewPeriod, Sound, WholeExit, Dates, Null

LEMMA EnsuredSound ==
    ASSUME NEW r \in Period, Sound(r), Latest \in 0..MaxDate
    PROVE  Sound(Repaired(EntryFrozen(Backfilled(r))))
<1>1. Backfilled(r) \in Period /\ SameExit(r, Backfilled(r))
  BY ConstantsAssumption DEF Backfilled, Period, SameExit, Date
<1>2. \A t \in Period : EntryFrozen(t) \in Period /\ SameExit(t, EntryFrozen(t))
  <2>1. \A t \in Period : t.admitted \in 1..Latest
           => Close(t.admitted, corrected) \in Quote
    BY CloseType, ConstantsAssumption DEF Dates
  <2>2. ASSUME NEW t \in Period, NEW quote \in Quote
        PROVE  [t EXCEPT !.entry = quote] \in Period /\ SameExit(t, [t EXCEPT !.entry = quote])
    BY ConstantsAssumption DEF Period, SameExit, Date
  <2>3. \A t \in Period : SameExit(t, t)
    BY ConstantsAssumption DEF Period, SameExit, Date
  <2> QED
    BY <2>1, <2>2, <2>3, Zenon DEF EntryFrozen
<1>3. ASSUME NEW t \in Period, Sound(t)
      PROVE  Sound(Repaired(t))
  <2> DEFINE u == Repaired(t)
  <2>1. CASE u = t
    BY <1>3, <2>1
  <2>2. CASE u # t
    <3>1. /\ u.exitDate = Null /\ u.exit = Null /\ u.exitReason = "none" /\ u.reason = "none"
          /\ u.first = t.first /\ u.last = t.last
      BY <2>2 DEF Repaired, Period
    <3> QED
      BY <1>3, <3>1 DEF Sound, WholeExit
  <2> QED
    BY <2>1, <2>2
<1> QED
  BY <1>1, <1>2, <1>3, SameExitSound

FalseExits == {FalseExit, FalseExitFrozen}

LEMMA FalseExitRows ==
    \A r \in FalseExits :
        /\ r.dir = "long" /\ r.conf = "mid" /\ r.obs = 1
        /\ r.status = "suppressed" /\ r.reason = "auto"
        /\ r.admitted = 1 /\ r.entry = 1 /\ r.ended = 1 /\ r.first = 1 /\ r.last = 1
        /\ IF r.exit = Null
           THEN r.exitDate = Null /\ r.exitReason = "none" /\ r.ret = NoReturn
           ELSE /\ r.exit = 1 /\ r.exitDate = 1 /\ r.exitReason = "auto"
                /\ r.ret = <<r.entry, r.exit>>
        /\ r \in Period /\ WholeExit(r.exitDate, r.exit, r.exitReason)
<1>1. /\ FalseExit \in Period
      /\ FalseExit.dir = "long" /\ FalseExit.conf = "mid" /\ FalseExit.obs = 1
      /\ FalseExit.status = "suppressed"
      /\ FalseExit.reason = "auto" /\ FalseExit.admitted = 1 /\ FalseExit.entry = 1
      /\ FalseExit.ended = 1 /\ FalseExit.first = 1 /\ FalseExit.last = 1
      /\ FalseExit.exitDate = Null /\ FalseExit.exit = Null /\ FalseExit.exitReason = "none"
      /\ FalseExit.ret = NoReturn
  BY LegacyTypes DEF FalseExit, NewPeriod, Direction, Confidence
<1> HIDE DEF FalseExit
<1>2. /\ FalseExitFrozen.dir = "long" /\ FalseExitFrozen.conf = "mid"
      /\ FalseExitFrozen.obs = 1 /\ FalseExitFrozen.status = "suppressed"
      /\ FalseExitFrozen.reason = "auto" /\ FalseExitFrozen.admitted = 1
      /\ FalseExitFrozen.entry = 1 /\ FalseExitFrozen.ended = 1
      /\ FalseExitFrozen.first = 1 /\ FalseExitFrozen.last = 1
      /\ FalseExitFrozen.exitDate = 1 /\ FalseExitFrozen.exit = 1
      /\ FalseExitFrozen.exitReason = "auto" /\ FalseExitFrozen.ret = <<1, 1>>
  BY <1>1 DEF FalseExitFrozen, Period
<1>3. WholeExit(Null, Null, "none") /\ WholeExit(1, 1, "auto") /\ 1 # Null
  BY DEF WholeExit, DateOf, Null, Live
<1> QED
  BY <1>1, <1>2, <1>3, LegacyTypes DEF FalseExits

\* The false exit of older code is gone with the first check of the schema.
LEMMA FalseExitRepaired ==
    ASSUME NEW r \in FalseExits, Latest \in 0..MaxDate
    PROVE  Sound(Repaired(EntryFrozen(Backfilled(r))))
<1>1. /\ r \in Period /\ r.dir = "long" /\ r.status = "suppressed"
      /\ r.reason = "auto" /\ r.admitted = 1 /\ r.entry = 1
      /\ r.ended = 1 /\ r.first = 1 /\ r.last = 1
  BY FalseExitRows
<1>2. Backfilled(r) = r /\ EntryFrozen(r) = r
  BY <1>1 DEF Backfilled, EntryFrozen, Null
<1> DEFINE u == Repaired(r)
<1>3. /\ u.exitDate = Null /\ u.exit = Null /\ u.exitReason = "none" /\ u.reason = "none"
      /\ u.first = 1 /\ u.last = 1
  BY <1>1 DEF Repaired, Coalesce, Null, Period
<1> QED
  BY <1>2, <1>3 DEF Sound, WholeExit

\* A position is sold at a live quote, or at the close of the day.
QuoteOfClose(quote, d, reason) ==
    IF reason = "manual" THEN quote = Live ELSE quote # Null /\ DateOf(quote) = d

LEMMA ClosedRowSound ==
    ASSUME NEW r \in Period, Sound(r), NEW d \in Date, NEW reason \in {"manual", "auto"},
           NEW quote, QuoteOfClose(quote, d, reason), Closable(r, d, reason)
    PROVE  Sound(ClosedRow(r, d, quote, reason))
<1> DEFINE t == ClosedRow(r, d, quote, reason)
<1>1. d > 0 /\ quote # Null
  BY ConstantsAssumption
     DEF Closable, WithinHorizon, Sound, Period, Date, Live, Null, QuoteOfClose
<1>2. /\ t.exitDate = Coalesce(r.exitDate, d) /\ t.exit = Coalesce(r.exit, quote)
      /\ t.exitReason = (IF r.exitReason = "none" THEN reason ELSE r.exitReason)
      /\ t.reason = reason /\ t.first = r.first /\ t.last = r.last
  BY DEF ClosedRow, Period
<1> HIDE DEF t
<1>3. WholeExit(t.exitDate, t.exit, t.exitReason) /\ t.exit # Null
  BY <1>1, <1>2 DEF Sound, WholeExit, Coalesce, Null, QuoteOfClose
<1> QED
  BY <1>2, <1>3 DEF Sound, t

LEMMA BumpedSound ==
    ASSUME NEW t \in Period, Sound(t), NEW d \in Dates
    PROVE  Sound(Bumped(t, d))
BY ConstantsAssumption DEF Bumped, Period, Sound, Dates

LEMMA ObservedSound ==
    ASSUME NEW r \in Period, Sound(r), NEW read \in Period, NEW d \in Dates,
           NEW sig \in Signals, NEW price \in Quote
    PROVE  Sound(Observed(r, read, d, sig, price))
<1> DEFINE t == Observed(r, read, d, sig, price)
<1>1. /\ t.exitDate = r.exitDate /\ t.exit = r.exit /\ t.exitReason = r.exitReason
      /\ t.reason = r.reason /\ t.first = r.first /\ t.last \in {r.last, d}
  BY DEF Observed, Bumped, Period
<1> QED
  BY <1>1, ConstantsAssumption DEF Sound, Dates

\* The exit a snapshot computes is whole, whichever of its cases it is.
LEMMA ExitForWhole ==
    ASSUME NEW read \in Period, Sound(read), NEW d \in Dates, NEW fixed
    PROVE  WholeExit(ExitFor(read, d, fixed)[1], ExitFor(read, d, fixed)[2], ExitFor(read, d, fixed)[3])
<1>1. \A e \in 1..d : Close(e, fixed) \notin {Null, Live} /\ DateOf(Close(e, fixed)) = e
  BY CloseType, ConstantsAssumption DEF Dates
<1> QED
  BY <1>1, ConstantsAssumption
     DEF ExitFor, HorizonDate, Period, Dates, Date, Coalesce, Null, Sound, WholeExit

LEMMA SnapshottedSound ==
    ASSUME NEW r \in Period, Sound(r), NEW read \in Period, Sound(read), NEW d \in Dates,
           NEW fixed
    PROVE  Sound(Snapshotted(r, read, d, fixed))
<1> DEFINE exit == ExitFor(read, d, fixed)
           t == Snapshotted(r, read, d, fixed)
<1>1. WholeExit(exit[1], exit[2], exit[3])
  BY ExitForWhole
<1> HIDE DEF exit
<1>2. /\ t.exitDate = Coalesce(r.exitDate, exit[1]) /\ t.exit = Coalesce(r.exit, exit[2])
      /\ t.exitReason = (IF r.exitReason = "none" THEN exit[3] ELSE r.exitReason)
      /\ t.reason = r.reason /\ t.first = r.first /\ t.last = r.last
  BY DEF Snapshotted, Period, exit
<1> HIDE DEF t
<1>3. WholeExit(t.exitDate, t.exit, t.exitReason) /\ (r.exit # Null => t.exit # Null)
  BY <1>1, <1>2 DEF Sound, WholeExit, Coalesce, Null
<1> QED
  BY <1>2, <1>3 DEF Sound, t

\* The same of the whole table.
LEMMA RowReplaced ==
    ASSUME NEW ps, SoundTable(ps), NEW i, NEW row, i \in DOMAIN ps => Sound(row)
    PROVE  SoundTable([ps EXCEPT ![i] = row])
BY DEF SoundTable

LEMMA EnsuredSoundTable ==
    ASSUME NEW ps \in Seq(Period), SoundTable(ps), Latest \in 0..MaxDate
    PROVE  SoundTable(Ensured(ps))
<1>1. \A i \in DOMAIN ps : ps[i] \in Period
  OBVIOUS
<1> QED
  BY <1>1, EnsuredSound DEF SoundTable, Ensured

LEMMA ClosedSoundTable ==
    ASSUME NEW ps \in Seq(Period), SoundTable(ps), NEW d \in Date,
           NEW reason \in {"manual", "auto"},
           NEW quote, QuoteOfClose(quote, d, reason)
    PROVE  SoundTable(ClosedPositions(ps, d, quote, reason))
<1>1. \A i \in DOMAIN ps : ps[i] \in Period
  OBVIOUS
<1>2. ASSUME NEW r \in Period, Sound(r)
      PROVE  Closable(r, d, reason) => Sound(ClosedRow(r, d, quote, reason))
  BY <1>2, ClosedRowSound
<1> QED
  BY <1>1, <1>2 DEF SoundTable, ClosedPositions

LEMMA SnapshotSoundTable ==
    ASSUME NEW ps \in Seq(Period), SoundTable(ps), NEW read \in Seq(Period),
           SoundTable(read), NEW d \in Dates, NEW fixed
    PROVE  SoundTable(SnapshotResult(ps, read, d, fixed))
<1>1. (\A i \in DOMAIN ps : ps[i] \in Period) /\ \A i \in DOMAIN read : read[i] \in Period
  OBVIOUS
<1> DEFINE qs == SnapshotResult(ps, read, d, fixed)
<1>2. ASSUME NEW i \in DOMAIN ps PROVE Sound(qs[i])
  <2>1. qs[i] = ps[i] \/ (i \in DOMAIN read /\ qs[i] = Snapshotted(ps[i], read[i], d, fixed))
    BY DEF SnapshotResult
  <2> QED
    BY <1>1, <2>1, SnapshottedSound DEF SoundTable
<1>3. DOMAIN qs = DOMAIN ps
  BY DEF SnapshotResult
<1> HIDE DEF qs
<1> QED
  BY <1>2, <1>3 DEF SoundTable, qs

LEMMA FinishedSound ==
    ASSUME NEW ps \in Seq(Period), SoundTable(ps), NEW i, NEW d \in Dates
    PROVE  SoundTable(Finished(ps, i)) /\ SoundTable(FinishedOn(ps, i, d))
<1> DEFINE row  == [ps[i] EXCEPT !.status = "closed"]
           row2 == [ps[i] EXCEPT !.status = "closed", !.ended = d]
<1>1. i \in DOMAIN ps => Sound(row) /\ Sound(row2)
  <2> SUFFICES ASSUME i \in DOMAIN ps PROVE Sound(row) /\ Sound(row2)
    OBVIOUS
  <2>1. ps[i] \in Period /\ Sound(ps[i])
    BY DEF SoundTable
  <2> QED
    BY <2>1 DEF Sound, Period
<1>2. Finished(ps, i) = [ps EXCEPT ![i] = row] /\ FinishedOn(ps, i, d) = [ps EXCEPT ![i] = row2]
  BY DEF Finished, FinishedOn
<1> HIDE DEF row, row2
<1>3. SoundTable([ps EXCEPT ![i] = row])
  BY <1>1, RowReplaced
<1>4. SoundTable([ps EXCEPT ![i] = row2])
  BY <1>1, RowReplaced
<1> QED
  BY <1>2, <1>3, <1>4

LEMMA ContinuedSound ==
    ASSUME NEW ps \in Seq(Period), SoundTable(ps), NEW act \in Seq(Period),
           NEW sup \in Seq(Period), NEW a \in DOMAIN act \cup {0}, NEW s \in DOMAIN sup \cup {0},
           NEW d \in Dates, NEW sig \in Signals, NEW price \in Quote
    PROVE  SoundTable(Continued(ps, act, sup, a, s, d, sig, price))
<1> DEFINE released == IF s # 0 THEN Finished(ps, s) ELSE ps
           flipped == IF a # 0 THEN FinishedOn(released, a, d) ELSE released
           new == NewPeriod(d, sig, price)
<1>1. released \in Seq(Period) /\ SoundTable(released)
  BY FinishedTable, FinishedSound DEF Succeeds
<1> HIDE DEF released
<1>2. flipped \in Seq(Period) /\ SoundTable(flipped)
  BY <1>1, FinishedTable, FinishedSound DEF Succeeds
<1> HIDE DEF flipped
<1>3. SoundTable(Append(flipped, new))
  <2>1. Sound(new)
    BY NewPeriodSound
  <2> HIDE DEF new
  <2> QED
    BY <1>2, <2>1 DEF SoundTable
<1>4. SoundTable([ps EXCEPT ![s] = Bumped(@, d)])
  <2> DEFINE row == Bumped(ps[s], d)
  <2>1. s \in DOMAIN ps => Sound(row)
    BY BumpedSound DEF SoundTable
  <2> HIDE DEF row
  <2>2. SoundTable([ps EXCEPT ![s] = row])
    BY <2>1, RowReplaced
  <2> QED
    BY <2>2 DEF row
<1>5. a # 0 => SoundTable([released EXCEPT ![a] = Observed(@, act[a], d, sig, price)])
  <2> SUFFICES ASSUME a # 0
               PROVE  SoundTable([released EXCEPT ![a] = Observed(@, act[a], d, sig, price)])
    OBVIOUS
  <2> DEFINE row == Observed(released[a], act[a], d, sig, price)
  <2>1. act[a] \in Period /\ (a \in DOMAIN released => released[a] \in Period)
    BY <1>1
  <2>2. a \in DOMAIN released => Sound(row)
    BY <1>1, <2>1, ObservedSound DEF SoundTable
  <2> HIDE DEF row
  <2>3. SoundTable([released EXCEPT ![a] = row])
    BY <1>1, <2>2, RowReplaced
  <2> QED
    BY <2>3 DEF row
<1> QED
  BY <1>3, <1>4, <1>5 DEF Continued, released, flipped, new

LEMMA SyncSound ==
    ASSUME NEW ps \in Seq(Period), SoundTable(ps), NEW act \in Seq(Period),
           NEW sup \in Seq(Period), NEW d \in Dates, NEW sig \in Signals,
           NEW price \in Quote, NEW qs \in SyncResults(ps, act, sup, d, sig, price)
    PROVE  SoundTable(qs)
<1>1. PICK a \in ReadId(act, "active"), s \in ReadId(sup, "suppressed") :
         qs = IF sig = "none" THEN Ended(ps, act, a, s, d)
                              ELSE Continued(ps, act, sup, a, s, d, sig, price)
  BY DEF SyncResults
<1>2. a \in DOMAIN act \cup {0} /\ s \in DOMAIN sup \cup {0}
  BY DEF ReadId, WithStatus
<1>3. SoundTable(Ended(ps, act, a, s, d))
  <2> DEFINE ended == IF a # 0 /\ d > act[a].last THEN FinishedOn(ps, a, d) ELSE ps
  <2>1. ended \in Seq(Period) /\ SoundTable(ended)
    BY FinishedTable, FinishedSound DEF Succeeds
  <2> HIDE DEF ended
  <2>2. SoundTable(Finished(ended, s))
    BY <2>1, FinishedSound
  <2> QED
    BY <2>1, <2>2 DEF Ended, ended
<1> QED
  BY <1>1, <1>2, <1>3, ContinuedSound

-----------------------------------------------------------------------------
(* Exits are whole: what a handler reads was sound, and the false exit that  *)
(* older code may have left is repaired before anyone reads it.              *)

PeriodsSound ==
    \/ SoundTable(periods)
    \/ /\ \E r \in FalseExits : periods = <<r>>
       /\ \A w \in Workers : proc[w].at \in {"idle", "ensure"}

SeenSound(q) == SoundTable(q.seenActive) /\ SoundTable(q.seenSuppressed)

JournalWhole ==
    \A i \in DOMAIN journal : WholeExit(journal[i].closed, journal[i].exit, journal[i].reason)

ExitsOK ==
    /\ PeriodsSound
    /\ \A w \in Workers : SeenSound(proc[w])
    /\ JournalWhole

LEMMA IdleSound == SeenSound(Idle) /\ Idle.at = "idle"
BY DEF SeenSound, Idle, SoundTable

\* Whoever has passed its check of the schema finds a sound table.
LEMMA SoundAfterEnsure ==
    ASSUME ExitsOK, NEW w \in Workers, proc[w].at \notin {"idle", "ensure"}
    PROVE  SoundTable(periods)
BY DEF ExitsOK, PeriodsSound

LEMMA AppendedWhole ==
    ASSUME JournalWhole, NEW ps, SoundTable(ps), journal' = Appended(ps)
    PROVE  JournalWhole'
<1> DEFINE Done == {k \in DOMAIN ps : Journalable(ps[k])}
<1>1. /\ DOMAIN journal' = DOMAIN journal \cup Done
      /\ \A i \in DOMAIN journal' :
            journal'[i] = IF i \in DOMAIN journal THEN journal[i] ELSE TradeOf(ps[i])
  BY DEF Appended
<1>2. ASSUME NEW i \in DOMAIN journal'
      PROVE  WholeExit(journal'[i].closed, journal'[i].exit, journal'[i].reason)
  <2>1. CASE i \in DOMAIN journal
    BY <1>1, <2>1 DEF JournalWhole
  <2>2. CASE i \notin DOMAIN journal
    <3>1. Sound(ps[i]) /\ journal'[i] = TradeOf(ps[i])
      BY <1>1, <2>2 DEF SoundTable
    <3> QED
      BY <3>1 DEF TradeOf, Sound
  <2> QED
    BY <2>1, <2>2
<1> QED
  BY <1>2 DEF JournalWhole

LEMMA OneReader ==
    ASSUME ProcsOK, ExitsOK, NEW w \in Workers, NEW q, SeenSound(q),
           proc' = [proc EXCEPT ![w] = q]
    PROVE  \A v \in Workers : SeenSound(proc[v])'
BY DEF ProcsOK, ExitsOK, SeenSound

\* A step that leaves the tables alone and goes on with q.
LEMMA MoveSound ==
    ASSUME ProcsOK, ExitsOK, NEW w \in Workers, NEW q, SeenSound(q),
           proc' = [proc EXCEPT ![w] = q], UNCHANGED <<periods, journal>>,
           SoundTable(periods) \/ q.at \in {"idle", "ensure"}
    PROVE  ExitsOK'
<1>1. \A v \in Workers : SeenSound(proc[v])'
  BY OneReader
<1>2. PeriodsSound'
  <2>1. CASE SoundTable(periods)
    BY <2>1 DEF PeriodsSound, SoundTable
  <2>2. CASE ~SoundTable(periods)
    <3>1. /\ \E r \in FalseExits : periods' = <<r>>
          /\ q.at \in {"idle", "ensure"}
          /\ \A v \in Workers : proc[v].at \in {"idle", "ensure"}
      BY <2>2 DEF ExitsOK, PeriodsSound
    <3>2. \A v \in Workers : proc'[v].at \in {"idle", "ensure"}
      BY <3>1 DEF ProcsOK
    <3> QED
      BY <3>1, <3>2 DEF PeriodsSound
  <2> QED
    BY <2>1, <2>2
<1>3. JournalWhole'
  BY DEF ExitsOK, JournalWhole
<1> QED
  BY <1>1, <1>2, <1>3 DEF ExitsOK

\* A commit of sound rows, going on with q.
LEMMA CommitSound ==
    ASSUME ProcsOK, ExitsOK, NEW w \in Workers, NEW ps, SoundTable(ps), NEW q, SeenSound(q),
           CommitPeriods(w, ps, q)
    PROVE  ExitsOK'
<1>1. CASE /\ periods' = ps /\ journal' = Appended(ps)
           /\ proc' = [proc EXCEPT ![w] = q]
  <2>1. \A v \in Workers : SeenSound(proc[v])'
    BY <1>1, OneReader
  <2>2. JournalWhole'
    BY <1>1, AppendedWhole DEF ExitsOK
  <2>3. PeriodsSound'
    BY <1>1 DEF PeriodsSound, SoundTable
  <2> QED
    BY <2>1, <2>2, <2>3 DEF ExitsOK
<1>2. CASE proc' = [proc EXCEPT ![w] = Idle] /\ UNCHANGED <<periods, journal>>
  BY <1>2, IdleSound, MoveSound
<1> QED
  BY <1>1, <1>2 DEF CommitPeriods

LEMMA NextPhaseSound ==
    ASSUME IInv, ExitsOK, NEW w \in Workers
    PROVE  SeenSound(NextPhase(w)) /\ NextPhase(w).at \in {"idle", "ensure"}
<1>1. CASE Tail1(w) = <<>>
  BY <1>1, IdleSound DEF NextPhase
<1>2. CASE Tail1(w) # <<>>
  <2>1. proc[w] \in Proc
    BY DEF IInv, ProcsOK
  <2>2. /\ NextPhase(w).seenActive = <<>> /\ NextPhase(w).seenSuppressed = <<>>
        /\ NextPhase(w).at = "ensure"
    BY <1>2, <2>1 DEF NextPhase, Proc
  <2> QED
    BY <2>2 DEF SeenSound, SoundTable
<1> QED
  BY <1>1, <1>2

LEMMA EnsureKeepsExits ==
    ASSUME IInv, ExitsOK, NEW w \in Workers, EnsureSchema(w)
    PROVE  ExitsOK'
<1> DEFINE q == [proc[w] EXCEPT !.at = IF Handler(w) \in {"autoclose", "manual"}
                                       THEN "write" ELSE "active"]
<1>1. proc[w] \in Proc /\ Latest \in 0..MaxDate /\ periods \in Seq(Period) /\ ProcsOK
  BY AtFacts DEF EnsureSchema, IInv, TablesOK
<1>2. SeenSound(q)
  BY <1>1 DEF ExitsOK, SeenSound, Proc
<1>3. SoundTable(Ensured(periods))
  <2>1. CASE SoundTable(periods)
    BY <1>1, <2>1, EnsuredSoundTable
  <2>2. ASSUME NEW r \in FalseExits, periods = <<r>> PROVE SoundTable(Ensured(periods))
    <3>1. /\ DOMAIN Ensured(periods) = {1}
          /\ Ensured(periods)[1] = Repaired(EntryFrozen(Backfilled(r)))
      BY <2>2 DEF Ensured
    <3> QED
      BY <1>1, <3>1, FalseExitRepaired DEF SoundTable
  <2> QED
    BY <2>1, <2>2 DEF ExitsOK, PeriodsSound
<1>4. CommitPeriods(w, Ensured(periods), q)
  BY DEF EnsureSchema
<1> HIDE DEF q
<1> QED
  BY <1>1, <1>2, <1>3, <1>4, CommitSound

LEMMA CloseKeepsExits ==
    ASSUME IInv, ExitsOK, NEW w \in Workers, ClosePosition(w)
    PROVE  ExitsOK'
<1> DEFINE reason == IF Handler(w) = "manual" THEN "manual" ELSE "auto"
           quote  == IF Handler(w) = "manual" THEN Live
                     ELSE Close(proc[w].date, proc[w].fixed)
           closed == ClosedPositions(periods, proc[w].date, quote, reason)
<1>1. proc[w] \in Proc /\ proc[w].at = "write" /\ periods \in Seq(Period) /\ ProcsOK
  BY AtFacts DEF ClosePosition, IInv, TablesOK
<1>2. /\ proc[w].date \in Date /\ reason \in {"manual", "auto"}
      /\ QuoteOfClose(quote, proc[w].date, reason)
  BY <1>1, AtFacts, CloseType DEF Proc, QuoteOfClose, ClosePosition
<1>3. SoundTable(periods)
  BY <1>1, SoundAfterEnsure
<1>4. \/ proc' = [proc EXCEPT ![w] = NextPhase(w)] /\ UNCHANGED <<periods, journal>>
      \/ CommitPeriods(w, closed, NextPhase(w))
  BY DEF ClosePosition
<1> HIDE DEF reason, quote
<1>5. SoundTable(closed)
  BY <1>1, <1>2, <1>3, ClosedSoundTable
<1> HIDE DEF closed
<1> QED
  BY <1>1, <1>3, <1>4, <1>5, NextPhaseSound, CommitSound, MoveSound

LEMMA ReadKeepsExits ==
    ASSUME IInv, ExitsOK, NEW w \in Workers, ReadActive(w) \/ ReadSuppressed(w)
    PROVE  ExitsOK'
<1> DEFINE qa == [proc[w] EXCEPT !.seenActive = periods,
                                 !.at = IF Handler(w) = "sync" THEN "suppressed" ELSE "write"]
           qs == [proc[w] EXCEPT !.seenSuppressed = periods, !.at = "write"]
<1>1. proc[w] \in Proc /\ proc[w].at \in {"active", "suppressed"} /\ ProcsOK
  BY AtFacts DEF ReadActive, ReadSuppressed, IInv
<1>2. SoundTable(periods)
  BY <1>1, SoundAfterEnsure
<1>3. SeenSound(qa) /\ SeenSound(qs)
  BY <1>1, <1>2 DEF ExitsOK, SeenSound, Proc
<1>4. \/ proc' = [proc EXCEPT ![w] = qa]
      \/ proc' = [proc EXCEPT ![w] = qs]
  BY <1>1 DEF ReadActive, ReadSuppressed, IInv, ProcsOK, Proc
<1>5. UNCHANGED <<periods, journal>>
  BY DEF ReadActive, ReadSuppressed
<1> HIDE DEF qa, qs
<1>6. CASE proc' = [proc EXCEPT ![w] = qa]
  BY <1>1, <1>2, <1>3, <1>5, <1>6, MoveSound
<1>7. CASE proc' = [proc EXCEPT ![w] = qs]
  BY <1>1, <1>2, <1>3, <1>5, <1>7, MoveSound
<1> QED
  BY <1>4, <1>6, <1>7

LEMMA SyncKeepsExits ==
    ASSUME IInv, ExitsOK, NEW w \in Workers, WriteSync(w)
    PROVE  ExitsOK'
<1>1. /\ proc[w] \in Proc /\ proc[w].at = "write" /\ proc[w].date \in Dates
      /\ proc[w].date \in 1..Latest /\ periods \in Seq(Period) /\ ProcsOK
  BY AtFacts DEF WriteSync, IInv, TablesOK
<1> DEFINE sig == market[proc[w].date].signal
<1>2. PICK ps \in SyncResults(periods, proc[w].seenActive, proc[w].seenSuppressed,
                              proc[w].date, sig, CurrentPrice(w)) :
         CommitPeriods(w, ps, NextPhase(w))
  BY DEF WriteSync
<1>3. sig \in Signals
  BY <1>1, SignalRead
<1>4. /\ proc[w].seenActive \in Seq(Period) /\ proc[w].seenSuppressed \in Seq(Period)
      /\ CurrentPrice(w) \in Quote
  BY <1>1, CloseType, NullTypes DEF Proc, CurrentPrice
<1>5. SoundTable(periods)
  BY <1>1, SoundAfterEnsure
<1> HIDE DEF sig
<1>6. SoundTable(ps)
  BY <1>1, <1>2, <1>3, <1>4, <1>5, SyncSound
<1> QED
  BY <1>1, <1>2, <1>6, NextPhaseSound, CommitSound

LEMMA SnapshotKeepsExits ==
    ASSUME IInv, ExitsOK, NEW w \in Workers, WriteSnapshot(w)
    PROVE  ExitsOK'
<1>1. /\ proc[w] \in Proc /\ proc[w].at = "write" /\ proc[w].date \in Dates
      /\ periods \in Seq(Period) /\ ProcsOK
  BY AtFacts DEF WriteSnapshot, IInv, TablesOK
<1>2. SoundTable(periods) /\ SoundTable(proc[w].seenActive)
  BY <1>1, SoundAfterEnsure DEF ExitsOK, SeenSound
<1> DEFINE ps == SnapshotResult(periods, proc[w].seenActive, proc[w].date,
                                        proc[w].fixed)
<1>3. SoundTable(ps)
  BY <1>1, <1>2, SnapshotSoundTable DEF Proc
<1>4. CommitPeriods(w, ps, NextPhase(w))
  BY DEF WriteSnapshot
<1> HIDE DEF ps
<1> QED
  BY <1>1, <1>3, <1>4, NextPhaseSound, CommitSound

LEMMA ExitsInitially == Init => ExitsOK
<1> SUFFICES ASSUME Init PROVE ExitsOK
  OBVIOUS
<1>1. JournalWhole /\ \A w \in Workers : SeenSound(proc[w]) /\ proc[w].at = "idle"
  BY IdleSound DEF Init, JournalWhole
<1>2. ASSUME NEW conf \in {"none", "low", "mid"} PROVE Sound(LegacyPeriod(conf))
  BY DEF LegacyPeriod, NewPeriod, Sound, WholeExit
<1>3. ASSUME NEW conf \in {"none", "low", "mid"} PROVE SoundTable(<<LegacyPeriod(conf)>>)
  <2> HIDE DEF LegacyPeriod
  <2> QED
    BY <1>2 DEF SoundTable
<1>4. periods = <<>> \/ (\E r \in FalseExits : periods = <<r>>)
      \/ \E conf \in {"none", "low", "mid"} : periods = <<LegacyPeriod(conf)>>
  BY DEF Init, FalseExits
<1>5. PeriodsSound
  BY <1>1, <1>3, <1>4 DEF PeriodsSound, SoundTable
<1> QED
  BY <1>1, <1>5 DEF ExitsOK

LEMMA ExitSteps == IInv /\ ExitsOK /\ [Next]_vars => ExitsOK'
<1> SUFFICES ASSUME IInv, ExitsOK, [Next]_vars PROVE ExitsOK'
  OBVIOUS
<1>1. CASE NewDay \/ ActivatePrices \/ UNCHANGED vars
  BY <1>1 DEF NewDay, ActivatePrices, vars, ExitsOK, PeriodsSound, SeenSound, JournalWhole
<1>2. ASSUME NEW w \in Workers, NEW k \in Kinds, Begin(w, k) PROVE ExitsOK'
  <2> DEFINE q == [Idle EXCEPT !.kind = k, !.at = "ensure", !.todo = Program(k, Latest),
                               !.date = RunDate(k), !.fixed = corrected]
  <2>1. SeenSound(q) /\ q.at = "ensure"
    BY DEF SeenSound, Idle, SoundTable
  <2>2. proc' = [proc EXCEPT ![w] = q] /\ UNCHANGED <<periods, journal>>
    BY <1>2 DEF Begin
  <2> HIDE DEF q
  <2> QED
    BY <2>1, <2>2, MoveSound DEF IInv
<1>3. ASSUME NEW w \in Workers, Step(w) PROVE ExitsOK'
  BY <1>3, EnsureKeepsExits, CloseKeepsExits, ReadKeepsExits, SyncKeepsExits,
     SnapshotKeepsExits DEF Step
<1>4. ASSUME NEW w \in Workers, Crash(w) PROVE ExitsOK'
  BY <1>4, IdleSound, MoveSound DEF Crash, IInv
<1> QED
  BY <1>1, <1>2, <1>3, <1>4 DEF Next

\* However many handlers write what they computed from a row that has changed since, the
\* exit of a position is one exit: its date, price and reason come from the same close, the
\* same snapshot, in the table and in the journal.
THEOREM ExitsAreWhole == Spec => []ExitIsWhole
<1>1. Init => ExitsOK
  BY ExitsInitially
<1>2. IInv /\ ExitsOK /\ [Next]_vars => ExitsOK'
  BY ExitSteps
<1>3. ExitsOK => ExitIsWhole
  <2> SUFFICES ASSUME ExitsOK PROVE ExitIsWhole
    OBVIOUS
  <2>1. ASSUME NEW i \in DOMAIN periods
        PROVE  WholeExit(periods[i].exitDate, periods[i].exit, periods[i].exitReason)
    <3>1. CASE SoundTable(periods)
      BY <3>1 DEF SoundTable, Sound
    <3>2. ASSUME NEW r \in FalseExits, periods = <<r>>
          PROVE  WholeExit(periods[i].exitDate, periods[i].exit, periods[i].exitReason)
      <4>1. WholeExit(r.exitDate, r.exit, r.exitReason)
        BY FalseExitRows
      <4>2. periods[i] = r
        BY <3>2
      <4> QED
        BY <4>1, <4>2
    <3> QED
      BY <3>1, <3>2 DEF ExitsOK, PeriodsSound
  <2> QED
    BY <2>1 DEF ExitsOK, JournalWhole, ExitIsWhole
<1> QED
  BY <1>1, <1>2, <1>3, Invariance, PTL DEF Spec
=============================================================================
