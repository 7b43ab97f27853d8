------------------------- MODULE PublicationsProofs -------------------------
(***************************************************************************)
(* Proofs about Publications, for any signals, prices, limits and days.    *)
(***************************************************************************)
EXTENDS Publications, TLAPS

L == proc["loop"]

NotePlaces == {"saveCard", "saveReply"}
UpdatePlaces == {"echo", "keep"}
SentPlaces == {"sendCard", "record"}
HeldPlaces == {"send", "refresh"} \cup SentPlaces
PostPlaces == UpdatePlaces \cup HeldPlaces \cup {"favorite", "insert", "claim"}

\* What a process has in hand at each place.
ProcOK(w) ==
    /\ w = "backfill" => proc[w].at \in {"idle", "card", "saveCard", "replies", "reply", "saveReply"}
    /\ w = "backfill" /\ proc[w].at # "idle" => proc[w].mode = "backfill"
    /\ proc[w].at # "idle" => proc[w].day \in Days
    /\ proc[w].at \notin {"keep", "record"} => proc[w].delivered = 0
    /\ proc[w].at \in NotePlaces => proc[w].post \in Note
    /\ proc[w].at \in PostPlaces => proc[w].post \in Post
    /\ proc[w].at \in {"reply", "saveReply"} => proc[w].todo \subseteq Note
    /\ proc[w].at \in {"tell", "echo", "keep"} => proc[w].todo \subseteq Post

ProcsOK == \A w \in Workers : ProcOK(w)

\* The posts of a signal say this; at this price; that it has ended.
Tells(posts, kind, d) ==
    \E i \in DOMAIN posts : posts[i].kind = kind /\ posts[i].date = d

TellsAt(posts, kind, d, p) ==
    \E i \in DOMAIN posts : posts[i].kind = kind /\ posts[i].date = d /\ posts[i].price = p

TellsEnd(posts) == \E i \in DOMAIN posts : posts[i].kind = "ended"

\* What is on its way to Threads alone is about a published row, and the channel was told.
NoteOK(note) ==
    /\ Published(note.signal)
    /\ Tells(channel[note.signal], note.kind, note.date)

MirrorOK(w) ==
    /\ proc[w].at = "saveCard" => Published(proc[w].post.signal)
    /\ proc[w].at = "saveReply" =>
          /\ Published(proc[w].post.signal)
          /\ proc[w].post.kind \in {"live", "ended"}
          /\ [kind |-> proc[w].post.kind, date |-> proc[w].post.date]
                \in threads[proc[w].post.signal]
    /\ proc[w].at \in {"reply", "saveReply"} =>
          \A note \in proc[w].todo : NoteOK(note) /\ note.kind \in {"live", "ended"}

NotesOK == \A w \in Workers : MirrorOK(w)

\* What a run of updates has left to tell is still due, one message of a signal, and it is
\* not too late to say that the signal is live.
UpdatesOK ==
    /\ L.at \in {"tell", "echo", "keep"} =>
          /\ \A m \in L.todo :
                /\ Due(m.signal, m.date)
                /\ m.kind \in {"live", "ended"}
                /\ m.kind = "live" => ~TellsEnd(channel[m.signal])
                /\ m.kind = "ended" => period[m.signal] = "over"
          /\ \A m, n \in L.todo : m.signal = n.signal => m = n
    /\ L.at \in UpdatePlaces =>
          /\ Due(L.post.signal, L.post.date)
          /\ L.post.kind \in {"live", "ended"}
          /\ TellsAt(channel[L.post.signal], L.post.kind, L.post.date, L.post.price)
          /\ \A m \in L.todo : m.signal # L.post.signal
    /\ L.at = "keep" /\ L.delivered # 0 =>
          [kind |-> L.post.kind, date |-> L.post.date] \in threads[L.post.signal]

\* The row a run is publishing is claimed and says what the run posts.
HeldOK ==
    /\ L.at \in HeldPlaces => rows[L.post.signal].status = "publishing"
    /\ L.at \in HeldPlaces \ {"refresh"} =>
          /\ L.post.kind = "signal"
          /\ L.post.date = rows[L.post.signal].date
          /\ L.post.price = rows[L.post.signal].entry
    /\ L.at \in SentPlaces =>
          /\ L.message \in DOMAIN channel[L.post.signal]
          /\ channel[L.post.signal][L.message] = MessageOf(L.post)

\* Only a crash leaves a claimed row behind, or a favorite without a row.
ClaimsOK ==
    /\ \A s \in Signals :
          rows[s].status = "publishing" =>
              s \in interrupted \/ (L.at \in HeldPlaces /\ L.post.signal = s)
    /\ L.at \in {"favorite", "insert"} =>
          rows[L.post.signal].status # "draft" /\ period[L.post.signal] # "unseen"
    /\ L.at = "insert" => favorites[L.post.signal].status # "absent"

\* A favorite is open as long as its publication, and opened at its price.
FavoritesOK ==
    \A s \in Signals :
        /\ rows[s].status \in {"draft", "publishing", "active"} => favorites[s].status = "active"
        /\ rows[s].status = "closed" <=> favorites[s].status = "closed"
        /\ Exists(s) /\ s \notin interrupted => favorites[s].entry = rows[s].entry
        /\ ~Exists(s) /\ s \notin interrupted /\ favorites[s].status # "absent" =>
              L.at = "insert" /\ L.post.signal = s /\ favorites[s].entry = L.post.price

\* Two rows of one data date, or a row and the candidate of its date: a crash cut one short.
DatesOK ==
    /\ \A s, t \in Signals :
          /\ s # t /\ Exists(s) /\ Exists(t) /\ rows[s].date = rows[t].date
          => s \in interrupted \/ t \in interrupted
    /\ L.at \in {"favorite", "insert"} /\ ~Exists(L.post.signal) =>
          \A t \in Signals : Exists(t) /\ rows[t].date = L.post.date => t \in interrupted

\* What a row says was told, and the end of a signal is told when it is over.
RowOK(s) ==
    /\ rows[s].status \in {"draft", "publishing"} => rows[s].update = 0 /\ rows[s].mirrored = 0
    /\ Published(s) =>
          /\ rows[s].message \in DOMAIN channel[s]
          /\ channel[s][rows[s].message] =
                [kind |-> "signal", date |-> rows[s].date, price |-> rows[s].entry]
    /\ rows[s].status = "active" /\ rows[s].update # 0 => Tells(channel[s], "live", rows[s].update)
    /\ rows[s].status = "closed" => rows[s].update # 0 /\ Tells(channel[s], "ended", rows[s].update)
    /\ favorites[s].status = "closed" => \E d \in Days : TellsAt(channel[s], "ended", d, favorites[s].exit)
    /\ TellsEnd(channel[s]) => period[s] = "over"
    /\ Exists(s) => period[s] # "unseen"

RowsOK == \A s \in Signals : RowOK(s)

\* The inductive invariant.
IInv ==
    /\ TypeOK /\ ProcsOK /\ NotesOK /\ UpdatesOK /\ HeldOK
    /\ ClaimsOK /\ FavoritesOK /\ DatesOK /\ RowsOK

-----------------------------------------------------------------------------
(* Types *)

LEMMA RowType ==
    ASSUME TypeOK, NEW s \in Signals, rows[s].status # "absent"
    PROVE  rows[s] \in Row
BY DEF TypeOK, NoRow

LEMMA FavoriteType ==
    ASSUME TypeOK, NEW s \in Signals
    PROVE  /\ favorites[s].status \in {"absent", "active", "closed"}
           /\ favorites[s].status = "active" => favorites[s] \in [status: {"active"}, entry: Quotes]
           /\ favorites[s].status = "absent" => favorites[s] = NoFavorite
BY DEF TypeOK, Favorite, NoFavorite

LEMMA IdleType == Idle \in Proc /\ Idle.at = "idle" /\ Idle.post = NoPost /\ Idle.delivered = 0
BY PublicationsAssumption DEF Idle, Proc

LEMMA OneSteps ==
    ASSUME proc \in [Workers -> Proc], NEW w \in Workers, NEW p \in Proc,
           proc' = [proc EXCEPT ![w] = p]
    PROVE  /\ proc' \in [Workers -> Proc] /\ proc'[w] = p
           /\ \A v \in Workers : v # w => proc'[v] = proc[v]
OBVIOUS

-----------------------------------------------------------------------------
(* What a step leaves alone *)

ChannelGrows ==
    \A s \in Signals :
        /\ DOMAIN channel[s] \subseteq DOMAIN channel'[s]
        /\ \A i \in DOMAIN channel[s] : channel'[s][i] = channel[s][i]

ThreadsGrow == \A s \in Signals : threads[s] \subseteq threads'[s]

StaysPublished == \A s \in Signals : Published(s) => Published(s)'

LEMMA ProcsKept ==
    ASSUME ProcsOK, \A v \in Workers : proc'[v] = proc[v] \/ ProcOK(v)'
    PROVE  ProcsOK'
<1> SUFFICES ASSUME NEW v \in Workers PROVE ProcOK(v)'
  BY DEF ProcsOK
<1>1. CASE proc'[v] = proc[v]
  <2>1. ProcOK(v)
    BY DEF ProcsOK
  <2> QED
    BY <1>1, <2>1 DEF ProcOK
<1> QED
  BY <1>1

LEMMA NotesKept ==
    ASSUME ProcsOK, NotesOK, ChannelGrows, ThreadsGrow, StaysPublished,
           \A v \in Workers : proc'[v] = proc[v] \/ MirrorOK(v)'
    PROVE  NotesOK'
<1> SUFFICES ASSUME NEW v \in Workers PROVE MirrorOK(v)'
  BY DEF NotesOK
<1>1. CASE proc'[v] = proc[v]
  <2>1. MirrorOK(v) /\ ProcOK(v)
    BY DEF NotesOK, ProcsOK
  <2>2. \A note \in Note : NoteOK(note) => NoteOK(note)'
    BY DEF NoteOK, ChannelGrows, StaysPublished, Tells, Note
  <2>3. proc[v].at \in {"reply", "saveReply"} =>
            \A note \in proc[v].todo : NoteOK(note)' /\ note.kind \in {"live", "ended"}
    BY <2>1, <2>2 DEF MirrorOK, ProcOK
  <2>4. proc[v].at \in NotePlaces => proc[v].post.signal \in Signals
    BY <2>1 DEF ProcOK, Note
  <2>5. /\ proc[v].at = "saveCard" => Published(proc[v].post.signal)'
        /\ proc[v].at = "saveReply" => Published(proc[v].post.signal)'
    BY <1>1, <2>1, <2>4 DEF MirrorOK, StaysPublished, NotePlaces
  <2> QED
    BY <1>1, <2>1, <2>3, <2>4, <2>5 DEF MirrorOK, ThreadsGrow, NotePlaces
<1> QED
  BY <1>1

\* A row may be marked as mirrored, once it is published.
RowsKept ==
    \A s \in Signals :
        /\ rows'[s].status = rows[s].status
        /\ Exists(s) => /\ rows'[s].date = rows[s].date
                        /\ rows'[s].entry = rows[s].entry
                        /\ rows'[s].message = rows[s].message
                        /\ rows'[s].update = rows[s].update
        /\ rows[s].status \in {"draft", "publishing"} => rows'[s].mirrored = rows[s].mirrored

ReadingPlaces == {"idle", "card", "saveCard", "replies", "reply", "saveReply", "work"}

\* The loop leaves its claim alone, or had none.
LoopQuiet ==
    \/ L' = L
    \/ L.at \notin HeldPlaces \cup {"insert"} /\ L'.at \in ReadingPlaces

\* What the loop has in hand.
LEMMA LoopHas ==
    ASSUME ProcsOK
    PROVE  /\ L.at \in PostPlaces => L.post \in Post
           /\ L.at \in {"tell", "echo", "keep"} => L.todo \subseteq Post
           /\ L.at # "idle" => L.day \in Days
BY DEF ProcsOK, ProcOK, L, Workers

LoopFree ==
    \/ L' = L
    \/ /\ L.at \notin HeldPlaces \cup {"insert"}
       /\ L'.at \notin HeldPlaces \cup {"favorite", "insert"}

\* What the channel was told stays told.
LEMMA StillTold ==
    ASSUME ChannelGrows
    PROVE  \A s \in Signals : \A k, d, p :
               (Tells(channel[s], k, d) => Tells(channel'[s], k, d)) /\ (TellsAt(channel[s], k, d, p) => TellsAt(channel'[s], k, d, p))
BY DEF Tells, TellsAt, ChannelGrows

\* A step in which the loop has no row to publish, before or after.
LEMMA FreeStep ==
    ASSUME IInv, RowsKept, LoopFree, ChannelGrows,
           \A s \in Signals : TellsEnd(channel'[s]) => period[s] = "over",
           favorites' = favorites, period' = period, interrupted' = interrupted
    PROVE  HeldOK' /\ ClaimsOK' /\ FavoritesOK' /\ DatesOK' /\ RowsOK'
<1>1. L.at \in PostPlaces => L.post.signal \in Signals
  BY LoopHas DEF IInv, Post
<1>2. \A s \in Signals : Exists(s)' <=> Exists(s)
  BY DEF RowsKept, Exists
<1>3. HeldOK'
  <2>1. CASE L' = L
    <3>1. HeldOK
      BY DEF IInv
    <3>2. L.at \in HeldPlaces => L.post.signal \in Signals
      BY <1>1 DEF PostPlaces
    <3>3. SentPlaces \subseteq HeldPlaces
      BY DEF HeldPlaces
    <3> QED
      BY <2>1, <3>1, <3>2, <3>3 DEF HeldOK, RowsKept, Exists, ChannelGrows
  <2>2. CASE L'.at \notin HeldPlaces \cup {"favorite", "insert"}
    BY <2>2 DEF HeldOK, HeldPlaces, SentPlaces
  <2> QED
    BY <2>1, <2>2 DEF LoopFree
<1>4. ClaimsOK'
  <2>1. ClaimsOK
    BY DEF IInv
  <2>2. CASE L' = L
    BY <1>1, <2>1, <2>2 DEF ClaimsOK, RowsKept, PostPlaces
  <2>3. CASE /\ L.at \notin HeldPlaces \cup {"insert"}
             /\ L'.at \notin HeldPlaces \cup {"favorite", "insert"}
    BY <2>1, <2>3 DEF ClaimsOK, RowsKept
  <2> QED
    BY <2>2, <2>3 DEF LoopFree
<1>5. FavoritesOK'
  <2>1. FavoritesOK
    BY DEF IInv
  <2>2. \A s \in Signals :
           /\ rows'[s].status = rows[s].status
           /\ Exists(s) => rows'[s].entry = rows[s].entry
    BY DEF RowsKept
  <2>3. \A s \in Signals :
          ~Exists(s) /\ s \notin interrupted /\ favorites[s].status # "absent" =>
              L'.at = "insert" /\ L'.post.signal = s /\ favorites[s].entry = L'.post.price
    BY <2>1 DEF FavoritesOK, LoopFree
  <2> QED
    BY <1>2, <2>1, <2>2, <2>3 DEF FavoritesOK
<1>6. DatesOK'
  <2>1. DatesOK
    BY DEF IInv
  <2>2. \A s \in Signals : Exists(s) => rows'[s].date = rows[s].date
    BY DEF RowsKept
  <2>3. CASE L' = L
    BY <1>1, <1>2, <2>1, <2>2, <2>3 DEF DatesOK, PostPlaces
  <2>4. CASE L'.at \notin HeldPlaces \cup {"favorite", "insert"}
    BY <1>2, <2>1, <2>2, <2>4 DEF DatesOK
  <2> QED
    BY <2>3, <2>4 DEF LoopFree
<1>7. RowsOK'
  <2> SUFFICES ASSUME NEW s \in Signals PROVE RowOK(s)'
    BY DEF RowsOK
  <2>1. RowOK(s)
    BY DEF IInv, RowsOK
  <2>2. /\ Published(s)' <=> Published(s)
        /\ Published(s) => Exists(s)
    BY DEF RowsKept, Published, Exists
  <2>3. \A k, d, p : (Tells(channel[s], k, d) => Tells(channel'[s], k, d)) /\ (TellsAt(channel[s], k, d, p) => TellsAt(channel'[s], k, d, p))
    BY StillTold
  <2>4. /\ rows'[s].status = rows[s].status
        /\ Exists(s) => /\ rows'[s].date = rows[s].date
                        /\ rows'[s].entry = rows[s].entry
                        /\ rows'[s].message = rows[s].message
                        /\ rows'[s].update = rows[s].update
        /\ rows[s].status \in {"draft", "publishing"} => rows'[s].mirrored = rows[s].mirrored
    BY DEF RowsKept
  <2>5. Published(s) =>
          /\ rows'[s].message \in DOMAIN channel'[s]
          /\ channel'[s][rows'[s].message] =
                [kind |-> "signal", date |-> rows'[s].date, price |-> rows'[s].entry]
    BY <2>1, <2>2, <2>4 DEF RowOK, ChannelGrows
  <2>6. rows[s].status = "active" \/ rows[s].status = "closed" \/ rows[s].status \in {"draft", "publishing"}
           => Exists(s)
    BY DEF Exists
  <2>7. TellsEnd(channel'[s]) => period'[s] = "over"
    OBVIOUS
  <2>8. favorites'[s].status = "closed" => \E d \in Days : TellsAt(channel'[s], "ended", d, favorites'[s].exit)
    BY <2>1, <2>3 DEF RowOK
  <2> HIDE DEF RowOK
  <2>9. /\ rows'[s].status \in {"draft", "publishing"} => rows'[s].update = 0 /\ rows'[s].mirrored = 0
        /\ rows'[s].status = "active" /\ rows'[s].update # 0 => Tells(channel'[s], "live", rows'[s].update)
        /\ rows'[s].status = "closed" => rows'[s].update # 0 /\ Tells(channel'[s], "ended", rows'[s].update)
    BY <2>1, <2>3, <2>4, <2>6 DEF RowOK
  <2> QED
    BY <1>2, <2>1, <2>2, <2>5, <2>7, <2>8, <2>9 DEF RowOK
<1> QED
  BY <1>3, <1>4, <1>5, <1>6, <1>7

LEMMA QuietStep ==
    ASSUME IInv, RowsKept, LoopQuiet, ThreadsGrow,
           channel' = channel, favorites' = favorites, period' = period,
           interrupted' = interrupted
    PROVE  UpdatesOK' /\ HeldOK' /\ ClaimsOK' /\ FavoritesOK' /\ DatesOK' /\ RowsOK'
<1>1. /\ L.at \in PostPlaces => L.post.signal \in Signals
      /\ L.at \in {"tell", "echo", "keep"} => \A m \in L.todo : m.signal \in Signals
  BY LoopHas DEF IInv, Post
<1>2. \A s, k, d, p : (TellsAt(channel'[s], k, d, p) <=> TellsAt(channel[s], k, d, p)) /\ (TellsEnd(channel'[s]) <=> TellsEnd(channel[s]))
  BY DEF TellsAt, TellsEnd
<1>3. \A s \in Signals : \A d : Due(s, d) => Due(s, d)'
  BY DEF Due, RowsKept, Exists
<1>4. UpdatesOK'
  <2>1. CASE L' = L
    <3>1. UpdatesOK
      BY DEF IInv
    <3> QED
      BY <1>1, <1>2, <1>3, <2>1, <3>1 DEF UpdatesOK, ThreadsGrow, UpdatePlaces, PostPlaces
  <2>2. CASE L'.at \in ReadingPlaces
    BY <2>2 DEF UpdatesOK, ReadingPlaces, UpdatePlaces
  <2> QED
    BY <2>1, <2>2 DEF LoopQuiet
<1>5. ChannelGrows /\ LoopFree
  BY DEF ChannelGrows, LoopFree, LoopQuiet, ReadingPlaces, HeldPlaces, SentPlaces
<1>6. \A s \in Signals : TellsEnd(channel'[s]) => period[s] = "over"
  BY <1>2 DEF IInv, RowsOK, RowOK
<1> QED
  BY <1>4, <1>5, <1>6, FreeStep

-----------------------------------------------------------------------------
(* What Threads misses *)

\* A step of a process that is quiet for the loop.
LEMMA QuietInv ==
    ASSUME IInv, NEW w \in Workers, NEW p \in Proc, proc' = [proc EXCEPT ![w] = p],
           ProcOK(w)', MirrorOK(w)', RowsKept, ThreadsGrow,
           rows' \in [Signals -> Row \cup {NoRow}],
           threads' \in [Signals -> SUBSET [kind: Kinds, date: Days]],
           faults' \in 0..MaxFaults,
           w = "loop" => /\ L.at \notin HeldPlaces \cup {"insert"}
                         /\ p.at \in ReadingPlaces,
           UNCHANGED <<day, period, favorites, channel, started, crashes, interrupted>>
    PROVE  IInv'
<1>1. /\ proc' \in [Workers -> Proc] /\ proc'[w] = p
      /\ \A v \in Workers : v # w => proc'[v] = proc[v]
  BY OneSteps DEF IInv, TypeOK
<1>2. TypeOK'
  BY <1>1 DEF IInv, TypeOK
<1>3. ProcsOK'
  BY <1>1, ProcsKept DEF IInv
<1>4. ChannelGrows /\ StaysPublished
  BY DEF ChannelGrows, StaysPublished, Published, RowsKept
<1>5. NotesOK'
  BY <1>1, <1>4, NotesKept DEF IInv
<1>6. LoopQuiet
  BY <1>1 DEF LoopQuiet, L, Workers
<1>7. UpdatesOK' /\ HeldOK' /\ ClaimsOK' /\ FavoritesOK' /\ DatesOK' /\ RowsOK'
  BY <1>6, QuietStep
<1> QED
  BY <1>2, <1>3, <1>5, <1>7 DEF IInv

LEMMA MirrorGrows ==
    ASSUME TypeOK, NEW s \in Signals, NEW m \in [kind: Kinds, date: Days],
           threads' = [threads EXCEPT ![s] = @ \cup {m}]
    PROVE  /\ threads' \in [Signals -> SUBSET [kind: Kinds, date: Days]]
           /\ ThreadsGrow /\ m \in threads'[s]
BY DEF TypeOK, ThreadsGrow

LEMMA RowsUnchanged == ASSUME rows' = rows PROVE RowsKept
BY DEF RowsKept

LEMMA ThreadsUnchanged == ASSUME threads' = threads PROVE ThreadsGrow
BY DEF ThreadsGrow

LEMMA SendCardInv ==
    ASSUME IInv, NEW w \in Workers, SendCard(w)
    PROVE  IInv'
<1>1. /\ proc[w] \in Proc /\ ProcOK(w) /\ MirrorOK(w) /\ TypeOK /\ proc[w].at = "card"
      /\ rows' = rows /\ RowsKept
      /\ UNCHANGED <<day, period, favorites, channel, started, crashes, interrupted>>
  BY RowsUnchanged DEF IInv, TypeOK, ProcsOK, NotesOK, SendCard, At
<1>2. w = "loop" => L.at \notin HeldPlaces \cup {"insert"}
  BY <1>1 DEF L, HeldPlaces, SentPlaces
<1>3. ASSUME NEW s \in Signals, rows[s].status = "active",
             Mirror([signal |-> s, kind |-> "signal", date |-> rows[s].date]),
             proc' = [proc EXCEPT ![w].at = "saveCard",
                        ![w].post = [signal |-> s, kind |-> "signal", date |-> rows[s].date]]
      PROVE  IInv'
  <2> DEFINE note == [signal |-> s, kind |-> "signal", date |-> rows[s].date]
             p == [proc[w] EXCEPT !.at = "saveCard", !.post = note]
             m == [kind |-> "signal", date |-> rows[s].date]
  <2>1. rows[s].date \in Days
    BY <1>1, <1>3, RowType DEF Row
  <2>2. note \in Note /\ m \in [kind: Kinds, date: Days]
    BY <2>1 DEF Note, Kinds
  <2>3. threads' = [threads EXCEPT ![s] = @ \cup {m}] /\ faults' = faults
    BY <1>3 DEF Mirror, Shown, Dated
  <2>4. proc' = [proc EXCEPT ![w] = p] /\ note.signal = s
    BY <1>3
  <2> HIDE DEF note, m
  <2>5. p \in Proc /\ p.at = "saveCard" /\ p.post = note /\ p.mode = proc[w].mode
        /\ p.day = proc[w].day /\ p.delivered = proc[w].delivered
    BY <1>1, <2>2 DEF Proc
  <2> HIDE DEF p
  <2>6. proc'[w] = p
    BY <2>4, <2>5, OneSteps DEF IInv, TypeOK
  <2>7. threads' \in [Signals -> SUBSET [kind: Kinds, date: Days]] /\ ThreadsGrow
    BY <1>1, <2>2, <2>3, MirrorGrows
  <2>8. ProcOK(w)'
    BY <1>1, <2>2, <2>5, <2>6 DEF ProcOK, NotePlaces, PostPlaces, UpdatePlaces, HeldPlaces,
       SentPlaces
  <2>9. MirrorOK(w)'
    BY <1>1, <1>3, <2>4, <2>5, <2>6 DEF MirrorOK, Published
  <2>10. faults' \in 0..MaxFaults /\ rows' \in [Signals -> Row \cup {NoRow}]
    BY <1>1, <2>3 DEF TypeOK
  <2>11. p.at \in ReadingPlaces
    BY <2>5 DEF ReadingPlaces
  <2> QED
    BY <1>1, <1>2, <2>4, <2>5, <2>7, <2>8, <2>9, <2>10, <2>11, QuietInv
<1>4. ASSUME GoTo(w, "replies"), faults' \in 0..MaxFaults,
             \/ threads' = threads
             \/ \E s \in Signals :
                   /\ rows[s].status = "active"
                   /\ Shown([signal |-> s, kind |-> "signal", date |-> rows[s].date])
      PROVE  IInv'
  <2> DEFINE p == [proc[w] EXCEPT !.at = "replies"]
  <2>1. proc' = [proc EXCEPT ![w] = p]
    BY <1>4 DEF GoTo
  <2>2. p \in Proc /\ p.at = "replies" /\ p.mode = proc[w].mode /\ p.day = proc[w].day
      /\ p.delivered = proc[w].delivered
    BY <1>1 DEF Proc
  <2> HIDE DEF p
  <2>3. proc'[w] = p
    BY <2>1, <2>2, OneSteps DEF IInv, TypeOK
  <2>4. ProcOK(w)' /\ MirrorOK(w)'
    BY <1>1, <2>2, <2>3 DEF ProcOK, MirrorOK, NotePlaces, PostPlaces, UpdatePlaces, HeldPlaces,
       SentPlaces
  <2>5. /\ threads' \in [Signals -> SUBSET [kind: Kinds, date: Days]] /\ ThreadsGrow
        /\ rows' \in [Signals -> Row \cup {NoRow}] /\ p.at \in ReadingPlaces
    <3>1. CASE threads' = threads
      BY <1>1, <1>4, <2>2, <3>1, ThreadsUnchanged DEF TypeOK, ReadingPlaces
    <3>2. ASSUME NEW s \in Signals, rows[s].status = "active",
                 Shown([signal |-> s, kind |-> "signal", date |-> rows[s].date])
          PROVE  threads' \in [Signals -> SUBSET [kind: Kinds, date: Days]] /\ ThreadsGrow
      <4> DEFINE m == [kind |-> "signal", date |-> rows[s].date]
      <4>1. m \in [kind: Kinds, date: Days]
        BY <1>1, <3>2, RowType DEF Row, Kinds
      <4>2. threads' = [threads EXCEPT ![s] = @ \cup {m}]
        BY <3>2 DEF Shown, Dated
      <4> HIDE DEF m
      <4> QED
        BY <1>1, <4>1, <4>2, MirrorGrows
    <3> QED
      BY <1>1, <1>4, <2>2, <3>1, <3>2 DEF TypeOK, ReadingPlaces
  <2> QED
    BY <1>1, <1>2, <1>4, <2>1, <2>2, <2>4, <2>5, QuietInv
<1>5. (Fault => faults' \in 0..MaxFaults) /\ (faults' = faults => faults' \in 0..MaxFaults)
  BY <1>1, PublicationsAssumption DEF Fault, TypeOK
<1> QED
  BY <1>3, <1>4, <1>5 DEF SendCard, ThreadsFails

\* A mark that Threads has taken a message.
LEMMA MarkedRows ==
    ASSUME TypeOK, NEW s \in Signals, Published(s), NEW r \in Row,
           r.status = rows[s].status, r.date = rows[s].date, r.entry = rows[s].entry,
           r.message = rows[s].message, r.update = rows[s].update,
           rows' = [rows EXCEPT ![s] = r]
    PROVE  RowsKept /\ rows' \in [Signals -> Row \cup {NoRow}]
BY DEF TypeOK, RowsKept, Published, Exists

LEMMA SaveCardInv ==
    ASSUME IInv, NEW w \in Workers, SaveCard(w)
    PROVE  IInv'
<1> DEFINE s == proc[w].post.signal
           r == [rows[s] EXCEPT !.card = 1]
           p == [proc[w] EXCEPT !.at = "replies", !.post = NoPost]
<1>1. /\ proc[w] \in Proc /\ ProcOK(w) /\ MirrorOK(w) /\ TypeOK /\ proc[w].at = "saveCard"
      /\ UNCHANGED <<day, period, favorites, channel, threads, started, faults, crashes, interrupted>>
      /\ rows' = [rows EXCEPT ![s] = r] /\ proc' = [proc EXCEPT ![w] = p]
  BY DEF IInv, TypeOK, ProcsOK, NotesOK, SaveCard, At
<1>2. s \in Signals /\ Published(s)
  BY <1>1 DEF ProcOK, MirrorOK, NotePlaces, Note
<1>3. r \in Row /\ r.status = rows[s].status /\ r.date = rows[s].date
      /\ r.entry = rows[s].entry /\ r.message = rows[s].message /\ r.update = rows[s].update
  BY <1>1, <1>2, RowType DEF Row, Published
<1>4. p \in Proc /\ p.at = "replies" /\ p.mode = proc[w].mode /\ p.day = proc[w].day
      /\ p.delivered = proc[w].delivered
  BY <1>1 DEF Proc
<1> HIDE DEF r, p
<1>5. RowsKept /\ rows' \in [Signals -> Row \cup {NoRow}]
  BY <1>1, <1>2, <1>3, MarkedRows
<1>6. proc'[w] = p
  BY <1>1, <1>4, OneSteps DEF IInv, TypeOK
<1>7. ProcOK(w)' /\ MirrorOK(w)'
  BY <1>1, <1>4, <1>6 DEF ProcOK, MirrorOK, NotePlaces, PostPlaces, UpdatePlaces, HeldPlaces,
     SentPlaces
<1>8. /\ w = "loop" => L.at \notin HeldPlaces \cup {"insert"}
      /\ p.at \in ReadingPlaces
  BY <1>1, <1>4 DEF L, HeldPlaces, SentPlaces, ReadingPlaces
<1>9. /\ threads' \in [Signals -> SUBSET [kind: Kinds, date: Days]] /\ ThreadsGrow
      /\ faults' \in 0..MaxFaults
  BY <1>1, ThreadsUnchanged DEF TypeOK
<1> QED
  BY <1>1, <1>4, <1>5, <1>7, <1>8, <1>9, QuietInv

\* The last update of a row is one the channel was told.
LEMMA UpdateTold ==
    ASSUME IInv, NEW s \in Unmirrored
    PROVE  /\ s \in Signals /\ LastUpdate(s, rows[s]) \in Note
           /\ NoteOK(LastUpdate(s, rows[s])) /\ LastUpdate(s, rows[s]).kind \in {"live", "ended"}
<1> DEFINE note == LastUpdate(s, rows[s])
<1>1. s \in Signals /\ Published(s) /\ rows[s].update # 0
  BY DEF Unmirrored
<1>2. rows[s] \in Row /\ rows[s].status \in {"active", "closed"}
  BY <1>1, RowType DEF IInv, Published
<1>3. rows[s].update \in Days
  BY <1>1, <1>2 DEF Row
<1>4. /\ note.signal = s /\ note.date = rows[s].update /\ note \in Note
      /\ note.kind = IF rows[s].status = "closed" THEN "ended" ELSE "live"
  BY <1>1, <1>3 DEF LastUpdate, Note, Kinds
<1> HIDE DEF note
<1>5. Tells(channel[s], note.kind, note.date)
  BY <1>1, <1>2, <1>4 DEF IInv, RowsOK, RowOK
<1> QED
  BY <1>1, <1>4, <1>5 DEF note, NoteOK

LEMMA ReadRepliesInv ==
    ASSUME IInv, NEW w \in Workers, ReadReplies(w)
    PROVE  IInv'
<1>1. /\ proc[w] \in Proc /\ ProcOK(w) /\ MirrorOK(w) /\ TypeOK /\ proc[w].at = "replies"
      /\ UNCHANGED <<day, period, rows, favorites, channel, threads, started, faults, crashes,
                     interrupted>>
  BY DEF IInv, TypeOK, ProcsOK, NotesOK, ReadReplies, At
<1>2. PICK chosen \in SUBSET Unmirrored :
         proc' = [proc EXCEPT ![w].at = "reply",
                              ![w].todo = {LastUpdate(s, rows[s]) : s \in chosen}]
  BY DEF ReadReplies, kSubset
<1> DEFINE todo == {LastUpdate(s, rows[s]) : s \in chosen}
           p == [proc[w] EXCEPT !.at = "reply", !.todo = todo]
<1>3. \A note \in todo : note \in Note /\ NoteOK(note) /\ note.kind \in {"live", "ended"}
  BY UpdateTold
<1>4. proc' = [proc EXCEPT ![w] = p]
  BY <1>2
<1> HIDE DEF todo
<1>5. p \in Proc /\ p.at = "reply" /\ p.mode = proc[w].mode /\ p.day = proc[w].day
      /\ p.todo = todo /\ p.delivered = proc[w].delivered
  <2>1. todo \subseteq Post \cup Note
    BY <1>3
  <2> QED
    BY <1>1, <2>1 DEF Proc
<1> HIDE DEF p
<1>6. proc'[w] = p
  BY <1>1, <1>4, <1>5, OneSteps DEF TypeOK
<1>7. ProcOK(w)'
  BY <1>1, <1>3, <1>5, <1>6 DEF ProcOK, NotePlaces, PostPlaces, UpdatePlaces, HeldPlaces,
     SentPlaces
<1>8. MirrorOK(w)'
  <2>1. \A note \in todo : NoteOK(note)'
    BY <1>1, <1>3 DEF NoteOK, Published, Tells
  <2> QED
    BY <1>3, <1>5, <1>6, <2>1 DEF MirrorOK
<1>9. /\ w = "loop" => L.at \notin HeldPlaces \cup {"insert"}
      /\ p.at \in ReadingPlaces
  BY <1>1, <1>5 DEF L, HeldPlaces, SentPlaces, ReadingPlaces
<1>10. /\ threads' \in [Signals -> SUBSET [kind: Kinds, date: Days]] /\ ThreadsGrow
       /\ faults' \in 0..MaxFaults /\ rows' \in [Signals -> Row \cup {NoRow}] /\ RowsKept
  BY <1>1, ThreadsUnchanged, RowsUnchanged DEF TypeOK
<1> QED
  BY <1>1, <1>4, <1>5, <1>7, <1>8, <1>9, <1>10, QuietInv

LEMMA SendReplyInv ==
    ASSUME IInv, NEW w \in Workers, SendReply(w)
    PROVE  IInv'
<1>1. /\ proc[w] \in Proc /\ ProcOK(w) /\ MirrorOK(w) /\ TypeOK /\ proc[w].at = "reply"
      /\ rows' = rows /\ RowsKept
      /\ UNCHANGED <<day, period, favorites, channel, started, crashes, interrupted>>
  BY RowsUnchanged DEF IInv, TypeOK, ProcsOK, NotesOK, SendReply, At
<1>2. w = "loop" => L.at \notin HeldPlaces \cup {"insert"}
  BY <1>1 DEF L, HeldPlaces, SentPlaces
<1>0. proc[w].delivered = 0
  BY <1>1 DEF ProcOK
<1>3. \A note \in proc[w].todo :
          note \in Note /\ NoteOK(note) /\ NoteOK(note)' /\ note.kind \in {"live", "ended"}
  <2>1. proc[w].todo \subseteq Note
    BY <1>1 DEF ProcOK
  <2> QED
    BY <1>1, <2>1 DEF MirrorOK, NoteOK, Published, Tells
<1>4. ASSUME NEW p \in Proc, proc' = [proc EXCEPT ![w] = p],
             p.at \in {"reply", "idle", "work"}, p.at = "idle" \/ p.mode = proc[w].mode, p.delivered = 0,
             p.at = "work" => proc[w].mode # "backfill", p.at = "idle" \/ p.day = proc[w].day,
             p.at = "reply" => p.todo \subseteq proc[w].todo,
             threads' = threads \/ (\E note \in proc[w].todo : Shown(note)),
             faults' \in 0..MaxFaults
      PROVE  IInv'
  <2>1. proc'[w] = p
    BY <1>1, <1>4, OneSteps DEF TypeOK
  <2>2. ProcOK(w)'
    BY <1>1, <1>3, <1>4, <2>1 DEF ProcOK, NotePlaces, PostPlaces, UpdatePlaces, HeldPlaces,
       SentPlaces
  <2>3. MirrorOK(w)'
    BY <1>3, <1>4, <2>1 DEF MirrorOK
  <2>4. /\ threads' \in [Signals -> SUBSET [kind: Kinds, date: Days]] /\ ThreadsGrow
        /\ rows' \in [Signals -> Row \cup {NoRow}] /\ p.at \in ReadingPlaces
    <3>1. CASE threads' = threads
      BY <1>1, <1>4, <3>1, ThreadsUnchanged DEF TypeOK, ReadingPlaces
    <3>2. ASSUME NEW note \in proc[w].todo, Shown(note)
          PROVE  threads' \in [Signals -> SUBSET [kind: Kinds, date: Days]] /\ ThreadsGrow
      <4> DEFINE m == Dated(note)
      <4>1. note.signal \in Signals /\ m \in [kind: Kinds, date: Days]
        BY <1>3, <3>2 DEF Note, Kinds, Dated
      <4>2. threads' = [threads EXCEPT ![note.signal] = @ \cup {m}]
        BY <3>2 DEF Shown
      <4> HIDE DEF m
      <4> QED
        BY <1>1, <4>1, <4>2, MirrorGrows
    <3> QED
      BY <1>1, <1>4, <3>1, <3>2 DEF TypeOK, ReadingPlaces
  <2> QED
    BY <1>1, <1>2, <1>4, <2>2, <2>3, <2>4, QuietInv
<1>5. ASSUME NEW note \in proc[w].todo, Mirror(note),
             proc' = [proc EXCEPT ![w].at = "saveReply", ![w].post = note, ![w].todo = @ \ {note}]
      PROVE  IInv'
  <2> DEFINE p == [proc[w] EXCEPT !.at = "saveReply", !.post = note, !.todo = @ \ {note}]
             m == Dated(note)
  <2>1. /\ proc' = [proc EXCEPT ![w] = p] /\ threads' = [threads EXCEPT ![note.signal] = @ \cup {m}]
        /\ faults' = faults
    BY <1>5 DEF Mirror, Shown
  <2>2. /\ note \in Note /\ note.signal \in Signals /\ m \in [kind: Kinds, date: Days]
        /\ m = [kind |-> note.kind, date |-> note.date]
    BY <1>3 DEF Note, Kinds, Dated
  <2> HIDE DEF m
  <2>3. p \in Proc /\ p.at = "saveReply" /\ p.post = note /\ p.mode = proc[w].mode
        /\ p.day = proc[w].day /\ p.delivered = proc[w].delivered /\ p.todo = proc[w].todo \ {note}
    BY <1>1, <2>2 DEF Proc
  <2> HIDE DEF p
  <2>4. proc'[w] = p
    BY <1>1, <2>1, <2>3, OneSteps DEF TypeOK
  <2>5. /\ threads' \in [Signals -> SUBSET [kind: Kinds, date: Days]] /\ ThreadsGrow
        /\ m \in threads'[note.signal]
    BY <1>1, <2>1, <2>2, MirrorGrows
  <2>6. ProcOK(w)'
    BY <1>1, <1>3, <2>2, <2>3, <2>4 DEF ProcOK, NotePlaces, PostPlaces, UpdatePlaces, HeldPlaces,
       SentPlaces
  <2>7. Published(note.signal)'
    BY <1>1, <1>3 DEF NoteOK, Published
  <2>8. MirrorOK(w)'
    BY <1>3, <2>2, <2>3, <2>4, <2>5, <2>7 DEF MirrorOK
  <2>9. faults' \in 0..MaxFaults /\ rows' \in [Signals -> Row \cup {NoRow}] /\ p.at \in ReadingPlaces
    BY <1>1, <2>1, <2>3 DEF TypeOK, ReadingPlaces
  <2> QED
    BY <1>1, <1>2, <2>1, <2>3, <2>5, <2>6, <2>8, <2>9, QuietInv
<1>6. (Fault => faults' \in 0..MaxFaults) /\ (faults' = faults => faults' \in 0..MaxFaults)
  BY <1>1, PublicationsAssumption DEF Fault, TypeOK
<1>7. ASSUME NEW note \in proc[w].todo, ThreadsFails(note),
             proc' = [proc EXCEPT ![w].todo = @ \ {note}]
      PROVE  IInv'
  <2> DEFINE p == [proc[w] EXCEPT !.todo = @ \ {note}]
  <2>1. p \in Proc /\ p.at = "reply" /\ p.mode = proc[w].mode
        /\ p.day = proc[w].day /\ p.delivered = proc[w].delivered /\ p.todo \subseteq proc[w].todo
    BY <1>1 DEF Proc
  <2>2. proc' = [proc EXCEPT ![w] = p] /\ (threads' = threads \/ Shown(note)) /\ Fault
    BY <1>7 DEF ThreadsFails
  <2> HIDE DEF p
  <2> QED
    BY <1>0, <1>4, <1>6, <2>1, <2>2
<1>8. ASSUME proc[w].mode = "backfill", Finish(w), threads' = threads, faults' = faults
      PROVE  IInv'
  <2>1. proc' = [proc EXCEPT ![w] = Idle]
    BY <1>8 DEF Finish
  <2> QED
    BY <1>4, <1>6, <1>8, <2>1, IdleType
<1>9. ASSUME proc[w].mode # "backfill", GoTo(w, "work"), threads' = threads, faults' = faults
      PROVE  IInv'
  <2> DEFINE p == [proc[w] EXCEPT !.at = "work"]
  <2>1. p \in Proc /\ p.at = "work" /\ p.mode = proc[w].mode /\ p.day = proc[w].day
      /\ p.delivered = proc[w].delivered
    BY <1>1 DEF Proc
  <2>2. proc' = [proc EXCEPT ![w] = p]
    BY <1>9 DEF GoTo
  <2> HIDE DEF p
  <2> QED
    BY <1>0, <1>4, <1>6, <1>9, <2>1, <2>2
<1> QED
  BY <1>5, <1>7, <1>8, <1>9 DEF SendReply

LEMMA SaveReplyInv ==
    ASSUME IInv, NEW w \in Workers, SaveReply(w)
    PROVE  IInv'
<1> DEFINE s == proc[w].post.signal
           r == [rows[s] EXCEPT !.mirrored = proc[w].post.date]
           p == [proc[w] EXCEPT !.at = "reply", !.post = NoPost]
<1>1. /\ proc[w] \in Proc /\ ProcOK(w) /\ MirrorOK(w) /\ TypeOK /\ proc[w].at = "saveReply"
      /\ UNCHANGED <<day, period, favorites, channel, threads, started, faults, crashes, interrupted>>
      /\ rows' = [rows EXCEPT ![s] = r] /\ proc' = [proc EXCEPT ![w] = p]
  BY DEF IInv, TypeOK, ProcsOK, NotesOK, SaveReply, At
<1>2. s \in Signals /\ Published(s) /\ proc[w].post.date \in Days
  BY <1>1 DEF ProcOK, MirrorOK, NotePlaces, Note
<1>3. r \in Row /\ r.status = rows[s].status /\ r.date = rows[s].date
      /\ r.entry = rows[s].entry /\ r.message = rows[s].message /\ r.update = rows[s].update
  BY <1>1, <1>2, RowType DEF Row, Published
<1>4. p \in Proc /\ p.at = "reply" /\ p.mode = proc[w].mode /\ p.day = proc[w].day
      /\ p.delivered = proc[w].delivered
      /\ p.todo = proc[w].todo
  BY <1>1 DEF Proc
<1> HIDE DEF r, p
<1>5. RowsKept /\ rows' \in [Signals -> Row \cup {NoRow}]
  BY <1>1, <1>2, <1>3, MarkedRows
<1>6. proc'[w] = p
  BY <1>1, <1>4, OneSteps DEF IInv, TypeOK
<1>7. ProcOK(w)'
  BY <1>1, <1>4, <1>6 DEF ProcOK, NotePlaces, PostPlaces, UpdatePlaces, HeldPlaces, SentPlaces
<1>8. \A note \in proc[w].todo : NoteOK(note)' /\ note.kind \in {"live", "ended"}
  <2>1. \A note \in proc[w].todo : note.signal \in Signals /\ NoteOK(note) /\ note.kind \in {"live", "ended"}
    BY <1>1 DEF ProcOK, MirrorOK, Note
  <2>2. \A t \in Signals : Published(t) => Published(t)'
    BY <1>5 DEF RowsKept, Published
  <2> QED
    BY <1>1, <2>1, <2>2 DEF NoteOK, Tells
<1>9. MirrorOK(w)'
  BY <1>4, <1>6, <1>8 DEF MirrorOK
<1>10. /\ w = "loop" => L.at \notin HeldPlaces \cup {"insert"}
       /\ p.at \in ReadingPlaces
  BY <1>1, <1>4 DEF L, HeldPlaces, SentPlaces, ReadingPlaces
<1>11. /\ threads' \in [Signals -> SUBSET [kind: Kinds, date: Days]] /\ ThreadsGrow
       /\ faults' \in 0..MaxFaults
  BY <1>1, ThreadsUnchanged DEF TypeOK
<1> QED
  BY <1>1, <1>4, <1>5, <1>7, <1>9, <1>10, <1>11, QuietInv

\* A run that ends where it holds no row.
LEMMA FinishInv ==
    ASSUME IInv, NEW w \in Workers, Finish(w), proc[w].at \notin HeldPlaces \cup {"insert"},
           UNCHANGED <<day, period, rows, favorites, channel, threads, started, faults, crashes,
                       interrupted>>
    PROVE  IInv'
<1>1. proc' = [proc EXCEPT ![w] = Idle]
  BY DEF Finish
<1>2. proc'[w] = Idle /\ Idle \in Proc /\ Idle.at \in ReadingPlaces
  BY <1>1, IdleType, OneSteps DEF IInv, TypeOK, ReadingPlaces
<1>3. ProcOK(w)' /\ MirrorOK(w)'
  BY <1>2, IdleType DEF ProcOK, MirrorOK, NotePlaces, PostPlaces, UpdatePlaces, HeldPlaces,
     SentPlaces
<1>4. /\ RowsKept /\ ThreadsGrow /\ rows' \in [Signals -> Row \cup {NoRow}]
      /\ threads' \in [Signals -> SUBSET [kind: Kinds, date: Days]] /\ faults' \in 0..MaxFaults
  BY RowsUnchanged, ThreadsUnchanged DEF IInv, TypeOK
<1>5. w = "loop" => L.at \notin HeldPlaces \cup {"insert"}
  BY DEF L
<1> QED
  BY <1>1, <1>2, <1>3, <1>4, <1>5, QuietInv

-----------------------------------------------------------------------------
(* The updates *)

\* A step of the loop outside the backfill.
LEMMA LoopStep ==
    ASSUME IInv, NEW p \in Proc, proc' = [proc EXCEPT !["loop"] = p],
           p.at \notin {"card", "saveCard", "replies", "reply", "saveReply"},
           p.at # "idle" => p.day \in Days, p.delivered = 0 \/ p.at \in {"keep", "record"},
           p.at \in PostPlaces => p.post \in Post,
           p.at \in {"tell", "echo", "keep"} => p.todo \subseteq Post,
           ChannelGrows, ThreadsGrow, StaysPublished
    PROVE  /\ L' = p /\ proc' \in [Workers -> Proc]
           /\ ProcsOK' /\ NotesOK'
<1>1. /\ proc' \in [Workers -> Proc] /\ proc'["loop"] = p
      /\ \A v \in Workers : v # "loop" => proc'[v] = proc[v]
  BY OneSteps DEF IInv, TypeOK, Workers
<1>2. ProcOK("loop")' /\ MirrorOK("loop")'
  BY <1>1 DEF ProcOK, MirrorOK, NotePlaces
<1>3. ProcsOK'
  BY <1>1, <1>2, ProcsKept DEF IInv
<1>4. NotesOK'
  BY <1>1, <1>2, NotesKept DEF IInv
<1> QED
  BY <1>1, <1>3, <1>4 DEF L

LEMMA AtLoop ==
    ASSUME IInv, NEW w \in Workers,
           proc[w].at \notin {"idle", "card", "saveCard", "replies", "reply", "saveReply"}
    PROVE  /\ w = "loop" /\ proc["loop"] = L /\ L \in Proc /\ L.day \in Days
           /\ L.delivered = 0 \/ L.at \in {"keep", "record"}
           /\ TypeOK /\ ProcsOK
BY DEF IInv, TypeOK, ProcsOK, ProcOK, L, Workers

LEMMA Unpublished == ASSUME rows' = rows PROVE StaysPublished
BY DEF StaysPublished, Published

LEMMA ChannelUnchanged == ASSUME channel' = channel PROVE ChannelGrows
BY DEF ChannelGrows

LEMMA EndsOver ==
    ASSUME IInv
    PROVE  \A s \in Signals : TellsEnd(channel[s]) => period[s] = "over"
BY DEF IInv, RowsOK, RowOK

LEMMA ReadRowsInv ==
    ASSUME IInv, NEW w \in Workers, ReadRows(w)
    PROVE  IInv'
<1>1. proc[w].at = "work"
  BY DEF ReadRows, At
<1>2. /\ w = "loop" /\ proc["loop"] = L /\ L \in Proc /\ proc[w].day \in Days
      /\ TypeOK /\ ProcsOK /\ L.at = "work" /\ L.delivered = 0
  BY <1>1, AtLoop
<1> DEFINE d == proc[w].day
           due == {s \in Signals : Due(s, d)}
           Of(price, s) == [signal |-> s, kind |-> IF period[s] = "live" THEN "live" ELSE "ended",
                            date |-> d, price |-> price[s], reached |-> Reached(rows[s]),
                            card |-> rows[s].card]
<1>3. PICK price \in [due -> Quotes] :
         proc' = [proc EXCEPT ![w].at = "tell", ![w].left = UpdateLimit,
                              ![w].todo = {Of(price, s) : s \in due}]
  BY Zenon DEF ReadRows
<1>4. UNCHANGED <<day, period, rows, favorites, channel, threads, started, faults, crashes,
                  interrupted>>
  BY DEF ReadRows
<1> DEFINE todo == {Of(price, s) : s \in due}
           p == [L EXCEPT !.at = "tell", !.left = UpdateLimit, !.todo = todo]
<1>5. ASSUME NEW s \in due
      PROVE  /\ Of(price, s) \in Post /\ Of(price, s).signal = s /\ Of(price, s).date = d
             /\ Of(price, s).kind = IF period[s] = "live" THEN "live" ELSE "ended"
  <2>1. rows[s] \in Row
    BY <1>2, RowType DEF Due
  <2>2. Reached(rows[s]) \in Days /\ rows[s].card \in {0, 1} /\ price[s] \in Quotes
    BY <2>1 DEF Reached, Row
  <2> QED
    BY <1>2, <2>2 DEF Post, Kinds
<1>6. \A m \in todo :
         /\ m \in Post /\ m.signal \in Signals /\ Due(m.signal, m.date)
         /\ m.kind = IF period[m.signal] = "live" THEN "live" ELSE "ended"
  BY <1>5
<1>7. \A m, n \in todo : m.signal = n.signal => m = n
  BY <1>5
<1>8. proc' = [proc EXCEPT !["loop"] = p]
  BY <1>2, <1>3
<1> HIDE DEF todo, Of
<1>9. p \in Proc /\ p.at = "tell" /\ p.todo = todo /\ p.day = d /\ p.delivered = 0
  <2>1. todo \subseteq Post \cup Note /\ UpdateLimit \in 0..UpdateLimit
    BY <1>6, PublicationsAssumption
  <2> QED
    BY <1>2, <2>1 DEF Proc
<1> HIDE DEF p
<1>10. ChannelGrows /\ ThreadsGrow /\ StaysPublished /\ RowsKept
  BY <1>4, ChannelUnchanged, ThreadsUnchanged, Unpublished, RowsUnchanged
<1>11. L' = p /\ proc' \in [Workers -> Proc] /\ ProcsOK' /\ NotesOK'
  BY <1>2, <1>6, <1>8, <1>9, <1>10, LoopStep DEF PostPlaces, UpdatePlaces, HeldPlaces, SentPlaces
<1>12. TypeOK'
  BY <1>2, <1>4, <1>11 DEF TypeOK
<1>13. UpdatesOK'
  <2>1. \A s \in Signals : period[s] \in {"unseen", "live", "over"}
    BY <1>2 DEF TypeOK
  <2>2. \A m \in todo : /\ Due(m.signal, m.date)' /\ m.kind \in {"live", "ended"}
                        /\ m.kind = "live" => ~TellsEnd(channel'[m.signal])
    BY <1>4, <1>6, EndsOver DEF Due
  <2>3. \A m \in todo : m.kind = "ended" => period'[m.signal] = "over"
    <3>1. ASSUME NEW m \in todo, m.kind = "ended" PROVE period[m.signal] = "over"
      <4>1. rows[m.signal].status = "active" /\ m.signal \in Signals
        BY <1>6, <3>1 DEF Due
      <4>2. period[m.signal] # "unseen"
        BY <4>1 DEF IInv, RowsOK, RowOK, Exists
      <4> QED
        BY <1>6, <2>1, <3>1, <4>1, <4>2
    <3> QED
      BY <1>4, <3>1
  <2> QED
    BY <1>7, <1>9, <1>11, <2>2, <2>3 DEF UpdatesOK, UpdatePlaces
<1>14. HeldOK' /\ ClaimsOK' /\ FavoritesOK' /\ DatesOK' /\ RowsOK'
  <2>1. LoopFree
    BY <1>2, <1>9, <1>11 DEF LoopFree, HeldPlaces, SentPlaces
  <2>2. \A s \in Signals : TellsEnd(channel'[s]) => period[s] = "over"
    BY <1>4, EndsOver
  <2> QED
    BY <1>4, <1>10, <2>1, <2>2, FreeStep
<1> QED
  BY <1>11, <1>12, <1>13, <1>14 DEF IInv

\* What one more post of a signal changes.
LEMMA Posted ==
    ASSUME TypeOK, NEW s \in Signals, NEW m \in Message, AppendTo(s, m)
    PROVE  /\ channel' \in [Signals -> Seq(Message)] /\ ChannelGrows
           /\ Len(channel[s]) + 1 \in DOMAIN channel'[s]
           /\ channel'[s][Len(channel[s]) + 1] = m
           /\ TellsAt(channel'[s], m.kind, m.date, m.price)
           /\ \A t \in Signals : t # s => channel'[t] = channel[t]
           /\ TellsEnd(channel'[s]) => TellsEnd(channel[s]) \/ m.kind = "ended"
<1>1. channel[s] \in Seq(Message) /\ channel' = [channel EXCEPT ![s] = Append(@, m)]
  BY DEF TypeOK, AppendTo
<1> DEFINE c == Append(channel[s], m)
<1>2. /\ c \in Seq(Message) /\ DOMAIN c = 1..(Len(channel[s]) + 1)
      /\ DOMAIN channel[s] = 1..Len(channel[s]) /\ Len(channel[s]) \in Nat
      /\ c[Len(channel[s]) + 1] = m
      /\ \A i \in 1..Len(channel[s]) : c[i] = channel[s][i]
  BY <1>1
<1>3. channel'[s] = c /\ \A t \in Signals : t # s => channel'[t] = channel[t]
  BY <1>1 DEF TypeOK
<1> HIDE DEF c
<1>4. channel' \in [Signals -> Seq(Message)]
  BY <1>1, <1>2 DEF TypeOK, c
<1>5. ChannelGrows
  BY <1>2, <1>3 DEF ChannelGrows
<1>6. TellsAt(channel'[s], m.kind, m.date, m.price)
  BY <1>2, <1>3 DEF TellsAt
<1>7. TellsEnd(channel'[s]) => TellsEnd(channel[s]) \/ m.kind = "ended"
  <2> SUFFICES ASSUME NEW i \in DOMAIN c, c[i].kind = "ended", m.kind # "ended"
               PROVE  TellsEnd(channel[s])
    BY <1>3 DEF TellsEnd
  <2>1. i \in 1..Len(channel[s])
    BY <1>2
  <2> QED
    BY <1>2, <2>1 DEF TellsEnd
<1> QED
  BY <1>2, <1>3, <1>4, <1>5, <1>6, <1>7

LEMMA TellInv ==
    ASSUME IInv, NEW w \in Workers, Tell(w)
    PROVE  IInv'
<1>1. /\ w = "loop" /\ proc["loop"] = L /\ L \in Proc /\ L.day \in Days /\ TypeOK /\ ProcsOK
      /\ L.at = "tell" /\ proc[w].left > 0 /\ L.delivered = 0
      /\ UNCHANGED <<day, period, rows, favorites, threads, started, crashes, interrupted>>
  <2>1. proc[w].at = "tell"
    BY DEF Tell, At
  <2> QED
    BY <2>1, AtLoop DEF Tell
<1>2. PICK post \in proc[w].todo :
          \/ /\ AppendTo(post.signal, MessageOf(post))
             /\ proc' = [proc EXCEPT ![w].at = "echo", ![w].post = post,
                                     ![w].todo = @ \ {post}, ![w].left = @ - 1]
             /\ UNCHANGED faults
          \/ SendFails(post.signal, MessageOf(post)) /\ Finish(w)
  BY DEF Tell
<1> DEFINE s == post.signal
           m == MessageOf(post)
<1>3. /\ post \in Post /\ s \in Signals /\ m \in Message
      /\ m.kind = post.kind /\ m.date = post.date /\ m.price = post.price
      /\ L.todo \subseteq Post /\ post \in L.todo
  <2>1. L.todo \subseteq Post
    BY <1>1, LoopHas
  <2> QED
    BY <1>1, <2>1 DEF Post, Message, MessageOf
<1> HIDE DEF s, m
<1>4. UpdatesOK
  BY DEF IInv
<1>5. ThreadsGrow /\ StaysPublished /\ RowsKept
  BY <1>1, ThreadsUnchanged, Unpublished, RowsUnchanged
<1>6. AppendTo(s, m) \/ channel' = channel
  BY <1>2 DEF SendFails, s, m
<1>7. ChannelGrows /\ channel' \in [Signals -> Seq(Message)]
  BY <1>1, <1>3, <1>6, Posted, ChannelUnchanged DEF TypeOK
<1>8. \A t \in Signals : TellsEnd(channel'[t]) => period[t] = "over"
  <2>1. m.kind = "ended" => period[s] = "over"
    BY <1>1, <1>3, <1>4 DEF UpdatesOK, s
  <2>2. CASE AppendTo(s, m)
    BY <1>1, <1>3, <2>1, <2>2, Posted, EndsOver
  <2>3. CASE channel' = channel
    BY <2>3, EndsOver
  <2> QED
    BY <1>6, <2>2, <2>3
<1>9. ASSUME NEW p \in Proc, proc' = [proc EXCEPT !["loop"] = p], p.at \in {"idle", "echo"},
             p.at = "echo" => p.day \in Days /\ p.post \in Post /\ p.todo \subseteq Post,
             p.delivered = 0,
             faults' \in 0..MaxFaults, L' = p => UpdatesOK'
      PROVE  IInv'
  <2>1. L' = p /\ proc' \in [Workers -> Proc] /\ ProcsOK' /\ NotesOK'
    BY <1>5, <1>7, <1>9, LoopStep DEF PostPlaces, UpdatePlaces, HeldPlaces, SentPlaces
  <2>2. LoopFree
    BY <1>1, <1>9, <2>1 DEF LoopFree, HeldPlaces, SentPlaces
  <2>3. HeldOK' /\ ClaimsOK' /\ FavoritesOK' /\ DatesOK' /\ RowsOK'
    BY <1>1, <1>5, <1>7, <1>8, <2>2, FreeStep
  <2>4. TypeOK'
    BY <1>1, <1>7, <1>9, <2>1 DEF TypeOK
  <2> QED
    BY <1>9, <2>1, <2>3, <2>4 DEF IInv
<1>10. CASE /\ AppendTo(s, m) /\ UNCHANGED faults
            /\ proc' = [proc EXCEPT ![w].at = "echo", ![w].post = post,
                                    ![w].todo = @ \ {post}, ![w].left = @ - 1]
  <2> DEFINE p == [L EXCEPT !.at = "echo", !.post = post, !.todo = @ \ {post}, !.left = @ - 1]
  <2>1. proc' = [proc EXCEPT !["loop"] = p]
    BY <1>1, <1>10
  <2>2. p \in Proc /\ p.at = "echo" /\ p.post = post /\ p.todo = L.todo \ {post} /\ p.day = L.day
        /\ p.delivered = 0
    <3>1. L.left \in 0..UpdateLimit /\ L.left > 0 /\ UpdateLimit \in Nat
      BY <1>1, PublicationsAssumption DEF Proc
    <3>2. L.left - 1 \in 0..UpdateLimit
      BY <3>1
    <3>3. L.todo \ {post} \in SUBSET (Post \cup Note) /\ post \in Post \cup Note \cup {NoPost}
      BY <1>3
    <3> HIDE DEF L
    <3> QED
      BY <1>1, <3>2, <3>3 DEF Proc
  <2> HIDE DEF p
  <2>3. /\ TellsAt(channel'[s], post.kind, post.date, post.price)
        /\ \A t \in Signals : t # s => channel'[t] = channel[t]
    BY <1>1, <1>3, <1>10, Posted
  <2>4. ASSUME L' = p PROVE UpdatesOK'
    <3>1. \A n \in L.todo \ {post} :
             /\ n.signal \in Signals /\ n.signal # s
             /\ Due(n.signal, n.date)' /\ n.kind \in {"live", "ended"}
             /\ n.kind = "live" => ~TellsEnd(channel'[n.signal])
             /\ n.kind = "ended" => period'[n.signal] = "over"
      BY <1>1, <1>3, <1>4, <2>3 DEF UpdatesOK, Post, Due, s
    <3>2. /\ Due(post.signal, post.date)' /\ post.kind \in {"live", "ended"}
      BY <1>1, <1>3, <1>4 DEF UpdatesOK, Due
    <3>3. \A n, o \in L.todo : n.signal = o.signal => n = o
      BY <1>1, <1>4 DEF UpdatesOK
    <3> QED
      BY <2>2, <2>3, <2>4, <3>1, <3>2, <3>3 DEF UpdatesOK, UpdatePlaces, s
  <2>5. faults' \in 0..MaxFaults
    BY <1>1, <1>10 DEF TypeOK
  <2> QED
    BY <1>1, <1>3, <1>9, <2>1, <2>2, <2>4, <2>5
<1>11. CASE SendFails(s, m) /\ Finish(w)
  <2>1. proc' = [proc EXCEPT !["loop"] = Idle] /\ Idle \in Proc /\ Idle.at = "idle"
    BY <1>1, <1>11, IdleType DEF Finish
  <2>2. faults' \in 0..MaxFaults
    BY <1>1, <1>11, PublicationsAssumption DEF SendFails, Fault, TypeOK
  <2>3. L' = Idle => UpdatesOK'
    BY <2>1 DEF UpdatesOK, UpdatePlaces
  <2> QED
    BY <1>9, <2>1, <2>2, <2>3, IdleType
<1> QED
  BY <1>2, <1>10, <1>11 DEF s, m

\* What an update that is told has in hand.
LEMMA ToldHas ==
    ASSUME IInv, L.at \in UpdatePlaces
    PROVE  /\ L.post \in Post /\ L.post.signal \in Signals /\ L.post.date \in Days
           /\ L.post.price \in Quotes /\ L.todo \subseteq Post
           /\ rows[L.post.signal] \in Row /\ rows[L.post.signal].status = "active"
           /\ Due(L.post.signal, L.post.date) /\ L.post.kind \in {"live", "ended"}
           /\ TellsAt(channel[L.post.signal], L.post.kind, L.post.date, L.post.price)
<1>1. L.post \in Post /\ L.todo \subseteq Post
  BY LoopHas DEF IInv, PostPlaces, UpdatePlaces
<1>2. /\ Due(L.post.signal, L.post.date) /\ L.post.kind \in {"live", "ended"}
      /\ TellsAt(channel[L.post.signal], L.post.kind, L.post.date, L.post.price)
  BY DEF IInv, UpdatesOK
<1>3. L.post.signal \in Signals /\ L.post.date \in Days /\ L.post.price \in Quotes
  BY <1>1 DEF Post
<1>4. rows[L.post.signal].status = "active"
  BY <1>2 DEF Due
<1>5. rows[L.post.signal] \in Row
  BY <1>3, <1>4, RowType DEF IInv
<1> QED
  BY <1>1, <1>2, <1>3, <1>4, <1>5

LEMMA EchoUpdateInv ==
    ASSUME IInv, NEW w \in Workers, EchoUpdate(w)
    PROVE  IInv'
<1>1. /\ w = "loop" /\ proc["loop"] = L /\ L \in Proc /\ L.day \in Days /\ TypeOK /\ ProcsOK
      /\ L.at = "echo" /\ L.delivered = 0
      /\ UNCHANGED <<day, period, rows, favorites, channel, started, crashes, interrupted>>
  <2>1. proc[w].at = "echo"
    BY DEF EchoUpdate, At
  <2> QED
    BY <2>1, AtLoop DEF EchoUpdate
<1>2. L.at \in UpdatePlaces
  BY <1>1 DEF UpdatePlaces
<1> DEFINE post == L.post
           m == [kind |-> post.kind, date |-> post.date]
<1>3. /\ post \in Post /\ post.signal \in Signals /\ L.todo \subseteq Post
      /\ m \in [kind: Kinds, date: Days] /\ m = Dated(post)
  BY <1>2, ToldHas DEF Kinds, Dated
<1> HIDE DEF m
<1>4. ASSUME NEW p \in Proc, proc' = [proc EXCEPT !["loop"] = p], p.at = "keep",
             p.post = post, p.todo = L.todo, p.day = L.day,
             threads' = [threads EXCEPT ![post.signal] = @ \cup {m}]
                 \/ (threads' = threads /\ p.delivered = 0),
             faults' \in 0..MaxFaults
      PROVE  IInv'
  <2>1. /\ threads' \in [Signals -> SUBSET [kind: Kinds, date: Days]] /\ ThreadsGrow
        /\ p.delivered = 0 \/ m \in threads'[post.signal]
    BY <1>1, <1>3, <1>4, MirrorGrows, ThreadsUnchanged DEF TypeOK
  <2>2. ChannelGrows /\ StaysPublished /\ RowsKept
    BY <1>1, ChannelUnchanged, Unpublished, RowsUnchanged
  <2>3. L' = p /\ proc' \in [Workers -> Proc] /\ ProcsOK' /\ NotesOK'
    BY <1>1, <1>3, <1>4, <2>1, <2>2, LoopStep
  <2>4. LoopFree
    BY <1>1, <1>4, <2>3 DEF LoopFree, HeldPlaces, SentPlaces
  <2>5. HeldOK' /\ ClaimsOK' /\ FavoritesOK' /\ DatesOK' /\ RowsOK'
    BY <1>1, <2>2, <2>4, EndsOver, FreeStep
  <2>6. TypeOK'
    BY <1>1, <1>4, <2>1, <2>3 DEF TypeOK
  <2>7. UpdatesOK
    BY DEF IInv
  <2>8. UpdatesOK'
    BY <1>1, <1>4, <2>1, <2>3, <2>7 DEF UpdatesOK, UpdatePlaces, Due, m
  <2> QED
    BY <2>3, <2>5, <2>6, <2>8 DEF IInv
<1>5. (Fault => faults' \in 0..MaxFaults) /\ (faults' = faults => faults' \in 0..MaxFaults)
  BY <1>1, PublicationsAssumption DEF Fault, TypeOK
<1>6. CASE Mirror(post) /\ proc' = [proc EXCEPT ![w].at = "keep", ![w].delivered = 1]
  <2> DEFINE p == [L EXCEPT !.at = "keep", !.delivered = 1]
  <2>1. proc' = [proc EXCEPT !["loop"] = p]
    BY <1>1, <1>6
  <2>2. p \in Proc /\ p.at = "keep" /\ p.post = post /\ p.todo = L.todo /\ p.day = L.day
    BY <1>1 DEF Proc
  <2>3. threads' = [threads EXCEPT ![post.signal] = @ \cup {m}] /\ faults' = faults
    BY <1>3, <1>6 DEF Mirror, Shown
  <2> HIDE DEF p
  <2> QED
    BY <1>4, <1>5, <2>1, <2>2, <2>3
<1>7. CASE /\ GoTo(w, "keep") /\ (threads' = threads \/ Shown(post))
           /\ Fault \/ faults' = faults
  <2> DEFINE p == [L EXCEPT !.at = "keep"]
  <2>1. proc' = [proc EXCEPT !["loop"] = p]
    BY <1>1, <1>7 DEF GoTo
  <2>2. p \in Proc /\ p.at = "keep" /\ p.post = post /\ p.todo = L.todo /\ p.day = L.day
        /\ p.delivered = 0
    BY <1>1 DEF Proc
  <2>3. threads' = threads \/ threads' = [threads EXCEPT ![post.signal] = @ \cup {m}]
    BY <1>3, <1>7 DEF Shown
  <2> HIDE DEF p
  <2> QED
    BY <1>4, <1>5, <1>7, <2>1, <2>2, <2>3
<1> QED
  BY <1>1, <1>6, <1>7 DEF EchoUpdate, ThreadsFails

LEMMA SamePosts ==
    ASSUME NEW posts, NEW k, NEW d, NEW p, TellsAt(posts, k, d, p)
    PROVE  Tells(posts, k, d)
BY DEF Tells, TellsAt

\* A row that nothing happens to.
LEMMA RowStays ==
    ASSUME IInv, NEW t \in Signals, rows'[t] = rows[t], favorites'[t] = favorites[t],
           channel'[t] = channel[t], period'[t] = period[t]
    PROVE  RowOK(t)'
<1>1. RowOK(t)
  BY DEF IInv, RowsOK
<1> QED
  BY <1>1 DEF RowOK, Published, Exists

LEMMA KeepUpdateInv ==
    ASSUME IInv, NEW w \in Workers, KeepUpdate(w)
    PROVE  IInv'
<1> DEFINE post == L.post
           s == L.post.signal
           r == Reported(rows[s], post, L.delivered)
           f == IF post.kind = "ended" THEN FavoriteClosed(favorites[s], post.price)
                ELSE favorites[s]
           p == [L EXCEPT !.at = "tell", !.post = NoPost, !.delivered = 0]
<1>1. /\ w = "loop" /\ proc["loop"] = L /\ L \in Proc /\ L.day \in Days /\ TypeOK /\ ProcsOK
      /\ L.at = "keep"
      /\ UNCHANGED <<day, period, channel, threads, started, faults, crashes, interrupted>>
  <2>1. proc[w].at = "keep"
    BY DEF KeepUpdate, At
  <2> QED
    BY <2>1, AtLoop DEF KeepUpdate
<1>2. /\ post \in Post /\ s \in Signals /\ post.date \in Days /\ post.price \in Quotes
      /\ L.todo \subseteq Post /\ rows[s] \in Row /\ rows[s].status = "active"
      /\ post.kind \in {"live", "ended"}
      /\ TellsAt(channel[s], post.kind, post.date, post.price)
      /\ Tells(channel[s], post.kind, post.date)
  BY <1>1, ToldHas, SamePosts DEF UpdatePlaces
<1>3. favorites[s] \in [status: {"active"}, entry: Quotes] /\ favorites[s].status = "active"
  BY <1>1, <1>2, FavoriteType DEF IInv, FavoritesOK
<1>4. /\ rows' = [rows EXCEPT ![s] = r] /\ proc' = [proc EXCEPT !["loop"] = p]
      /\ favorites' = [favorites EXCEPT ![s] = f]
  <2>1. rows' = [rows EXCEPT ![s] = r] /\ proc' = [proc EXCEPT !["loop"] = p]
    BY <1>1 DEF KeepUpdate
  <2>2. favorites' = IF post.kind = "ended"
                     THEN [favorites EXCEPT ![s] = FavoriteClosed(@, post.price)] ELSE favorites
    BY <1>1 DEF KeepUpdate
  <2>3. [favorites EXCEPT ![s] = favorites[s]] = favorites
    BY <1>1, <1>2 DEF TypeOK
  <2> QED
    BY <2>1, <2>2, <2>3
<1>5. /\ r \in Row /\ r.update = post.date /\ r.date = rows[s].date /\ r.entry = rows[s].entry
      /\ r.message = rows[s].message
      /\ r.status = IF post.kind = "ended" THEN "closed" ELSE "active"
  BY <1>2 DEF Reported, Row
<1>6. /\ f \in Favorite /\ f.entry = favorites[s].entry
      /\ post.kind = "ended" => f.status = "closed" /\ f.exit = post.price
      /\ post.kind # "ended" => f.status = "active"
  BY <1>2, <1>3 DEF Favorite, FavoriteClosed, ClosedAt
<1>7. p \in Proc /\ p.at = "tell" /\ p.todo = L.todo /\ p.day = L.day /\ p.delivered = 0
  BY <1>1 DEF Proc
<1> HIDE DEF r, f, p
<1>8. /\ rows' \in [Signals -> Row \cup {NoRow}] /\ rows'[s] = r
      /\ \A t \in Signals : t # s => rows'[t] = rows[t]
  BY <1>1, <1>2, <1>4, <1>5 DEF TypeOK
<1>9. /\ favorites' \in [Signals -> Favorite \cup {NoFavorite}] /\ favorites'[s] = f
      /\ \A t \in Signals : t # s => favorites'[t] = favorites[t]
  BY <1>1, <1>2, <1>4, <1>6 DEF TypeOK
<1>10. ThreadsGrow /\ ChannelGrows /\ StaysPublished
  BY <1>1, <1>5, <1>8, ThreadsUnchanged, ChannelUnchanged DEF StaysPublished, Published
<1>11. L' = p /\ proc' \in [Workers -> Proc] /\ ProcsOK' /\ NotesOK'
  BY <1>1, <1>2, <1>4, <1>7, <1>10, LoopStep DEF PostPlaces, UpdatePlaces, HeldPlaces, SentPlaces
<1>12. TypeOK'
  BY <1>1, <1>8, <1>9, <1>11 DEF TypeOK
<1>13. UpdatesOK'
  <2>1. UpdatesOK
    BY DEF IInv
  <2>2. \A m \in L.todo : m.signal \in Signals /\ m.signal # s
    BY <1>1, <1>2, <2>1 DEF UpdatesOK, UpdatePlaces, Post
  <2>3. \A m \in L.todo : Due(m.signal, m.date)'
    BY <1>1, <1>8, <2>1, <2>2 DEF UpdatesOK, Due
  <2> QED
    BY <1>1, <1>7, <1>11, <2>1, <2>2, <2>3 DEF UpdatesOK, UpdatePlaces
<1>14. HeldOK'
  BY <1>7, <1>11 DEF HeldOK, HeldPlaces, SentPlaces
<1>15. ClaimsOK'
  <2>1. \A t \in Signals : rows'[t].status = "publishing" => rows[t].status = "publishing"
    BY <1>5, <1>8
  <2>2. ClaimsOK /\ L.at \notin HeldPlaces
    BY <1>1 DEF IInv, HeldPlaces, SentPlaces
  <2> QED
    BY <1>1, <1>7, <1>11, <2>1, <2>2 DEF ClaimsOK
<1>16. FavoritesOK'
  <2>1. FavoritesOK
    BY DEF IInv
  <2>2. ASSUME NEW t \in Signals, t # s
        PROVE  /\ rows'[t] = rows[t] /\ favorites'[t] = favorites[t]
               /\ ~Exists(t) /\ t \notin interrupted => favorites[t].status = "absent"
    BY <1>1, <1>8, <1>9, <2>1, <2>2 DEF FavoritesOK
  <2>3. rows'[s].status \in {"active", "closed"} /\ Exists(s)
    BY <1>2, <1>5, <1>8 DEF Exists
  <2>4. s \notin interrupted => favorites[s].entry = rows[s].entry
    BY <1>2, <2>1, <2>3 DEF FavoritesOK
  <2> QED
    BY <1>1, <1>2, <1>5, <1>6, <1>8, <1>9, <2>1, <2>2, <2>3, <2>4 DEF FavoritesOK, Exists
<1>17. DatesOK'
  <2>1. \A t \in Signals : (Exists(t)' <=> Exists(t)) /\ rows'[t].date = rows[t].date
    BY <1>2, <1>5, <1>8 DEF Exists
  <2> QED
    BY <1>1, <1>7, <1>11, <2>1 DEF IInv, DatesOK
<1>18. RowsOK'
  <2> SUFFICES ASSUME NEW t \in Signals PROVE RowOK(t)'
    BY DEF RowsOK
  <2>1. CASE t # s
    BY <1>1, <1>8, <1>9, <2>1, RowStays
  <2>2. CASE t = s
    <3>1. RowOK(s)
      BY <1>2 DEF IInv, RowsOK
    <3>2. post.date # 0
      BY <1>2, PublicationsAssumption DEF Days
    <3>3. /\ rows[s].message \in DOMAIN channel[s]
          /\ channel[s][rows[s].message] =
                [kind |-> "signal", date |-> rows[s].date, price |-> rows[s].entry]
      BY <1>2, <3>1 DEF RowOK, Published
    <3>4. (TellsEnd(channel[s]) => period[s] = "over") /\ period[s] # "unseen"
      BY <1>2, <3>1 DEF RowOK, Exists
    <3> QED
      BY <1>1, <1>2, <1>5, <1>6, <1>8, <1>9, <2>2, <3>2, <3>3, <3>4 DEF RowOK, Published, Exists
  <2> QED
    BY <2>1, <2>2
<1> QED
  BY <1>11, <1>12, <1>13, <1>14, <1>15, <1>16, <1>17, <1>18 DEF IInv

-----------------------------------------------------------------------------
(* The signal of the day *)

LEMMA SignalPostType ==
    ASSUME NEW s \in Signals, NEW d \in Days, NEW q \in Quotes
    PROVE  /\ SignalPost(s, d, q) \in Post /\ SignalPost(s, d, q).signal = s
           /\ SignalPost(s, d, q).kind = "signal"
           /\ SignalPost(s, d, q).date = d /\ SignalPost(s, d, q).price = q
BY DEF SignalPost, Post, Kinds

\* A draft is claimed.
LEMMA ClaimedInv ==
    ASSUME IInv, NEW s \in Signals, rows[s].status = "draft", rows' = Claimed(s),
           NEW p \in Proc, proc' = [proc EXCEPT !["loop"] = p],
           L.at \in {"work", "claim"}, p.at = "refresh", p.day = L.day, p.delivered = 0,
           p.post \in Post, p.post.signal = s,
           UNCHANGED <<day, period, favorites, channel, threads, started, faults, crashes,
                       interrupted>>
    PROVE  IInv'
<1> DEFINE r == [rows[s] EXCEPT !.status = "publishing"]
<1>1. rows' = [rows EXCEPT ![s] = r] /\ TypeOK /\ L.day \in Days /\ L.at \notin HeldPlaces
  BY LoopHas DEF Claimed, IInv, HeldPlaces, SentPlaces
<1>2. rows[s] \in Row
  BY RowType DEF IInv
<1>3. /\ r \in Row /\ r.status = "publishing" /\ r.date = rows[s].date /\ r.entry = rows[s].entry
      /\ r.update = rows[s].update /\ r.mirrored = rows[s].mirrored
  BY <1>2 DEF Row
<1> HIDE DEF r
<1>4. /\ rows' \in [Signals -> Row \cup {NoRow}] /\ rows'[s] = r
      /\ \A t \in Signals : t # s => rows'[t] = rows[t]
  BY <1>1, <1>3 DEF TypeOK
<1>5. ThreadsGrow /\ ChannelGrows /\ StaysPublished
  BY <1>3, <1>4, ThreadsUnchanged, ChannelUnchanged DEF StaysPublished, Published
<1>6. L' = p /\ proc' \in [Workers -> Proc] /\ ProcsOK' /\ NotesOK'
  BY <1>1, <1>5, LoopStep
<1>7. TypeOK'
  BY <1>1, <1>4, <1>6 DEF TypeOK
<1>8. UpdatesOK'
  BY <1>6 DEF UpdatesOK, UpdatePlaces
<1>9. HeldOK'
  BY <1>3, <1>4, <1>6 DEF HeldOK, HeldPlaces, SentPlaces
<1>10. ClaimsOK'
  <2>1. \A t \in Signals : t # s /\ rows'[t].status = "publishing" => t \in interrupted
    BY <1>1, <1>4 DEF IInv, ClaimsOK
  <2> QED
    BY <1>6, <2>1 DEF ClaimsOK, HeldPlaces
<1>11. FavoritesOK'
  <2>1. FavoritesOK /\ L.at # "insert"
    BY DEF IInv
  <2>2. Exists(s)
    BY DEF Exists
  <2> QED
    BY <1>3, <1>4, <2>1, <2>2 DEF FavoritesOK, Exists
<1>12. DatesOK'
  <2>1. \A t \in Signals : (Exists(t)' <=> Exists(t)) /\ rows'[t].date = rows[t].date
    BY <1>3, <1>4 DEF Exists
  <2> QED
    BY <1>6, <2>1 DEF IInv, DatesOK
<1>13. RowsOK'
  <2> SUFFICES ASSUME NEW t \in Signals PROVE RowOK(t)'
    BY DEF RowsOK
  <2>1. CASE t # s
    BY <1>4, <2>1, RowStays
  <2>2. CASE t = s
    <3>1. RowOK(s)
      BY DEF IInv, RowsOK
    <3> QED
      BY <1>3, <1>4, <2>2, <3>1 DEF RowOK, Published, Exists
  <2> QED
    BY <2>1, <2>2
<1> QED
  BY <1>6, <1>7, <1>8, <1>9, <1>10, <1>11, <1>12, <1>13 DEF IInv

LEMMA ClaimOldestInv ==
    ASSUME IInv, NEW w \in Workers, ClaimOldest(w)
    PROVE  IInv'
<1>1. /\ w = "loop" /\ proc["loop"] = L /\ L \in Proc /\ L.day \in Days /\ TypeOK
      /\ L.at = "work" /\ L.delivered = 0
      /\ UNCHANGED <<day, period, favorites, channel, threads, started, faults, crashes,
                     interrupted>>
  <2>1. proc[w].at = "work"
    BY DEF ClaimOldest, At
  <2> QED
    BY <2>1, AtLoop DEF ClaimOldest
<1>2. PICK s \in Signals :
          /\ OldestDraft(s) /\ rows' = Claimed(s)
          /\ proc' = [proc EXCEPT ![w].at = "refresh",
                                  ![w].post = SignalPost(s, rows[s].date, rows[s].entry)]
  BY DEF ClaimOldest
<1>3. rows[s].status = "draft" /\ rows[s].date \in Days /\ rows[s].entry \in Quotes
  <2>1. rows[s].status = "draft"
    BY <1>2 DEF OldestDraft, Drafts
  <2>2. rows[s] \in Row
    BY <1>1, <2>1, RowType
  <2> QED
    BY <2>1, <2>2 DEF Row
<1> DEFINE post == SignalPost(s, rows[s].date, rows[s].entry)
           p == [L EXCEPT !.at = "refresh", !.post = post]
<1>4. post \in Post /\ post.signal = s
  BY <1>3, SignalPostType
<1>5. proc' = [proc EXCEPT !["loop"] = p]
  BY <1>1, <1>2
<1> HIDE DEF post
<1>6. p \in Proc /\ p.at = "refresh" /\ p.day = L.day /\ p.delivered = 0 /\ p.post = post
  BY <1>1, <1>4 DEF Proc
<1> HIDE DEF p
<1> QED
  BY <1>1, <1>2, <1>3, <1>4, <1>5, <1>6, ClaimedInv

LEMMA ClaimInv ==
    ASSUME IInv, NEW w \in Workers, Claim(w)
    PROVE  IInv'
<1>1. /\ w = "loop" /\ proc["loop"] = L /\ L \in Proc /\ L.day \in Days /\ TypeOK /\ ProcsOK
      /\ L.at = "claim" /\ proc[w].at = "claim" /\ L.delivered = 0
      /\ UNCHANGED <<day, period, favorites, channel, threads, started, faults, crashes,
                     interrupted>>
  <2>1. proc[w].at = "claim"
    BY DEF Claim, At
  <2> QED
    BY <2>1, AtLoop DEF Claim
<1> DEFINE s == L.post.signal
           p == [L EXCEPT !.at = "refresh"]
<1>2. L.post \in Post /\ s \in Signals
  BY <1>1, LoopHas DEF PostPlaces, Post
<1>3. CASE rows[s].status = "draft"
  <2>1. rows' = Claimed(s) /\ proc' = [proc EXCEPT !["loop"] = p]
    BY <1>1, <1>3 DEF Claim, GoTo
  <2>2. p \in Proc /\ p.at = "refresh" /\ p.day = L.day /\ p.delivered = 0 /\ p.post = L.post
    BY <1>1 DEF Proc
  <2> HIDE DEF p
  <2> QED
    BY <1>1, <1>2, <1>3, <2>1, <2>2, ClaimedInv
<1>4. CASE rows[s].status # "draft"
  <2>1. Finish(w) /\ rows' = rows
    BY <1>1, <1>4 DEF Claim
  <2>2. proc[w].at \notin HeldPlaces \cup {"insert"}
    BY <1>1 DEF HeldPlaces, SentPlaces
  <2> QED
    BY <1>1, <2>1, <2>2, FinishInv
<1> QED
  BY <1>3, <1>4

LEMMA SelectCandidateInv ==
    ASSUME IInv, NEW w \in Workers, SelectCandidate(w)
    PROVE  IInv'
<1>1. /\ w = "loop" /\ proc["loop"] = L /\ L \in Proc /\ L.day \in Days /\ TypeOK
      /\ L.at = "work" /\ proc[w].at = "work" /\ L.delivered = 0 /\ Drafts = {}
      /\ UNCHANGED <<day, period, rows, favorites, channel, threads, started, faults, crashes,
                     interrupted>>
  <2>1. proc[w].at = "work"
    BY DEF SelectCandidate, At
  <2> QED
    BY <2>1, AtLoop DEF SelectCandidate
<1>2. CASE Finish(w)
  <2>1. proc[w].at \notin HeldPlaces \cup {"insert"}
    BY <1>1 DEF HeldPlaces, SentPlaces
  <2> QED
    BY <1>1, <1>2, <2>1, FinishInv
<1> DEFINE d == L.day
<1>3. ASSUME NEW s \in Signals, NEW q \in Quotes, ~AlreadyPublished(d), period[s] = "live",
             proc' = [proc EXCEPT ![w].at = "favorite", ![w].post = SignalPost(s, d, q)]
      PROVE  IInv'
  <2> DEFINE post == SignalPost(s, d, q)
             p == [L EXCEPT !.at = "favorite", !.post = post]
  <2>1. post \in Post /\ post.signal = s /\ post.date = d
    BY <1>1, SignalPostType
  <2>2. proc' = [proc EXCEPT !["loop"] = p]
    BY <1>1, <1>3
  <2> HIDE DEF post
  <2>3. p \in Proc /\ p.at = "favorite" /\ p.day = L.day /\ p.delivered = 0 /\ p.post = post
    BY <1>1, <2>1 DEF Proc
  <2> HIDE DEF p
  <2>4. ThreadsGrow /\ ChannelGrows /\ StaysPublished
    BY <1>1, ThreadsUnchanged, ChannelUnchanged, Unpublished
  <2>5. L' = p /\ proc' \in [Workers -> Proc] /\ ProcsOK' /\ NotesOK'
    BY <1>1, <2>1, <2>2, <2>3, <2>4, LoopStep
  <2>6. TypeOK'
    BY <1>1, <2>5 DEF TypeOK
  <2>7. UpdatesOK' /\ HeldOK'
    BY <2>3, <2>5 DEF UpdatesOK, UpdatePlaces, HeldOK, HeldPlaces, SentPlaces
  <2>8. \A t \in Signals : rows[t].status = "publishing" => t \in interrupted
    BY <1>1 DEF IInv, ClaimsOK, HeldPlaces, SentPlaces
  <2>9. \A t \in Signals : rows[t].status # "draft"
    BY <1>1 DEF Drafts
  <2>10. ClaimsOK'
    BY <1>1, <1>3, <2>1, <2>3, <2>5, <2>8, <2>9 DEF ClaimsOK
  <2>11. FavoritesOK'
    BY <1>1, <2>3, <2>5 DEF IInv, FavoritesOK, Exists
  <2>12. \A t \in Signals : Exists(t) /\ rows[t].date = d => t \in interrupted
    <3> SUFFICES ASSUME NEW t \in Signals, Exists(t), rows[t].date = d PROVE t \in interrupted
      OBVIOUS
    <3>1. rows[t] \in Row
      BY <1>1, RowType DEF Exists
    <3>2. ~Published(t)
      BY <1>3 DEF AlreadyPublished
    <3> QED
      BY <2>8, <2>9, <3>1, <3>2 DEF Row, Published
  <2>13. DatesOK'
    BY <1>1, <2>1, <2>3, <2>5, <2>12 DEF IInv, DatesOK, Exists
  <2>14. RowsOK'
    BY <1>1, RowStays DEF RowsOK
  <2> QED
    BY <2>5, <2>6, <2>7, <2>10, <2>11, <2>13, <2>14 DEF IInv
<1> QED
  BY <1>1, <1>2, <1>3 DEF SelectCandidate

LEMMA MakeFavoriteInv ==
    ASSUME IInv, NEW w \in Workers, MakeFavorite(w)
    PROVE  IInv'
<1> DEFINE s == L.post.signal
           f == IF favorites[s].status = "absent" THEN Opened(L.post.price) ELSE favorites[s]
           p == [L EXCEPT !.at = "insert"]
<1>1. /\ w = "loop" /\ proc["loop"] = L /\ L \in Proc /\ L.day \in Days /\ TypeOK /\ ProcsOK
      /\ L.at = "favorite" /\ L.delivered = 0
      /\ favorites' = [favorites EXCEPT ![s] = f] /\ proc' = [proc EXCEPT !["loop"] = p]
      /\ UNCHANGED <<day, period, rows, channel, threads, started, faults, crashes, interrupted>>
  <2>1. proc[w].at = "favorite"
    BY DEF MakeFavorite, At
  <2> QED
    BY <2>1, AtLoop DEF MakeFavorite, GoTo
<1>2. L.post \in Post /\ s \in Signals /\ L.post.price \in Quotes
  BY <1>1, LoopHas DEF PostPlaces, Post
<1>3. /\ f \in Favorite /\ f.status # "absent"
      /\ favorites[s].status # "absent" => f = favorites[s]
      /\ favorites[s].status = "absent" => f.status = "active" /\ f.entry = L.post.price
  <2>1. favorites[s] \in Favorite \cup {NoFavorite}
    BY <1>1, <1>2 DEF TypeOK
  <2> QED
    BY <1>2, <2>1 DEF Opened, Favorite, NoFavorite
<1>4. p \in Proc /\ p.at = "insert" /\ p.day = L.day /\ p.delivered = 0 /\ p.post = L.post
  BY <1>1 DEF Proc
<1> HIDE DEF f, p
<1>5. /\ favorites' \in [Signals -> Favorite \cup {NoFavorite}] /\ favorites'[s] = f
      /\ \A t \in Signals : t # s => favorites'[t] = favorites[t]
  BY <1>1, <1>2, <1>3 DEF TypeOK
<1>6. ThreadsGrow /\ ChannelGrows /\ StaysPublished
  BY <1>1, ThreadsUnchanged, ChannelUnchanged, Unpublished
<1>7. L' = p /\ proc' \in [Workers -> Proc] /\ ProcsOK' /\ NotesOK'
  BY <1>1, <1>2, <1>4, <1>6, LoopStep
<1>8. TypeOK'
  BY <1>1, <1>5, <1>7 DEF TypeOK
<1>9. UpdatesOK' /\ HeldOK'
  BY <1>4, <1>7 DEF UpdatesOK, UpdatePlaces, HeldOK, HeldPlaces, SentPlaces
<1>10. ClaimsOK'
  BY <1>1, <1>3, <1>4, <1>5, <1>7 DEF IInv, ClaimsOK, HeldPlaces, SentPlaces
<1>11. FavoritesOK'
  <2>1. FavoritesOK
    BY DEF IInv
  <2>2. favorites[s].status = "absent" => ~Exists(s)
    <3>1. Exists(s) => rows[s].status \in {"draft", "publishing", "active", "closed"}
      BY <1>1, <1>2, RowType DEF Row, Exists
    <3> QED
      BY <1>2, <2>1, <3>1 DEF FavoritesOK
  <2>3. ~Exists(s) => rows[s].status = "absent"
    BY DEF Exists
  <2>4. \A t \in Signals : t # s /\ ~Exists(t) /\ t \notin interrupted => favorites[t].status = "absent"
    BY <1>1, <2>1 DEF FavoritesOK
  <2> QED
    BY <1>1, <1>2, <1>3, <1>4, <1>5, <1>7, <2>1, <2>2, <2>3, <2>4 DEF FavoritesOK, Exists
<1>12. DatesOK'
  BY <1>1, <1>4, <1>7 DEF IInv, DatesOK, Exists
<1>13. RowsOK'
  <2> SUFFICES ASSUME NEW t \in Signals PROVE RowOK(t)'
    BY DEF RowsOK
  <2>1. CASE favorites'[t] = favorites[t]
    BY <1>1, <2>1, RowStays
  <2>2. CASE t = s /\ favorites'[s].status = "active"
    <3>1. RowOK(s)
      BY <1>2 DEF IInv, RowsOK
    <3> QED
      BY <1>1, <2>2, <3>1 DEF RowOK, Published, Exists
  <2> QED
    BY <1>3, <1>5, <2>1, <2>2
<1> QED
  BY <1>7, <1>8, <1>9, <1>10, <1>11, <1>12, <1>13 DEF IInv

LEMMA InsertDraftInv ==
    ASSUME IInv, NEW w \in Workers, InsertDraft(w)
    PROVE  IInv'
<1> DEFINE s == L.post.signal
           r == IF Exists(s) THEN rows[s] ELSE Draft(L.post.date, L.post.price)
           p == [L EXCEPT !.at = "claim"]
<1>1. /\ w = "loop" /\ proc["loop"] = L /\ L \in Proc /\ L.day \in Days /\ TypeOK /\ ProcsOK
      /\ L.at = "insert" /\ L.delivered = 0 /\ proc' = [proc EXCEPT !["loop"] = p]
      /\ rows' = IF Exists(s) THEN rows
                 ELSE [rows EXCEPT ![s] = Draft(L.post.date, L.post.price)]
      /\ UNCHANGED <<day, period, favorites, channel, threads, started, faults, crashes,
                     interrupted>>
  <2>1. proc[w].at = "insert"
    BY DEF InsertDraft, At
  <2> QED
    BY <2>1, AtLoop DEF InsertDraft, GoTo
<1>2. L.post \in Post /\ s \in Signals /\ L.post.price \in Quotes /\ L.post.date \in Days
  BY <1>1, LoopHas DEF PostPlaces, Post
<1>3. /\ Exists(s) => r = rows[s]
      /\ ~Exists(s) => /\ r \in Row /\ r.status = "draft" /\ r.date = L.post.date
                       /\ r.entry = L.post.price /\ r.update = 0 /\ r.mirrored = 0
  BY <1>2 DEF Draft, Row
<1>4. p \in Proc /\ p.at = "claim" /\ p.day = L.day /\ p.delivered = 0 /\ p.post = L.post
  BY <1>1 DEF Proc
<1>5. /\ rows' \in [Signals -> Row \cup {NoRow}] /\ rows'[s] = r
      /\ \A t \in Signals : t # s => rows'[t] = rows[t]
  BY <1>1, <1>2, <1>3 DEF TypeOK
<1> HIDE DEF r, p
<1>6. ThreadsGrow /\ ChannelGrows /\ StaysPublished
  <2>1. \A t \in Signals : Exists(t) => rows'[t] = rows[t]
    BY <1>3, <1>5
  <2> QED
    BY <1>1, <2>1, ThreadsUnchanged, ChannelUnchanged DEF StaysPublished, Published, Exists
<1>7. L' = p /\ proc' \in [Workers -> Proc] /\ ProcsOK' /\ NotesOK'
  BY <1>1, <1>2, <1>4, <1>6, LoopStep
<1>8. TypeOK'
  BY <1>1, <1>5, <1>7 DEF TypeOK
<1>9. UpdatesOK' /\ HeldOK'
  BY <1>4, <1>7 DEF UpdatesOK, UpdatePlaces, HeldOK, HeldPlaces, SentPlaces
<1>10. ClaimsOK'
  <2>1. \A t \in Signals : rows'[t].status = "publishing" => rows[t].status = "publishing"
    BY <1>3, <1>5
  <2>2. ClaimsOK /\ L.at \notin HeldPlaces
    BY <1>1 DEF IInv, HeldPlaces, SentPlaces
  <2> QED
    BY <1>1, <1>4, <1>7, <2>1, <2>2 DEF ClaimsOK
<1>11. FavoritesOK'
  <2>1. FavoritesOK /\ favorites[s].status # "absent"
    BY <1>1 DEF IInv, ClaimsOK
  <2>2. favorites[s].status \in {"absent", "active", "closed"}
    BY <1>1, <1>2, FavoriteType
  <2>3. ASSUME NEW t \in Signals, t # s
        PROVE  /\ rows'[t] = rows[t]
               /\ ~Exists(t) /\ t \notin interrupted => favorites[t].status = "absent"
    BY <1>1, <1>5, <2>1, <2>3 DEF FavoritesOK
  <2>4. /\ rows'[s].status # "absent"
        /\ rows'[s].status \in {"draft", "publishing", "active"} => favorites[s].status = "active"
        /\ rows'[s].status = "closed" <=> favorites[s].status = "closed"
        /\ s \notin interrupted => favorites[s].entry = rows'[s].entry
    <3>1. CASE Exists(s)
      BY <1>2, <1>3, <1>5, <2>1, <3>1 DEF FavoritesOK, Exists
    <3>2. CASE ~Exists(s)
      BY <1>1, <1>2, <1>3, <1>5, <2>1, <2>2, <3>2 DEF FavoritesOK, Exists
    <3> QED
      BY <3>1, <3>2
  <2> QED
    BY <1>1, <2>1, <2>3, <2>4 DEF FavoritesOK, Exists
<1>12. DatesOK'
  <2>1. DatesOK
    BY DEF IInv
  <2>2. CASE Exists(s)
    <3>1. rows' = rows
      BY <1>1, <2>2
    <3> QED
      BY <1>1, <1>4, <1>7, <2>1, <3>1 DEF DatesOK, Exists
  <2>3. CASE ~Exists(s)
    <3>1. \A t \in Signals : Exists(t) /\ rows[t].date = L.post.date => t \in interrupted
      BY <1>1, <2>1, <2>3 DEF DatesOK
    <3>2. \A t \in Signals : t # s => (Exists(t)' <=> Exists(t)) /\ rows'[t] = rows[t]
      BY <1>5 DEF Exists
    <3>3. rows'[s].date = L.post.date
      BY <1>3, <1>5, <2>3
    <3> QED
      BY <1>1, <1>4, <1>7, <2>1, <3>1, <3>2, <3>3 DEF DatesOK
  <2> QED
    BY <2>2, <2>3
<1>13. RowsOK'
  <2> SUFFICES ASSUME NEW t \in Signals PROVE RowOK(t)'
    BY DEF RowsOK
  <2>1. CASE rows'[t] = rows[t]
    BY <1>1, <2>1, RowStays
  <2>2. CASE t = s /\ ~Exists(s)
    <3>1. RowOK(s) /\ favorites[s].status # "closed" /\ period[s] # "unseen"
      BY <1>1, <1>2, <2>2 DEF IInv, RowsOK, FavoritesOK, ClaimsOK, Exists
    <3> QED
      BY <1>1, <1>2, <1>3, <1>5, <2>2, <3>1 DEF RowOK, Published
  <2> QED
    BY <1>3, <1>5, <2>1, <2>2
<1> QED
  BY <1>7, <1>8, <1>9, <1>10, <1>11, <1>12, <1>13 DEF IInv

\* What the loop has in hand while it publishes.
LEMMA HeldHas ==
    ASSUME IInv, L.at \in HeldPlaces
    PROVE  /\ L.post \in Post /\ L.post.signal \in Signals /\ L.post.date \in Days
           /\ L.post.price \in Quotes
           /\ rows[L.post.signal] \in Row /\ rows[L.post.signal].status = "publishing"
           /\ rows[L.post.signal].update = 0 /\ rows[L.post.signal].mirrored = 0
           /\ favorites[L.post.signal] \in [status: {"active"}, entry: Quotes]
           /\ L.post.signal \notin interrupted =>
                  favorites[L.post.signal].entry = rows[L.post.signal].entry
<1>1. L.post \in Post
  BY LoopHas DEF IInv, PostPlaces
<1>2. L.post.signal \in Signals /\ L.post.date \in Days /\ L.post.price \in Quotes
  BY <1>1 DEF Post
<1>3. rows[L.post.signal].status = "publishing"
  BY DEF IInv, HeldOK
<1>4. rows[L.post.signal] \in Row
  BY <1>2, <1>3, RowType DEF IInv
<1>5. rows[L.post.signal].update = 0 /\ rows[L.post.signal].mirrored = 0
  BY <1>2, <1>3 DEF IInv, RowsOK, RowOK
<1>6. /\ favorites[L.post.signal].status = "active"
      /\ L.post.signal \notin interrupted =>
             favorites[L.post.signal].entry = rows[L.post.signal].entry
  BY <1>2, <1>3 DEF IInv, FavoritesOK, Exists
<1>7. favorites[L.post.signal] \in [status: {"active"}, entry: Quotes]
  BY <1>2, <1>6, FavoriteType DEF IInv
<1> QED
  BY <1>1, <1>2, <1>3, <1>4, <1>5, <1>6, <1>7

\* A step of a publishing: the row stays claimed, is a draft again or is published.
HeldChange(s, r, f, p) ==
    /\ L.at \in HeldPlaces /\ L.post.signal = s
    /\ rows' = [rows EXCEPT ![s] = r]
    /\ favorites' = [favorites EXCEPT ![s] = f]
    /\ proc' = [proc EXCEPT !["loop"] = p]
    /\ r.date = rows[s].date /\ r.update = 0 /\ r.mirrored = 0
    /\ s \notin interrupted => f.entry = r.entry
    /\ \/ /\ r.status = "publishing" /\ p.at \in HeldPlaces
          /\ p.post \in Post /\ p.post.signal = s
       \/ r.status = "draft" /\ p.at = "idle"
       \/ /\ r.status = "active" /\ p.at = "idle"
          /\ r.message \in DOMAIN channel'[s]
          /\ channel'[s][r.message] = [kind |-> "signal", date |-> r.date, price |-> r.entry]
    /\ p.at # "idle" => p.day \in Days
    /\ p.delivered = 0 \/ p.at = "record"
    /\ L' = p => HeldOK'
    /\ channel' \in [Signals -> Seq(Message)] /\ ChannelGrows /\ ThreadsGrow
    /\ \A t \in Signals : t # s => channel'[t] = channel[t]
    /\ TellsEnd(channel'[s]) => TellsEnd(channel[s])
    /\ threads' \in [Signals -> SUBSET [kind: Kinds, date: Days]]
    /\ faults' \in 0..MaxFaults
    /\ UNCHANGED <<day, period, started, crashes, interrupted>>

LEMMA HeldStep ==
    ASSUME IInv, NEW s \in Signals, NEW r \in Row,
           NEW f \in [status: {"active"}, entry: Quotes], NEW p \in Proc,
           HeldChange(s, r, f, p)
    PROVE  IInv'
<1> USE DEF HeldChange
<1>1. /\ TypeOK /\ rows[s].status = "publishing" /\ r.status \in {"publishing", "draft", "active"}
      /\ p.at \in HeldPlaces \cup {"idle"}
  BY HeldHas DEF IInv
<1>2. /\ rows' \in [Signals -> Row \cup {NoRow}] /\ rows'[s] = r
      /\ \A t \in Signals : t # s => rows'[t] = rows[t]
  BY <1>1 DEF TypeOK
<1>3. /\ favorites' \in [Signals -> Favorite \cup {NoFavorite}] /\ favorites'[s] = f
      /\ \A t \in Signals : t # s => favorites'[t] = favorites[t]
  BY <1>1 DEF TypeOK, Favorite
<1>4. StaysPublished
  BY <1>1, <1>2 DEF StaysPublished, Published
<1>5. L' = p /\ proc' \in [Workers -> Proc] /\ ProcsOK' /\ NotesOK'
  BY <1>1, <1>4, LoopStep DEF PostPlaces, HeldPlaces, SentPlaces, UpdatePlaces
<1>6. TypeOK'
  BY <1>1, <1>2, <1>3, <1>5 DEF TypeOK
<1>7. UpdatesOK'
  BY <1>1, <1>5 DEF UpdatesOK, HeldPlaces, SentPlaces, UpdatePlaces
<1>8. L.at \notin {"favorite", "insert"} /\ p.at \notin {"favorite", "insert"}
  BY <1>1 DEF HeldPlaces, SentPlaces
<1>9. ClaimsOK'
  <2>1. \A t \in Signals : t # s /\ rows'[t].status = "publishing" => t \in interrupted
    BY <1>2 DEF IInv, ClaimsOK
  <2>2. r.status = "publishing" => p.at \in HeldPlaces /\ p.post.signal = s
    OBVIOUS
  <2> QED
    BY <1>2, <1>5, <1>8, <2>1, <2>2 DEF ClaimsOK
<1>10. FavoritesOK'
  <2>1. FavoritesOK
    BY DEF IInv
  <2>2. ASSUME NEW t \in Signals, t # s
        PROVE  /\ rows'[t] = rows[t] /\ favorites'[t] = favorites[t]
               /\ ~Exists(t) /\ t \notin interrupted => favorites[t].status = "absent"
    BY <1>2, <1>3, <1>8, <2>1, <2>2 DEF FavoritesOK
  <2>3. /\ rows'[s].status \in {"publishing", "draft", "active"} /\ favorites'[s].status = "active"
        /\ s \notin interrupted => favorites'[s].entry = rows'[s].entry
    BY <1>1, <1>2, <1>3
  <2> QED
    BY <2>1, <2>2, <2>3 DEF FavoritesOK, Exists
<1>11. DatesOK'
  <2>1. \A t \in Signals : (Exists(t)' <=> Exists(t)) /\ rows'[t].date = rows[t].date
    BY <1>1, <1>2 DEF Exists
  <2> QED
    BY <1>5, <1>8, <2>1 DEF IInv, DatesOK
<1>12. RowsOK'
  <2> SUFFICES ASSUME NEW t \in Signals PROVE RowOK(t)'
    BY DEF RowsOK
  <2>1. CASE t # s
    BY <1>2, <1>3, <2>1, RowStays
  <2>2. CASE t = s
    <3>1. (TellsEnd(channel[s]) => period[s] = "over") /\ period[s] # "unseen"
      BY <1>1 DEF IInv, RowsOK, RowOK, Exists
    <3> QED
      BY <1>1, <1>2, <1>3, <2>2, <3>1 DEF RowOK, Published, Exists
  <2> QED
    BY <2>1, <2>2
<1> QED
  BY <1>5, <1>6, <1>7, <1>9, <1>10, <1>11, <1>12 DEF IInv

LEMMA PublishingAt ==
    ASSUME IInv, NEW w \in Workers, proc[w].at \in HeldPlaces
    PROVE  /\ w = "loop" /\ proc["loop"] = L /\ L \in Proc /\ L.day \in Days
           /\ L.delivered = 0 \/ L.at = "record"
           /\ TypeOK /\ L.at = proc[w].at /\ L.at \in HeldPlaces
<1>1. proc[w].at \notin {"idle", "card", "saveCard", "replies", "reply", "saveReply"}
      /\ proc[w].at # "keep"
  BY DEF HeldPlaces, SentPlaces
<1> QED
  BY <1>1, AtLoop

LEMMA RefreshInv ==
    ASSUME IInv, NEW w \in Workers, Refresh(w)
    PROVE  IInv'
<1>1. /\ w = "loop" /\ proc["loop"] = L /\ L \in Proc /\ L.day \in Days /\ TypeOK
      /\ L.at = "refresh" /\ L.at \in HeldPlaces /\ L.delivered = 0
      /\ UNCHANGED <<day, period, channel, threads, started, faults, crashes, interrupted>>
  <2>1. proc[w].at = "refresh" /\ proc[w].at \in HeldPlaces
    BY DEF Refresh, At, HeldPlaces
  <2> QED
    BY <2>1, PublishingAt DEF Refresh
<1> DEFINE s == proc[w].post.signal
<1>2. PICK q \in Quotes \cup {NoQuote} :
        LET row == Refreshed(rows[s], q)
        IN /\ rows' = [rows EXCEPT ![s] = row]
           /\ favorites' = [favorites EXCEPT ![s] = Anchored(@, q)]
           /\ proc' = [proc EXCEPT ![w].at = "send", ![w].post = SignalPost(s, row.date, row.entry)]
  BY DEF Refresh
<1> DEFINE r == Refreshed(rows[s], q)
           f == Anchored(favorites[s], q)
           post == SignalPost(s, r.date, r.entry)
           p == [L EXCEPT !.at = "send", !.post = post]
<1>3. /\ s \in Signals /\ s = L.post.signal
      /\ rows[s] \in Row /\ rows[s].status = "publishing"
      /\ rows[s].update = 0 /\ rows[s].mirrored = 0
      /\ favorites[s] \in [status: {"active"}, entry: Quotes]
      /\ s \notin interrupted => favorites[s].entry = rows[s].entry
  BY <1>1, HeldHas
<1>4. /\ rows' = [rows EXCEPT ![s] = r] /\ favorites' = [favorites EXCEPT ![s] = f]
      /\ proc' = [proc EXCEPT !["loop"] = p]
  BY <1>1, <1>2
<1> HIDE DEF s
<1>5. /\ r \in Row /\ r.status = "publishing" /\ r.date = rows[s].date /\ r.date \in Days
      /\ r.update = 0 /\ r.mirrored = 0 /\ r.entry \in Quotes
      /\ r.entry = IF q # NoQuote THEN q ELSE rows[s].entry
  BY <1>2, <1>3 DEF Refreshed, Row
<1>6. /\ f \in [status: {"active"}, entry: Quotes]
      /\ f.entry = IF q # NoQuote THEN q ELSE favorites[s].entry
  BY <1>2, <1>3 DEF Anchored, Opened
<1> HIDE DEF r, f
<1>7. post \in Post /\ post.signal = s /\ post.kind = "signal" /\ post.date = r.date
      /\ post.price = r.entry
  BY <1>3, <1>5, SignalPostType
<1> HIDE DEF post
<1>8. p \in Proc /\ p.at = "send" /\ p.day = L.day /\ p.delivered = 0 /\ p.post = post
  BY <1>1, <1>7 DEF Proc
<1> HIDE DEF p
<1>9. rows'[s] = r
  BY <1>1, <1>3, <1>4 DEF TypeOK
<1>10. L' = p => HeldOK'
  BY <1>5, <1>7, <1>8, <1>9 DEF HeldOK, HeldPlaces, SentPlaces
<1>11. ThreadsGrow /\ ChannelGrows
  BY <1>1, ThreadsUnchanged, ChannelUnchanged
<1>12. p.at \in HeldPlaces
  BY <1>8 DEF HeldPlaces
<1>13. /\ channel' \in [Signals -> Seq(Message)] /\ faults' \in 0..MaxFaults
       /\ threads' \in [Signals -> SUBSET [kind: Kinds, date: Days]]
  BY <1>1 DEF TypeOK
<1>14. s \notin interrupted => f.entry = r.entry
  BY <1>3, <1>5, <1>6
<1> QED
  <2>1. HeldChange(s, r, f, p)
    BY <1>1, <1>3, <1>4, <1>5, <1>7, <1>8, <1>10, <1>11, <1>12, <1>13, <1>14 DEF HeldChange
  <2> QED
    BY <1>3, <1>5, <1>6, <1>8, <2>1, HeldStep

LEMMA SendInv ==
    ASSUME IInv, NEW w \in Workers, Send(w)
    PROVE  IInv'
<1> DEFINE s == proc[w].post.signal
           m == MessageOf(proc[w].post)
           f == favorites[s]
<1>1. /\ w = "loop" /\ proc["loop"] = L /\ L \in Proc /\ L.day \in Days /\ TypeOK
      /\ L.at = "send" /\ L.at \in HeldPlaces /\ L.delivered = 0
      /\ UNCHANGED <<day, period, favorites, threads, started, crashes, interrupted>>
  <2>1. proc[w].at = "send" /\ proc[w].at \in HeldPlaces
    BY DEF Send, At, HeldPlaces
  <2> QED
    BY <2>1, PublishingAt DEF Send
<1>2. /\ s \in Signals /\ s = L.post.signal /\ L.post \in Post
      /\ rows[s] \in Row /\ rows[s].status = "publishing"
      /\ rows[s].update = 0 /\ rows[s].mirrored = 0
      /\ f \in [status: {"active"}, entry: Quotes]
      /\ s \notin interrupted => f.entry = rows[s].entry
      /\ favorites' = [favorites EXCEPT ![s] = f]
  BY <1>1, HeldHas DEF TypeOK
<1>3. /\ L.post.kind = "signal" /\ L.post.date = rows[s].date /\ L.post.price = rows[s].entry
  BY <1>1, <1>2 DEF IInv, HeldOK
<1>4. m = MessageOf(L.post) /\ m \in Message /\ m.kind = "signal"
  BY <1>1, <1>2, <1>3 DEF MessageOf, Post, Message
<1>5. \/ /\ AppendTo(s, m)
         /\ proc' = [proc EXCEPT ![w].at = "sendCard", ![w].message = Len(channel[s]) + 1]
         /\ UNCHANGED <<rows, faults>>
      \/ /\ SendFails(s, m)
         /\ rows' = [rows EXCEPT ![s] = Returned(@)]
         /\ Finish(w)
  BY DEF Send
<1> HIDE DEF s, m, f
<1>6. ThreadsGrow /\ threads' \in [Signals -> SUBSET [kind: Kinds, date: Days]]
  BY <1>1, ThreadsUnchanged DEF TypeOK
<1>7. /\ channel' \in [Signals -> Seq(Message)] /\ ChannelGrows
      /\ \A t \in Signals : t # s => channel'[t] = channel[t]
      /\ TellsEnd(channel'[s]) => TellsEnd(channel[s])
  <2>1. CASE AppendTo(s, m)
    BY <1>1, <1>2, <1>4, <2>1, Posted
  <2>2. CASE channel' = channel
    BY <1>1, <2>2, ChannelUnchanged DEF TypeOK
  <2> QED
    BY <1>5, <2>1, <2>2 DEF SendFails
<1>8. CASE /\ AppendTo(s, m)
           /\ proc' = [proc EXCEPT ![w].at = "sendCard", ![w].message = Len(channel[s]) + 1]
           /\ UNCHANGED <<rows, faults>>
  <2> DEFINE n == Len(channel[s]) + 1
             p == [L EXCEPT !.at = "sendCard", !.message = n]
             r == rows[s]
  <2>1. proc' = [proc EXCEPT !["loop"] = p] /\ rows' = [rows EXCEPT ![s] = r]
    BY <1>1, <1>2, <1>8 DEF TypeOK
  <2>2. n \in Nat /\ n \in DOMAIN channel'[s] /\ channel'[s][n] = m
    <3>1. channel[s] \in Seq(Message)
      BY <1>1, <1>2 DEF TypeOK
    <3> QED
      BY <1>1, <1>2, <1>4, <1>8, <3>1, Posted
  <2> HIDE DEF n
  <2>3. p \in Proc /\ p.at = "sendCard" /\ p.day = L.day /\ p.delivered = 0 /\ p.post = L.post
        /\ p.message = n
    BY <1>1, <2>2 DEF Proc
  <2> HIDE DEF p
  <2>4. L' = p => HeldOK'
    BY <1>2, <1>3, <1>4, <1>8, <2>2, <2>3 DEF HeldOK, HeldPlaces, SentPlaces
  <2>5. p.at \in HeldPlaces /\ p.at # "idle" /\ faults' \in 0..MaxFaults
    BY <1>1, <1>8, <2>3 DEF HeldPlaces, SentPlaces, TypeOK
  <2>6. /\ r \in Row /\ r.status = "publishing" /\ r.date = rows[s].date /\ r.update = 0
        /\ r.mirrored = 0 /\ (s \notin interrupted => f.entry = r.entry)
    BY <1>2
  <2> HIDE DEF r
  <2>7. p.post \in Post /\ p.post.signal = s
    BY <1>2, <2>3
  <2> QED
    <3>1. HeldChange(s, r, f, p)
      BY <1>1, <1>2, <1>6, <1>7, <2>1, <2>3, <2>4, <2>5, <2>6, <2>7 DEF HeldChange
    <3> QED
      BY <1>2, <2>3, <2>6, <3>1, HeldStep
<1>9. CASE /\ SendFails(s, m) /\ Finish(w)
           /\ rows' = [rows EXCEPT ![s] = Returned(@)]
  <2> DEFINE r == Returned(rows[s])
  <2>1. /\ r \in Row /\ r.status = "draft" /\ r.date = rows[s].date /\ r.update = 0
        /\ r.mirrored = 0 /\ r.entry = rows[s].entry
    BY <1>2 DEF Returned, Row
  <2>2. proc' = [proc EXCEPT !["loop"] = Idle] /\ rows' = [rows EXCEPT ![s] = r]
    BY <1>1, <1>9 DEF Finish
  <2> HIDE DEF r
  <2>3. L' = Idle => HeldOK'
    BY IdleType DEF HeldOK, HeldPlaces, SentPlaces
  <2>4. faults' \in 0..MaxFaults
    BY <1>1, <1>9, PublicationsAssumption DEF SendFails, Fault, TypeOK
  <2>5. s \notin interrupted => f.entry = r.entry
    BY <1>2, <2>1
  <2> QED
    <3>1. HeldChange(s, r, f, Idle)
      BY <1>1, <1>2, <1>6, <1>7, <2>1, <2>2, <2>3, <2>4, <2>5, IdleType DEF HeldChange
    <3> QED
      BY <1>2, <2>1, <3>1, IdleType, HeldStep
<1> QED
  BY <1>5, <1>8, <1>9

LEMMA MirrorSignalInv ==
    ASSUME IInv, NEW w \in Workers, MirrorSignal(w)
    PROVE  IInv'
<1> DEFINE s == L.post.signal
           m == Dated(L.post)
           r == rows[s]
           f == favorites[s]
<1>1. /\ w = "loop" /\ proc["loop"] = L /\ L \in Proc /\ L.day \in Days /\ TypeOK
      /\ L.at = "sendCard" /\ L.at \in HeldPlaces /\ L.delivered = 0
      /\ UNCHANGED <<day, period, rows, favorites, channel, started, crashes, interrupted>>
  <2>1. proc[w].at = "sendCard" /\ proc[w].at \in HeldPlaces
    BY DEF MirrorSignal, At, HeldPlaces, SentPlaces
  <2> QED
    BY <2>1, PublishingAt DEF MirrorSignal
<1>2. /\ s \in Signals /\ L.post \in Post /\ L.post.signal = s
      /\ r \in Row /\ r.status = "publishing" /\ r.date = rows[s].date
      /\ r.update = 0 /\ r.mirrored = 0
      /\ f \in [status: {"active"}, entry: Quotes]
      /\ s \notin interrupted => f.entry = r.entry
      /\ favorites' = [favorites EXCEPT ![s] = f]
      /\ rows' = [rows EXCEPT ![s] = r]
      /\ m \in [kind: Kinds, date: Days]
  BY <1>1, HeldHas DEF TypeOK, Dated, Post
<1> HIDE DEF m, r, f
<1>3. ASSUME NEW p \in Proc, proc' = [proc EXCEPT !["loop"] = p], p.at = "record",
             p.post = L.post, p.message = L.message, p.day = L.day,
             threads' = [threads EXCEPT ![s] = @ \cup {m}] \/ threads' = threads,
             faults' \in 0..MaxFaults
      PROVE  IInv'
  <2>1. ThreadsGrow /\ threads' \in [Signals -> SUBSET [kind: Kinds, date: Days]]
    BY <1>1, <1>2, <1>3, MirrorGrows, ThreadsUnchanged DEF TypeOK
  <2>2. ChannelGrows /\ channel' \in [Signals -> Seq(Message)] /\ p.at \in HeldPlaces
    BY <1>1, <1>3, ChannelUnchanged DEF TypeOK, HeldPlaces, SentPlaces
  <2>3. L' = p => HeldOK'
    <3>1. HeldOK
      BY DEF IInv
    <3> QED
      BY <1>1, <1>2, <1>3, <3>1 DEF HeldOK, HeldPlaces, SentPlaces
  <2>4. /\ p.post \in Post /\ p.post.signal = s /\ p.day \in Days
        /\ \A t \in Signals : t # s => channel'[t] = channel[t]
        /\ TellsEnd(channel'[s]) => TellsEnd(channel[s])
    BY <1>1, <1>2, <1>3
  <2> HIDE DEF s
  <2> QED
    <3>1. HeldChange(s, r, f, p)
      BY <1>1, <1>2, <1>3, <2>1, <2>2, <2>3, <2>4 DEF HeldChange
    <3> QED
      BY <1>2, <1>3, <3>1, HeldStep
<1>4. (Fault => faults' \in 0..MaxFaults) /\ (faults' = faults => faults' \in 0..MaxFaults)
  BY <1>1, PublicationsAssumption DEF Fault, TypeOK
<1>5. CASE Mirror(proc[w].post) /\ proc' = [proc EXCEPT ![w].at = "record", ![w].delivered = 1]
  <2> DEFINE p == [L EXCEPT !.at = "record", !.delivered = 1]
  <2>1. proc' = [proc EXCEPT !["loop"] = p]
    BY <1>1, <1>5
  <2>2. p \in Proc /\ p.at = "record" /\ p.post = L.post /\ p.message = L.message /\ p.day = L.day
    BY <1>1 DEF Proc
  <2>3. threads' = [threads EXCEPT ![s] = @ \cup {m}] /\ faults' = faults
    BY <1>1, <1>5 DEF Mirror, Shown, m
  <2> HIDE DEF p
  <2> QED
    BY <1>3, <1>4, <2>1, <2>2, <2>3
<1>6. CASE ThreadsFails(proc[w].post) /\ GoTo(w, "record")
  <2> DEFINE p == [L EXCEPT !.at = "record"]
  <2>1. proc' = [proc EXCEPT !["loop"] = p]
    BY <1>1, <1>6 DEF GoTo
  <2>2. p \in Proc /\ p.at = "record" /\ p.post = L.post /\ p.message = L.message /\ p.day = L.day
    BY <1>1 DEF Proc
  <2>3. threads' = threads \/ threads' = [threads EXCEPT ![s] = @ \cup {m}]
    BY <1>1, <1>6 DEF ThreadsFails, Shown, m
  <2> HIDE DEF p
  <2> QED
    BY <1>3, <1>4, <1>6, <2>1, <2>2, <2>3 DEF ThreadsFails
<1> QED
  BY <1>5, <1>6 DEF MirrorSignal

LEMMA RecordInv ==
    ASSUME IInv, NEW w \in Workers, Record(w)
    PROVE  IInv'
<1> DEFINE s == L.post.signal
           r == Recorded(rows[s], L.message, L.delivered)
           f == favorites[s]
<1>1. /\ w = "loop" /\ proc["loop"] = L /\ L \in Proc /\ L.day \in Days /\ TypeOK
      /\ L.at = "record" /\ L.at \in HeldPlaces
      /\ rows' = [rows EXCEPT ![s] = r] /\ proc' = [proc EXCEPT !["loop"] = Idle]
      /\ UNCHANGED <<day, period, favorites, channel, threads, started, faults, crashes,
                     interrupted>>
  <2>1. proc[w].at = "record" /\ proc[w].at \in HeldPlaces
    BY DEF Record, At, HeldPlaces, SentPlaces
  <2> QED
    BY <2>1, PublishingAt DEF Record, Finish
<1>2. /\ s \in Signals /\ L.post \in Post /\ L.post.signal = s
      /\ rows[s] \in Row /\ rows[s].status = "publishing"
      /\ rows[s].update = 0 /\ rows[s].mirrored = 0
      /\ f \in [status: {"active"}, entry: Quotes]
      /\ s \notin interrupted => f.entry = rows[s].entry
      /\ favorites' = [favorites EXCEPT ![s] = f]
  BY <1>1, HeldHas DEF TypeOK
<1>3. /\ L.post.kind = "signal" /\ L.post.date = rows[s].date /\ L.post.price = rows[s].entry
      /\ L.message \in DOMAIN channel[s] /\ channel[s][L.message] = MessageOf(L.post)
  BY <1>1, <1>2 DEF IInv, HeldOK, SentPlaces
<1>4. /\ r \in Row /\ r.status = "active" /\ r.date = rows[s].date /\ r.update = 0
      /\ r.mirrored = 0 /\ r.entry = rows[s].entry /\ r.message = L.message
  <2>1. L.message \in Nat /\ L.delivered \in {0, 1}
    BY <1>1 DEF Proc
  <2> QED
    BY <1>2, <2>1 DEF Recorded, Row
<1>5. /\ r.message \in DOMAIN channel'[s]
      /\ channel'[s][r.message] = [kind |-> "signal", date |-> r.date, price |-> r.entry]
      /\ s \notin interrupted => f.entry = r.entry
      /\ \A t \in Signals : t # s => channel'[t] = channel[t]
      /\ TellsEnd(channel'[s]) => TellsEnd(channel[s])
  BY <1>1, <1>2, <1>3, <1>4 DEF MessageOf
<1> HIDE DEF r, f, s
<1>6. L' = Idle => HeldOK'
  BY IdleType DEF HeldOK, HeldPlaces, SentPlaces
<1>7. /\ ThreadsGrow /\ ChannelGrows
      /\ channel' \in [Signals -> Seq(Message)] /\ faults' \in 0..MaxFaults
      /\ threads' \in [Signals -> SUBSET [kind: Kinds, date: Days]]
  BY <1>1, ThreadsUnchanged, ChannelUnchanged DEF TypeOK
<1> QED
  <2>1. HeldChange(s, r, f, Idle)
    BY <1>1, <1>2, <1>4, <1>5, <1>6, <1>7, IdleType DEF HeldChange
  <2> QED
    BY <1>2, <1>4, <2>1, IdleType, HeldStep

-----------------------------------------------------------------------------
(* The start of a run, a crash, the environment *)

LEMMA StartInv ==
    ASSUME IInv, NEW w \in Workers, NEW mode \in {"main", "updates", "backfill"}, Start(w, mode)
    PROVE  IInv'
<1> DEFINE p == [Idle EXCEPT !.at = "card", !.mode = mode, !.day = day]
<1>1. /\ proc[w].at = "idle" /\ proc' = [proc EXCEPT ![w] = p]
      /\ w = "backfill" => mode = "backfill"
      /\ started' \in BOOLEAN
      /\ UNCHANGED <<day, period, favorites, channel, threads, faults, crashes, interrupted>>
  BY DEF Start, At
<1>2. PICK old \in SUBSET Abandoned :
         rows' = [s \in Signals |-> IF s \in old THEN [rows[s] EXCEPT !.status = "draft"]
                                    ELSE rows[s]]
  BY DEF Start
<1>3. TypeOK /\ day \in Days /\ ProcsOK
  BY DEF IInv, TypeOK
<1>4. p \in Proc /\ p.at = "card" /\ p.day = day /\ p.delivered = 0 /\ p.mode = mode
  BY <1>3, IdleType DEF Proc
<1> HIDE DEF p
<1>5. ASSUME NEW s \in old
      PROVE  /\ s \in Signals /\ rows[s].status = "publishing" /\ L.post.signal # s
             /\ rows'[s] \in Row /\ rows'[s].status = "draft" /\ rows'[s].date = rows[s].date
             /\ rows'[s].entry = rows[s].entry /\ rows'[s].update = rows[s].update
             /\ rows'[s].mirrored = rows[s].mirrored
  <2>1. s \in Signals /\ rows[s].status = "publishing" /\ L.post.signal # s
    BY <1>2 DEF Abandoned, L, Workers
  <2>2. rows[s] \in Row /\ rows'[s] = [rows[s] EXCEPT !.status = "draft"]
    BY <1>2, <1>3, <2>1, RowType
  <2> QED
    BY <2>1, <2>2 DEF Row
<1>6. \A s \in Signals : s \notin old => rows'[s] = rows[s]
  BY <1>2
<1>7. rows' \in [Signals -> Row \cup {NoRow}]
  <2>1. \A s \in Signals : rows'[s] \in Row \cup {NoRow}
    BY <1>3, <1>5, <1>6 DEF TypeOK
  <2>2. rows' = [s \in Signals |-> rows'[s]]
    BY <1>2
  <2> QED
    BY <2>1, <2>2
<1>8. /\ proc' \in [Workers -> Proc] /\ proc'[w] = p
      /\ \A v \in Workers : v # w => proc'[v] = proc[v]
  BY <1>1, <1>3, <1>4, OneSteps DEF TypeOK
<1>9. \/ w = "loop" /\ L' = p /\ L.at = "idle"
      \/ w = "backfill" /\ L' = L
  BY <1>1, <1>8 DEF L, Workers
<1>10. TypeOK'
  BY <1>1, <1>3, <1>7, <1>8 DEF TypeOK
<1>11. ProcsOK'
  <2>1. ProcOK(w)'
    BY <1>1, <1>3, <1>4, <1>8 DEF ProcOK, NotePlaces, PostPlaces, UpdatePlaces, HeldPlaces, SentPlaces
  <2> QED
    BY <1>3, <1>8, <2>1, ProcsKept
<1>12. NotesOK'
  <2>1. MirrorOK(w)'
    BY <1>4, <1>8 DEF MirrorOK
  <2>2. StaysPublished /\ ThreadsGrow /\ ChannelGrows
    BY <1>1, <1>5, <1>6, ThreadsUnchanged, ChannelUnchanged DEF StaysPublished, Published
  <2>3. NotesOK
    BY DEF IInv
  <2> QED
    BY <1>3, <1>8, <2>1, <2>2, <2>3, NotesKept
<1>13. UpdatesOK'
  <2>1. CASE L' = p
    BY <1>4, <2>1 DEF UpdatesOK, UpdatePlaces
  <2>2. CASE L' = L
    <3>1. UpdatesOK
      BY DEF IInv
    <3>2. \A s \in Signals : \A d : Due(s, d) => Due(s, d)'
      BY <1>5, <1>6 DEF Due
    <3>3. /\ L.at \in {"tell", "echo", "keep"} => \A m \in L.todo : m.signal \in Signals
          /\ L.at \in UpdatePlaces => L.post.signal \in Signals
      BY <1>3, LoopHas DEF Post, PostPlaces
    <3> QED
      BY <1>1, <2>2, <3>1, <3>2, <3>3 DEF UpdatesOK
  <2> QED
    BY <1>9, <2>1, <2>2
<1>14. L.at \in PostPlaces => L.post.signal \in Signals /\ rows'[L.post.signal] = rows[L.post.signal]
  BY <1>3, <1>5, <1>6, LoopHas DEF Post
<1>15. HeldOK'
  <2>1. CASE L' = p
    BY <1>4, <2>1 DEF HeldOK, HeldPlaces, SentPlaces
  <2>2. CASE L' = L
    <3>1. HeldOK
      BY DEF IInv
    <3>2. SentPlaces \subseteq HeldPlaces /\ HeldPlaces \subseteq PostPlaces
      BY DEF HeldPlaces, PostPlaces
    <3> QED
      BY <1>1, <1>14, <2>2, <3>1, <3>2 DEF HeldOK
  <2> QED
    BY <1>9, <2>1, <2>2
<1>16. \A s \in Signals : (Exists(s)' <=> Exists(s)) /\ rows'[s].date = rows[s].date
                          /\ rows'[s].entry = rows[s].entry
  BY <1>5, <1>6 DEF Exists
<1>17. ClaimsOK'
  <2>1. ClaimsOK
    BY DEF IInv
  <2>2. \A s \in Signals : rows'[s].status = "publishing" => rows[s].status = "publishing"
    BY <1>5, <1>6
  <2>3. CASE L' = p /\ L.at = "idle"
    BY <1>1, <1>4, <2>1, <2>2, <2>3 DEF ClaimsOK, HeldPlaces, SentPlaces
  <2>4. CASE L' = L
    BY <1>1, <1>14, <2>1, <2>2, <2>4 DEF ClaimsOK, PostPlaces
  <2> QED
    BY <1>9, <2>3, <2>4
<1>18. FavoritesOK'
  <2>1. FavoritesOK
    BY DEF IInv
  <2>2. \A s \in Signals :
           /\ rows'[s].status \in {"draft", "publishing", "active"} =>
                  rows[s].status \in {"draft", "publishing", "active"}
           /\ rows'[s].status = "closed" <=> rows[s].status = "closed"
    BY <1>5, <1>6
  <2>3. L.at = "insert" => L' = L
    BY <1>9
  <2> QED
    BY <1>1, <1>16, <2>1, <2>2, <2>3 DEF FavoritesOK
<1>19. DatesOK'
  <2>1. DatesOK
    BY DEF IInv
  <2>2. L.at \in {"favorite", "insert"} => L.post.signal \in Signals
    BY <1>14 DEF PostPlaces
  <2>3. CASE L' = p
    BY <1>1, <1>4, <1>16, <2>1, <2>3 DEF DatesOK
  <2>4. CASE L' = L
    BY <1>1, <1>16, <2>1, <2>2, <2>4 DEF DatesOK
  <2> QED
    BY <1>9, <2>3, <2>4
<1>20. RowsOK'
  <2> SUFFICES ASSUME NEW s \in Signals PROVE RowOK(s)'
    BY DEF RowsOK
  <2>1. CASE s \notin old
    BY <1>1, <1>6, <2>1, RowStays
  <2>2. CASE s \in old
    <3>1. RowOK(s)
      BY DEF IInv, RowsOK
    <3> QED
      BY <1>1, <1>5, <2>2, <3>1 DEF RowOK, Published, Exists
  <2> QED
    BY <2>1, <2>2
<1> QED
  BY <1>10, <1>11, <1>12, <1>13, <1>15, <1>17, <1>18, <1>19, <1>20 DEF IInv

LEMMA CrashInv ==
    ASSUME IInv, Crash
    PROVE  IInv'
<1>1. /\ TypeOK /\ proc' = [w \in Workers |-> Idle] /\ started' = FALSE
      /\ crashes' \in 0..MaxCrashes
      /\ UNCHANGED <<day, period, rows, favorites, channel, threads, faults>>
  BY PublicationsAssumption DEF Crash, IInv, TypeOK
<1>2. /\ interrupted \subseteq interrupted' /\ interrupted' \subseteq Signals
      /\ \A s \in Signals : rows[s].status = "publishing" => s \in interrupted'
      /\ \A s \in Signals : L.at = "insert" /\ L.post.signal = s => s \in interrupted'
  BY <1>1 DEF Crash, At, L, Workers, TypeOK
<1>3. proc' \in [Workers -> Proc] /\ L' = Idle /\ \A w \in Workers : proc'[w] = Idle
  BY <1>1, IdleType DEF L, Workers
<1>4. TypeOK'
  BY <1>1, <1>2, <1>3 DEF TypeOK
<1>5. ProcsOK' /\ NotesOK'
  BY <1>3, IdleType DEF ProcsOK, ProcOK, NotesOK, MirrorOK, NotePlaces, PostPlaces, UpdatePlaces,
                        HeldPlaces, SentPlaces
<1>6. UpdatesOK' /\ HeldOK'
  BY <1>3, IdleType DEF UpdatesOK, UpdatePlaces, HeldOK, HeldPlaces, SentPlaces
<1>7. ClaimsOK'
  BY <1>1, <1>2, <1>3, IdleType DEF ClaimsOK, HeldPlaces, SentPlaces
<1>8. FavoritesOK'
  BY <1>1, <1>2 DEF IInv, FavoritesOK, Exists
<1>9. DatesOK'
  BY <1>1, <1>2, <1>3, IdleType DEF IInv, DatesOK, Exists
<1>10. RowsOK'
  BY <1>1, RowStays DEF RowsOK
<1> QED
  BY <1>4, <1>5, <1>6, <1>7, <1>8, <1>9, <1>10 DEF IInv

LEMMA NewDayInv ==
    ASSUME IInv, NewDay \/ UNCHANGED vars
    PROVE  IInv'
<1>1. /\ TypeOK /\ day' \in Days
      /\ UNCHANGED <<period, rows, favorites, channel, threads, proc, started, faults, crashes,
                     interrupted>>
  BY PublicationsAssumption DEF NewDay, vars, IInv, TypeOK, Days
<1>2. TypeOK'
  BY <1>1 DEF TypeOK
<1>3. L' = L
  BY <1>1 DEF L
<1>4. ProcsOK' /\ NotesOK'
  BY <1>1 DEF IInv, ProcsOK, ProcOK, NotesOK, MirrorOK, NoteOK, Published, Tells
<1>5. UpdatesOK' /\ HeldOK'
  BY <1>1, <1>3 DEF IInv, UpdatesOK, Due, TellsEnd, TellsAt, HeldOK
<1>6. ClaimsOK' /\ FavoritesOK' /\ DatesOK'
  BY <1>1, <1>3 DEF IInv, ClaimsOK, FavoritesOK, DatesOK, Exists
<1>7. RowsOK'
  BY <1>1, RowStays DEF RowsOK
<1> QED
  BY <1>2, <1>4, <1>5, <1>6, <1>7 DEF IInv

LEMMA ObserveInv ==
    ASSUME IInv, NEW o \in Signals, Observe(o)
    PROVE  IInv'
<1>1. /\ TypeOK /\ period' \in [Signals -> {"unseen", "live", "over"}]
      /\ UNCHANGED <<day, rows, favorites, channel, threads, proc, started, faults, crashes,
                     interrupted>>
  BY DEF Observe, IInv, TypeOK
<1>2. \A s \in Signals : /\ period[s] = "over" => period'[s] = "over"
                         /\ period[s] # "unseen" => period'[s] # "unseen"
  BY <1>1 DEF Observe, TypeOK
<1>3. TypeOK'
  BY <1>1 DEF TypeOK
<1>4. L' = L
  BY <1>1 DEF L
<1>5. ProcsOK' /\ NotesOK'
  BY <1>1 DEF IInv, ProcsOK, ProcOK, NotesOK, MirrorOK, NoteOK, Published, Tells
<1>6. UpdatesOK' /\ HeldOK'
  <2>1. L.at \in {"tell", "echo", "keep"} => \A m \in L.todo : m.signal \in Signals
    BY LoopHas DEF IInv, Post
  <2> QED
    BY <1>1, <1>2, <1>4, <2>1 DEF IInv, UpdatesOK, Due, TellsEnd, TellsAt, HeldOK
<1>7. ClaimsOK' /\ FavoritesOK' /\ DatesOK'
  <2>1. L.at \in {"favorite", "insert"} => L.post.signal \in Signals
    BY LoopHas DEF IInv, Post, PostPlaces
  <2> QED
    BY <1>1, <1>2, <1>4, <2>1 DEF IInv, ClaimsOK, FavoritesOK, DatesOK, Exists
<1>8. RowsOK'
  <2> SUFFICES ASSUME NEW s \in Signals PROVE RowOK(s)'
    BY DEF RowsOK
  <2>1. RowOK(s)
    BY DEF IInv, RowsOK
  <2> QED
    BY <1>1, <1>2, <2>1 DEF RowOK, Published, Exists, Tells, TellsAt, TellsEnd
<1> QED
  BY <1>3, <1>5, <1>6, <1>7, <1>8 DEF IInv

-----------------------------------------------------------------------------
(* The invariant *)

LEMMA Initially == Init => IInv
<1> SUFFICES ASSUME Init PROVE IInv
  OBVIOUS
<1>1. /\ \A s \in Signals : /\ rows[s].status = "absent" /\ favorites[s] = NoFavorite
                            /\ channel[s] = <<>> /\ period[s] = "unseen"
      /\ L = Idle /\ \A w \in Workers : proc[w] = Idle
  BY DEF Init, NoRow, L, Workers
<1>2. /\ L.at = "idle" /\ L.delivered = 0
      /\ \A w \in Workers : proc[w].at = "idle" /\ proc[w].delivered = 0
  BY <1>1, IdleType
<1>3. TypeOK
  <2>1. <<>> \in Seq(Message) /\ 1 \in Days /\ 0 \in 0..MaxFaults /\ 0 \in 0..MaxCrashes
    BY PublicationsAssumption DEF Days
  <2> QED
    BY <2>1, IdleType DEF Init, TypeOK
<1>4. ProcsOK /\ NotesOK
  BY <1>2 DEF ProcsOK, ProcOK, NotesOK, MirrorOK, NotePlaces, PostPlaces, UpdatePlaces,
              HeldPlaces, SentPlaces
<1>5. UpdatesOK /\ HeldOK /\ ClaimsOK
  BY <1>1, <1>2 DEF UpdatesOK, UpdatePlaces, HeldOK, HeldPlaces, SentPlaces, ClaimsOK
<1>6. FavoritesOK /\ DatesOK
  BY <1>1, <1>2 DEF FavoritesOK, DatesOK, Exists, NoFavorite
<1>7. RowsOK
  BY <1>1 DEF RowsOK, RowOK, Published, Exists, NoFavorite, TellsEnd
<1> QED
  BY <1>3, <1>4, <1>5, <1>6, <1>7 DEF IInv

LEMMA ToldInv ==
    ASSUME IInv, NEW w \in Workers, Told(w)
    PROVE  IInv'
BY FinishInv DEF Told, At, HeldPlaces, SentPlaces

LEMMA NextStep == IInv /\ [Next]_vars => IInv'
<1> SUFFICES ASSUME IInv, [Next]_vars PROVE IInv'
  OBVIOUS
<1>1. ASSUME NEW w \in Workers, MainStep(w) PROVE IInv'
  BY <1>1, ClaimOldestInv, SelectCandidateInv, MakeFavoriteInv, InsertDraftInv, ClaimInv,
     RefreshInv, SendInv, MirrorSignalInv, RecordInv DEF MainStep
<1>2. ASSUME NEW w \in Workers, UpdateStep(w) PROVE IInv'
  BY <1>2, ReadRowsInv, TellInv, ToldInv, EchoUpdateInv, KeepUpdateInv DEF UpdateStep
<1>3. ASSUME NEW w \in Workers, BackfillStep(w) PROVE IInv'
  BY <1>3, SendCardInv, SaveCardInv, ReadRepliesInv, SendReplyInv, SaveReplyInv DEF BackfillStep
<1> QED
  BY <1>1, <1>2, <1>3, StartInv, CrashInv, NewDayInv, ObserveInv DEF Next, Step

LEMMA Invariance == Spec => []IInv
BY Initially, NextStep, PTL DEF Spec

-----------------------------------------------------------------------------
(* The properties *)

\* Every variable keeps its type, in every run of the automation.
THEOREM TypeCorrect == Spec => []TypeOK
<1>1. IInv => TypeOK
  BY DEF IInv
<1> QED
  BY <1>1, Invariance, PTL

\* A published row points to the post that told its entry price, and the favorite starts from
\* that price: for any number of signals, faults, crashes and processes' interleavings.
THEOREM EntriesTold == Spec => []EntryIsTold
<1>1. IInv => EntryIsTold
  <2> SUFFICES ASSUME IInv, NEW s \in Signals, Published(s)
               PROVE  /\ rows[s].message \in DOMAIN channel[s]
                      /\ channel[s][rows[s].message].kind = "signal"
                      /\ channel[s][rows[s].message].price = rows[s].entry
                      /\ s \notin interrupted => favorites[s].entry = rows[s].entry
    BY DEF EntryIsTold
  <2>1. RowOK(s) /\ FavoritesOK /\ Exists(s)
    BY DEF IInv, RowsOK, Published, Exists
  <2> QED
    BY <2>1 DEF RowOK, FavoritesOK
<1> QED
  BY <1>1, Invariance, PTL

\* A publication is closed exactly when its favorite is, at a price the channel was told.
THEOREM ExitsTold == Spec => []ExitIsTold
<1>1. IInv => ExitIsTold
  <2> SUFFICES ASSUME IInv, NEW s \in Signals
               PROVE  /\ rows[s].status = "closed" <=> favorites[s].status = "closed"
                      /\ favorites[s].status = "closed" =>
                            \E m \in Range(channel[s]) :
                               m.kind = "ended" /\ m.price = favorites[s].exit
    BY DEF ExitIsTold
  <2>1. RowOK(s) /\ FavoritesOK
    BY DEF IInv, RowsOK
  <2> QED
    BY <2>1 DEF RowOK, FavoritesOK, TellsAt, Range
<1> QED
  BY <1>1, Invariance, PTL

\* Two published signals of one data date: a crash has cut the publishing of one of them short.
THEOREM OneSignal == Spec => []OneSignalPerDate
<1>1. IInv => OneSignalPerDate
  <2>1. \A s \in Signals : Published(s) => Exists(s)
    BY DEF Published, Exists
  <2> QED
    BY <2>1 DEF IInv, DatesOK, OneSignalPerDate
<1> QED
  BY <1>1, Invariance, PTL
=============================================================================
