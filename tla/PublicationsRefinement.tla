---------------------- MODULE PublicationsRefinement ----------------------
(***************************************************************************)
(* Proof that Publications implements SignalFeed: the initial states of    *)
(* the automation are initial states of the feed, and each of its steps is *)
(* a step of the feed or leaves it unchanged.                              *)
(***************************************************************************)
EXTENDS PublicationsProofs

ToldOf(s) == [i \in DOMAIN channel[s] |-> Dated(channel[s][i])]

KeptOf(s) ==
    IF Published(s)
    THEN [state |-> IF rows[s].status = "active" THEN "open" ELSE "ended",
          date |-> Reached(rows[s]), echo |-> rows[s].mirrored]
    ELSE [state |-> "none", date |-> 0, echo |-> 0]

FeedTold == [s \in Signals |-> ToldOf(s)]
FeedKept == [s \in Signals |-> KeptOf(s)]

FeedStep == [Feed!FeedNext]_(Feed!feedVars)

-----------------------------------------------------------------------------
(* Steps of the feed, in terms of channel, rows and threads *)

LEMMA KeptValue ==
    ASSUME NEW s \in Signals
    PROVE  /\ FeedKept[s] = KeptOf(s)
           /\ ~Published(s) => /\ KeptOf(s).state = "none"
                               /\ KeptOf(s) = [state |-> "none", date |-> 0, echo |-> 0]
           /\ Published(s) =>
                 /\ KeptOf(s) = [state |-> IF rows[s].status = "active" THEN "open" ELSE "ended",
                                 date |-> Reached(rows[s]), echo |-> rows[s].mirrored]
                 /\ rows[s].status = "active" => KeptOf(s).state = "open"
                 /\ KeptOf(s).date = Reached(rows[s])
                 /\ KeptOf(s).echo = rows[s].mirrored
BY DEF FeedKept, KeptOf

LEMMA SaidIfTold ==
    ASSUME NEW s \in Signals, NEW k, NEW d, Tells(channel[s], k, d)
    PROVE  Feed!Said(s, [kind |-> k, date |-> d])
<1>1. PICK i \in DOMAIN channel[s] : channel[s][i].kind = k /\ channel[s][i].date = d
  BY DEF Tells
<1>2. i \in DOMAIN ToldOf(s) /\ ToldOf(s)[i] = [kind |-> k, date |-> d]
  BY <1>1 DEF ToldOf, Dated
<1>3. Feed!Range(ToldOf(s)) = {ToldOf(s)[j] : j \in DOMAIN ToldOf(s)}
  BY DEF Feed!Range
<1>4. [kind |-> k, date |-> d] \in Feed!Range(ToldOf(s))
  BY <1>2, <1>3
<1>5. FeedTold[s] = ToldOf(s)
  BY DEF FeedTold
<1>6. [kind |-> k, date |-> d] \in Feed!Range(FeedTold[s])
  BY <1>4, <1>5
<1> QED
  BY <1>6 DEF Feed!Said, FeedTold, ToldOf

LEMMA EndSaidIfTold ==
    ASSUME NEW s \in Signals, Feed!EndSaid(s)
    PROVE  TellsEnd(channel[s])
<1>1. PICK d \in Days : Feed!Said(s, [kind |-> "ended", date |-> d])
  BY DEF Feed!EndSaid
<1>2. [kind |-> "ended", date |-> d] \in Feed!Range(FeedTold[s])
  BY <1>1 DEF Feed!Said, FeedTold, ToldOf
<1>3. FeedTold[s] = ToldOf(s)
  BY DEF FeedTold
<1>4. PICK i \in DOMAIN ToldOf(s) : ToldOf(s)[i] = [kind |-> "ended", date |-> d]
  BY <1>2, <1>3 DEF Feed!Range
<1>5. i \in DOMAIN channel[s] /\ Dated(channel[s][i]).kind = "ended"
  BY <1>4 DEF ToldOf
<1> QED
  BY <1>5 DEF TellsEnd, Dated

LEMMA SameTold == ASSUME channel' = channel PROVE FeedTold' = FeedTold
BY DEF FeedTold, ToldOf

LEMMA SameKept ==
    ASSUME \A s \in Signals : /\ Published(s)' <=> Published(s)
                              /\ Published(s) => /\ rows'[s].status = rows[s].status
                                                 /\ rows'[s].date = rows[s].date
                                                 /\ rows'[s].update = rows[s].update
                                                 /\ rows'[s].mirrored = rows[s].mirrored
    PROVE  FeedKept' = FeedKept
<1>1. ASSUME NEW s \in Signals PROVE KeptOf(s)' = KeptOf(s)
  BY DEF KeptOf, Reached
<1> QED
  BY <1>1 DEF FeedKept

LEMMA Stutters ==
    ASSUME channel' = channel, threads' = threads, FeedKept' = FeedKept
    PROVE  FeedStep
<1>1. FeedTold' = FeedTold
  BY SameTold
<1>2. UNCHANGED <<FeedTold, FeedKept, threads>>
  BY <1>1
<1>3. UNCHANGED Feed!feedVars
  BY <1>2 DEF Feed!feedVars, FeedTold, ToldOf, FeedKept, KeptOf
<1> QED
  BY <1>3 DEF FeedStep

\* A post in the channel.
LEMMA FeedTells ==
    ASSUME TypeOK, NEW s \in Signals, NEW m \in Message, AppendTo(s, m),
           threads' = threads, FeedKept' = FeedKept
    PROVE  Feed!Tell(s, Dated(m))
<1>1. channel[s] \in Seq(Message) /\ channel' = [channel EXCEPT ![s] = Append(@, m)]
  BY DEF TypeOK, AppendTo
<1>2. /\ channel'[s] = Append(channel[s], m)
      /\ \A t \in Signals : t # s => channel'[t] = channel[t]
  BY <1>1 DEF TypeOK
<1>3. /\ DOMAIN channel[s] = 1..Len(channel[s]) /\ Len(channel[s]) \in Nat
      /\ DOMAIN channel'[s] = 1..(Len(channel[s]) + 1)
      /\ \A i \in 1..Len(channel[s]) : channel'[s][i] = channel[s][i]
      /\ channel'[s][Len(channel[s]) + 1] = m
  BY <1>1, <1>2
<1> DEFINE n == Len(channel[s])
           M == [kind: Kinds, date: Days]
           old == [i \in 1..n |-> Dated(channel[s][i])]
           new == [i \in 1..(n + 1) |-> Dated(channel'[s][i])]
<1>4. Dated(m) \in M /\ \A i \in 1..n : Dated(channel[s][i]) \in M
  <2>1. \A i \in 1..n : channel[s][i] \in Message
    BY <1>1
  <2> QED
    BY <2>1 DEF Dated, Message
<1>5. old \in Seq(M) /\ Len(old) = n
  BY <1>3, <1>4
<1>6. new = Append(old, Dated(m))
  <2>1. DOMAIN Append(old, Dated(m)) = 1..(n + 1)
    BY <1>3, <1>4, <1>5
  <2>2. \A i \in 1..(n + 1) : Append(old, Dated(m))[i] = new[i]
    BY <1>3, <1>4, <1>5
  <2>3. Append(old, Dated(m)) \in Seq(M)
    BY <1>4, <1>5
  <2> QED
    BY <1>3, <2>1, <2>2, <2>3
<1>7. ToldOf(s) = old /\ ToldOf(s)' = new
  BY <1>3 DEF ToldOf
<1>8. \A t \in Signals : t # s => ToldOf(t)' = ToldOf(t)
  BY <1>2 DEF ToldOf
<1>9. FeedTold' = [FeedTold EXCEPT ![s] = Append(@, Dated(m))]
  <2>1. \A t \in Signals : FeedTold[t] = ToldOf(t)
    BY DEF FeedTold
  <2>2. FeedTold' = [t \in Signals |-> ToldOf(t)']
    BY DEF FeedTold
  <2>3. DOMAIN FeedTold = Signals
    BY DEF FeedTold
  <2>4. [FeedTold EXCEPT ![s] = Append(@, Dated(m))]
          = [t \in Signals |-> IF t = s THEN Append(ToldOf(s), Dated(m)) ELSE ToldOf(t)]
    BY <2>1, <2>3
  <2>5. \A t \in Signals :
          ToldOf(t)' = IF t = s THEN Append(ToldOf(s), Dated(m)) ELSE ToldOf(t)
    BY <1>6, <1>7, <1>8
  <2> QED
    BY <2>2, <2>4, <2>5
<1>10. UNCHANGED <<FeedKept, threads>>
  OBVIOUS
<1> QED
  BY <1>9, <1>10 DEF Feed!Tell, FeedTold, ToldOf, FeedKept, KeptOf

\* A post on Threads.
LEMMA Echoes ==
    ASSUME NEW post, post.signal \in Signals, post.kind \in Kinds, post.date \in Days, Shown(post),
           Tells(channel[post.signal], post.kind, post.date),
           channel' = channel, rows' = rows
    PROVE  FeedStep
<1> DEFINE s == post.signal
           m == [kind |-> post.kind, date |-> post.date]
<1>1. Feed!Said(s, m)
  BY SaidIfTold
<1>2. threads' = [threads EXCEPT ![s] = @ \cup {m}]
  BY DEF Shown, Dated
<1>3. FeedTold' = FeedTold /\ FeedKept' = FeedKept
  BY SameTold, SameKept DEF Published
<1>4. Feed!Echo(s, m)
  BY <1>1, <1>2, <1>3 DEF Feed!Echo, FeedTold, ToldOf, FeedKept, KeptOf
<1>5. m \in Feed!Message
  BY DEF Feed!Message, Kinds
<1>6. Feed!FeedNext
  BY <1>4, <1>5 DEF Feed!FeedNext
<1> QED
  BY <1>6 DEF FeedStep

\* The books change for one signal.
LEMMA OneKept ==
    ASSUME NEW s \in Signals, \A t \in Signals : t # s => rows'[t] = rows[t]
    PROVE  FeedKept' = [FeedKept EXCEPT ![s] = KeptOf(s)']
<1>1. ASSUME NEW t \in Signals, t # s PROVE KeptOf(t)' = KeptOf(t)
  BY <1>1 DEF KeptOf, Published
<1>2. FeedKept' = [t \in Signals |-> KeptOf(t)']
  BY DEF FeedKept
<1>3. [FeedKept EXCEPT ![s] = KeptOf(s)']
        = [t \in Signals |-> IF t = s THEN KeptOf(s)' ELSE KeptOf(t)]
  BY DEF FeedKept
<1> QED
  BY <1>1, <1>2, <1>3

-----------------------------------------------------------------------------
(* The steps of the automation *)

LEMMA SendCardStep ==
    ASSUME IInv, NEW w \in Workers, SendCard(w)
    PROVE  FeedStep
<1>1. channel' = channel /\ rows' = rows /\ TypeOK
  BY DEF SendCard, IInv
<1>2. CASE threads' = threads
  BY <1>1, <1>2, SameKept, Stutters DEF Published
<1>3. ASSUME NEW s \in Signals, rows[s].status = "active",
             Shown([signal |-> s, kind |-> "signal", date |-> rows[s].date])
      PROVE  FeedStep
  <2>1. rows[s] \in Row /\ RowOK(s) /\ Published(s)
    BY <1>1, <1>3, RowType DEF IInv, RowsOK, Published
  <2>2. Tells(channel[s], "signal", rows[s].date)
    BY <2>1 DEF RowOK, Tells
  <2>3. rows[s].date \in Days /\ "signal" \in Kinds
    BY <2>1 DEF Row, Kinds
  <2> DEFINE post == [signal |-> s, kind |-> "signal", date |-> rows[s].date]
  <2>4. post.signal = s /\ post.kind = "signal" /\ post.date = rows[s].date /\ Shown(post)
    BY <1>3
  <2> HIDE DEF post
  <2> QED
    BY <1>1, <2>2, <2>3, <2>4, Echoes
<1>4. \/ threads' = threads
      \/ \E s \in Signals : /\ rows[s].status = "active"
                            /\ Shown([signal |-> s, kind |-> "signal", date |-> rows[s].date])
  BY DEF SendCard, ThreadsFails, Mirror
<1> QED
  BY <1>2, <1>3, <1>4

LEMMA SendReplyStep ==
    ASSUME IInv, NEW w \in Workers, SendReply(w)
    PROVE  FeedStep
<1>1. channel' = channel /\ rows' = rows /\ ProcOK(w) /\ MirrorOK(w) /\ proc[w].at = "reply"
  BY DEF SendReply, At, IInv, ProcsOK, NotesOK
<1>2. CASE threads' = threads
  BY <1>1, <1>2, SameKept, Stutters DEF Published
<1>3. ASSUME NEW note \in proc[w].todo, Shown(note)
      PROVE  FeedStep
  <2>1. note \in Note /\ Tells(channel[note.signal], note.kind, note.date)
    BY <1>1 DEF ProcOK, MirrorOK, NoteOK
  <2>2. note.signal \in Signals /\ note.kind \in Kinds /\ note.date \in Days
    BY <2>1 DEF Note
  <2> QED
    BY <1>1, <1>3, <2>1, <2>2, Echoes
<1> QED
  BY <1>2, <1>3 DEF SendReply, ThreadsFails, Mirror

LEMMA EchoUpdateStep ==
    ASSUME IInv, NEW w \in Workers, EchoUpdate(w)
    PROVE  FeedStep
<1>1. channel' = channel /\ rows' = rows /\ proc[w].at = "echo"
  BY DEF EchoUpdate, At
<1>2. proc[w] = L
  BY <1>1, AtLoop
<1>3. CASE threads' = threads
  BY <1>1, <1>3, SameKept, Stutters DEF Published
<1>4. CASE Shown(L.post)
  <2>1. /\ L.post.signal \in Signals /\ L.post.kind \in Kinds /\ L.post.date \in Days
        /\ TellsAt(channel[L.post.signal], L.post.kind, L.post.date, L.post.price)
    BY <1>1, <1>2, ToldHas DEF UpdatePlaces, Kinds
  <2>2. Tells(channel[L.post.signal], L.post.kind, L.post.date)
    BY <2>1, SamePosts
  <2> QED
    BY <1>1, <1>4, <2>1, <2>2, Echoes
<1> QED
  BY <1>2, <1>3, <1>4 DEF EchoUpdate, ThreadsFails, Mirror

LEMMA MirrorSignalStep ==
    ASSUME IInv, NEW w \in Workers, MirrorSignal(w)
    PROVE  FeedStep
<1>1. channel' = channel /\ rows' = rows /\ proc[w].at = "sendCard"
  BY DEF MirrorSignal, At
<1>2. proc[w] = L /\ L.at = "sendCard"
  BY <1>1, AtLoop
<1>3. CASE threads' = threads
  BY <1>1, <1>3, SameKept, Stutters DEF Published
<1>4. CASE Shown(L.post)
  <2>1. L.post.signal \in Signals /\ L.post.date \in Days /\ L.post.kind = "signal"
    BY <1>2, HeldHas DEF IInv, HeldOK, HeldPlaces, SentPlaces
  <2>2. /\ L.message \in DOMAIN channel[L.post.signal]
        /\ channel[L.post.signal][L.message] = MessageOf(L.post)
    BY <1>2 DEF IInv, HeldOK, SentPlaces
  <2>3. Tells(channel[L.post.signal], L.post.kind, L.post.date)
    BY <2>2 DEF Tells, MessageOf
  <2> QED
    BY <1>1, <1>4, <2>1, <2>3, Echoes DEF Kinds
<1> QED
  BY <1>2, <1>3, <1>4 DEF MirrorSignal, ThreadsFails, Mirror

LEMMA TellStep ==
    ASSUME IInv, NEW w \in Workers, Tell(w)
    PROVE  FeedStep
<1>1. /\ threads' = threads /\ rows' = rows /\ proc[w].at = "tell" /\ TypeOK /\ ProcsOK
  BY DEF Tell, At, IInv
<1>2. proc[w] = L /\ L.at = "tell"
  BY <1>1, AtLoop
<1>3. FeedKept' = FeedKept
  BY <1>1, SameKept DEF Published
<1>4. CASE channel' = channel
  BY <1>1, <1>3, <1>4, Stutters
<1>5. ASSUME NEW post \in L.todo, AppendTo(post.signal, MessageOf(post))
      PROVE  FeedStep
  <2> DEFINE s == post.signal
  <2>1. /\ post \in Post /\ Due(s, post.date) /\ post.kind \in {"live", "ended"}
        /\ post.kind = "live" => ~TellsEnd(channel[s])
    BY <1>1, <1>2, LoopHas DEF IInv, UpdatesOK
  <2>2. /\ s \in Signals /\ post.date \in Days /\ MessageOf(post) \in Message
        /\ Dated(MessageOf(post)) = [kind |-> post.kind, date |-> post.date]
    BY <2>1 DEF Post, MessageOf, Message, Dated
  <2> HIDE DEF s
  <2>3. Feed!Tell(s, Dated(MessageOf(post)))
    BY <1>1, <1>3, <1>5, <2>2, FeedTells DEF s
  <2>4. /\ FeedKept[s].state = "open" /\ post.date > FeedKept[s].date
    <3>1. Published(s) /\ rows[s].status = "active"
      BY <2>1 DEF Due, Published
    <3>2. post.date > Reached(rows[s])
      BY <2>1 DEF Due, Reached
    <3> QED
      BY <2>2, <3>1, <3>2, KeptValue
  <2>5. post.kind = "live" => ~Feed!EndSaid(s)
    BY <2>1, <2>2, EndSaidIfTold
  <2>6. Feed!Report(s, post.kind, post.date)
    BY <2>2, <2>3, <2>4, <2>5 DEF Feed!Report, FeedKept, KeptOf
  <2>7. Feed!FeedNext
    BY <2>1, <2>2, <2>6 DEF Feed!FeedNext
  <2> QED
    BY <2>7 DEF FeedStep
<1> QED
  BY <1>2, <1>4, <1>5 DEF Tell, SendFails

LEMMA SendStep ==
    ASSUME IInv, NEW w \in Workers, Send(w)
    PROVE  FeedStep
<1>1. threads' = threads /\ proc[w].at = "send" /\ TypeOK
  BY DEF Send, At, IInv
<1>2. proc[w] = L /\ L.at = "send" /\ L.at \in HeldPlaces
  BY <1>1, AtLoop DEF HeldPlaces
<1>3. PICK post \in Post : post = L.post
  BY <1>2, HeldHas
<1> DEFINE s == post.signal
           m == MessageOf(post)
<1>4. /\ s \in Signals /\ post.date \in Days /\ post.price \in Quotes
      /\ rows[s] \in Row /\ rows[s].status = "publishing" /\ post.kind = "signal"
  BY <1>2, <1>3, HeldHas DEF IInv, HeldOK, HeldPlaces, SentPlaces
<1>5. \/ AppendTo(s, m) /\ rows' = rows
      \/ SendFails(s, m) /\ rows' = [rows EXCEPT ![s] = Returned(@)]
  BY <1>2, <1>3 DEF Send
<1> HIDE DEF s, m
<1>6. FeedKept' = FeedKept
  <2>1. CASE rows' = rows
    BY <2>1, SameKept DEF Published
  <2>2. CASE rows' = [rows EXCEPT ![s] = Returned(@)]
    <3>1. \A t \in Signals : t # s => rows'[t] = rows[t]
      BY <1>1, <1>4, <2>2 DEF TypeOK
    <3>2. rows'[s].status = "draft"
      <4>1. rows'[s] = Returned(rows[s])
        BY <1>1, <1>4, <2>2 DEF TypeOK
      <4> QED
        BY <1>4, <4>1 DEF Returned, Row
    <3>3. \A t \in Signals : /\ Published(t)' <=> Published(t)
                             /\ t # s => rows'[t] = rows[t]
      BY <1>4, <3>1, <3>2 DEF Published
    <3> QED
      BY <1>4, <3>3, SameKept DEF Published
  <2> QED
    BY <1>5, <2>1, <2>2
<1>7. CASE channel' = channel
  BY <1>1, <1>6, <1>7, Stutters
<1>8. CASE AppendTo(s, m)
  <2>1. m \in Message /\ Dated(m) = [kind |-> "signal", date |-> post.date]
    BY <1>4 DEF m, MessageOf, Message, Dated, Kinds
  <2>2. Feed!Tell(s, Dated(m))
    BY <1>1, <1>4, <1>6, <1>8, <2>1, FeedTells
  <2>3. FeedKept[s].state = "none"
    BY <1>4, KeptValue DEF Published
  <2>4. Feed!Announce(s, post.date)
    BY <2>1, <2>2, <2>3 DEF Feed!Announce, FeedKept, KeptOf
  <2>5. Feed!FeedNext
    BY <1>4, <2>4 DEF Feed!FeedNext
  <2> QED
    BY <2>5 DEF FeedStep
<1> QED
  BY <1>5, <1>7, <1>8 DEF SendFails

LEMMA SaveReplyStep ==
    ASSUME IInv, NEW w \in Workers, SaveReply(w)
    PROVE  FeedStep
<1>1. /\ TypeOK /\ ProcOK(w) /\ MirrorOK(w) /\ proc[w].at = "saveReply"
      /\ channel' = channel /\ threads' = threads
      /\ rows' = [rows EXCEPT ![proc[w].post.signal].mirrored = proc[w].post.date]
  BY DEF SaveReply, At, IInv, ProcsOK, NotesOK
<1>2. PICK note \in Note : note = proc[w].post
  BY <1>1 DEF ProcOK, NotePlaces
<1> DEFINE s == note.signal
           d == note.date
<1>3. /\ s \in Signals /\ d \in Days /\ Published(s) /\ note.kind \in {"live", "ended"}
      /\ [kind |-> note.kind, date |-> d] \in threads[s]
  BY <1>1, <1>2 DEF MirrorOK, Note
<1>4. rows[s] \in Row
  BY <1>1, <1>3, RowType DEF Published
<1>5. rows'[s] = [rows[s] EXCEPT !.mirrored = d] /\ \A t \in Signals : t # s => rows'[t] = rows[t]
  BY <1>1, <1>2, <1>3 DEF TypeOK
<1>6. KeptOf(s)' = [KeptOf(s) EXCEPT !.echo = d]
  <2>1. /\ rows'[s].status = rows[s].status /\ rows'[s].date = rows[s].date
        /\ rows'[s].update = rows[s].update /\ rows'[s].mirrored = d
    BY <1>4, <1>5 DEF Row
  <2> QED
    BY <1>3, <2>1 DEF KeptOf, Published, Reached
<1>7. FeedTold' = FeedTold /\ FeedKept' = [FeedKept EXCEPT ![s].echo = d]
  <2>1. FeedKept' = [FeedKept EXCEPT ![s] = KeptOf(s)']
    BY <1>3, <1>5, OneKept
  <2> QED
    BY <1>1, <1>3, <1>6, <2>1, KeptValue, SameTold
<1>8. Feed!Mirrored(s, d)
  BY <1>3 DEF Feed!Mirrored
<1> HIDE DEF s, d
<1>9. Feed!KeepEcho(s, d)
  BY <1>1, <1>7, <1>8 DEF Feed!KeepEcho, FeedTold, ToldOf, FeedKept, KeptOf
<1>10. Feed!FeedNext
  BY <1>3, <1>9 DEF Feed!FeedNext
<1> QED
  BY <1>10 DEF FeedStep

LEMMA KeepUpdateStep ==
    ASSUME IInv, NEW w \in Workers, KeepUpdate(w)
    PROVE  FeedStep
<1>1. proc[w].at = "keep"
  BY DEF KeepUpdate, At
<1>2. proc[w] = L /\ L.at = "keep" /\ L \in Proc /\ TypeOK
  BY <1>1, AtLoop
<1>3. PICK post \in Post : post = L.post
  BY <1>2, ToldHas DEF UpdatePlaces
<1> DEFINE s == post.signal
           d == post.date
           e == IF L.delivered = 1 THEN d ELSE rows[s].mirrored
<1>4. /\ s \in Signals /\ d \in Days /\ rows[s] \in Row /\ rows[s].status = "active"
      /\ Due(s, d) /\ post.kind \in {"live", "ended"} /\ TellsAt(channel[s], post.kind, d, post.price)
  BY <1>2, <1>3, ToldHas DEF UpdatePlaces
<1>5. /\ rows' = [rows EXCEPT ![s] = Reported(@, post, L.delivered)]
      /\ channel' = channel /\ threads' = threads
  BY <1>2, <1>3 DEF KeepUpdate
<1>6. /\ rows'[s] = Reported(rows[s], post, L.delivered)
      /\ \A t \in Signals : t # s => rows'[t] = rows[t]
  BY <1>2, <1>4, <1>5 DEF TypeOK
<1>7. /\ rows'[s].status = IF post.kind = "ended" THEN "closed" ELSE "active"
      /\ rows'[s].update = d /\ rows'[s].mirrored = e
  BY <1>4, <1>6 DEF Reported, Row
<1>8. Published(s) /\ d > 0 /\ d > Reached(rows[s]) /\ e \in Days \cup {0}
  BY <1>4 DEF Published, Due, Reached, Days, Row
<1>9. KeptOf(s)' = [state |-> IF post.kind = "ended" THEN "ended" ELSE "open", date |-> d, echo |-> e]
  <2>1. Published(s)' /\ (rows'[s].status = "active" <=> post.kind # "ended")
    BY <1>7 DEF Published
  <2>2. IF rows'[s].update = 0 THEN FALSE ELSE TRUE
    BY <1>7, <1>8
  <2> QED
    BY <1>7, <2>1, <2>2 DEF KeptOf, Reached
<1>10. e = rows[s].mirrored \/ (e = d /\ Feed!Mirrored(s, d))
  <2>1. L.delivered = 1 => [kind |-> post.kind, date |-> d] \in threads[s]
    BY <1>2, <1>3 DEF IInv, UpdatesOK
  <2> QED
    BY <1>4, <2>1 DEF Feed!Mirrored
<1> HIDE DEF e, s, d
<1>11. FeedTold' = FeedTold
       /\ FeedKept' = [FeedKept EXCEPT ![s] = [state |-> IF post.kind = "ended" THEN "ended" ELSE "open",
                                               date |-> d, echo |-> e]]
  BY <1>4, <1>5, <1>6, <1>9, OneKept, SameTold
<1>12. /\ FeedKept[s].state = "open" /\ d > FeedKept[s].date
       /\ e = FeedKept[s].echo \/ (e = d /\ Feed!Mirrored(s, d))
  BY <1>4, <1>8, <1>10, KeptValue
<1>13. Feed!Said(s, [kind |-> post.kind, date |-> d])
  BY <1>4, SamePosts, SaidIfTold
<1>14. PICK e0 \in Days \cup {0} : e0 = e
  BY <1>8
<1>15. Feed!KeepReport(s, post.kind, d, e0)
  BY <1>5, <1>11, <1>12, <1>13, <1>14 DEF Feed!KeepReport, FeedTold, ToldOf, FeedKept, KeptOf
<1>16. Feed!FeedNext
  BY <1>4, <1>14, <1>15 DEF Feed!FeedNext
<1> QED
  BY <1>16 DEF FeedStep

LEMMA RecordStep ==
    ASSUME IInv, NEW w \in Workers, Record(w)
    PROVE  FeedStep
<1>1. proc[w].at = "record" /\ channel' = channel /\ threads' = threads
  BY DEF Record, At
<1>2. proc[w] = L /\ L.at = "record" /\ L \in Proc /\ TypeOK /\ L.at \in HeldPlaces /\ L.at \in SentPlaces
  BY <1>1, AtLoop DEF HeldPlaces, SentPlaces
<1>3. PICK post \in Post : post = L.post
  BY <1>2, HeldHas
<1> DEFINE s == post.signal
           d == post.date
<1>4. /\ s \in Signals /\ d \in Days /\ rows[s] \in Row /\ rows[s].status = "publishing"
      /\ rows[s].update = 0 /\ rows[s].mirrored = 0 /\ rows[s].date = d /\ post.kind = "signal"
      /\ L.message \in DOMAIN channel[s] /\ channel[s][L.message] = MessageOf(post)
  BY <1>2, <1>3, HeldHas DEF IInv, HeldOK, HeldPlaces, SentPlaces
<1>5. rows' = [rows EXCEPT ![s] = Recorded(@, L.message, L.delivered)]
  BY <1>2, <1>3 DEF Record
<1>6. /\ rows'[s] = Recorded(rows[s], L.message, L.delivered)
      /\ \A t \in Signals : t # s => rows'[t] = rows[t]
  BY <1>2, <1>4, <1>5 DEF TypeOK
<1>7. /\ rows'[s].status = "active" /\ rows'[s].date = d /\ rows'[s].update = 0
      /\ rows'[s].mirrored = 0
  BY <1>4, <1>6 DEF Recorded, Row
<1>8. KeptOf(s)' = [state |-> "open", date |-> d, echo |-> 0]
  BY <1>7 DEF KeptOf, Reached, Published
<1>9. KeptOf(s) = [state |-> "none", date |-> 0, echo |-> 0]
  BY <1>4 DEF KeptOf, Published
<1> HIDE DEF s, d
<1>10. /\ FeedTold' = FeedTold /\ FeedKept[s].state = "none"
       /\ FeedKept' = [FeedKept EXCEPT ![s] = [state |-> "open", date |-> d, echo |-> @.echo]]
  <2>1. FeedKept' = [FeedKept EXCEPT ![s] = [state |-> "open", date |-> d, echo |-> 0]]
    BY <1>4, <1>6, <1>8, OneKept
  <2>2. FeedKept[s] = [state |-> "none", date |-> 0, echo |-> 0]
    BY <1>4, <1>9, KeptValue
  <2> QED
    BY <1>1, <1>4, <2>1, <2>2, SameTold
<1>11. Feed!Said(s, [kind |-> "signal", date |-> d])
  <2>1. Tells(channel[s], "signal", d)
    BY <1>4 DEF Tells, MessageOf, d
  <2> QED
    BY <1>4, <2>1, SaidIfTold
<1>12. Feed!KeepSignal(s, d)
  BY <1>1, <1>10, <1>11 DEF Feed!KeepSignal, FeedTold, ToldOf, FeedKept, KeptOf
<1>13. Feed!FeedNext
  BY <1>4, <1>12 DEF Feed!FeedNext
<1> QED
  BY <1>13 DEF FeedStep

-----------------------------------------------------------------------------
(* Steps that the feed does not see *)

LEMMA SameRows ==
    ASSUME channel' = channel, threads' = threads, rows' = rows
    PROVE  FeedStep
BY SameKept, Stutters DEF Published

LEMMA UnseenRow ==
    ASSUME channel' = channel, threads' = threads,
           \A s \in Signals : \/ rows'[s] = rows[s]
                              \/ ~Published(s) /\ rows'[s].status \notin {"active", "closed"}
    PROVE  FeedStep
<1>1. FeedKept' = FeedKept
  BY SameKept DEF Published
<1> QED
  BY <1>1, Stutters

LEMMA OneUnseenRow ==
    ASSUME TypeOK, channel' = channel, threads' = threads, NEW s, NEW r,
           rows' = [rows EXCEPT ![s] = r],
           s \in Signals => ~Published(s) /\ r.status \notin {"active", "closed"}
    PROVE  FeedStep
<1>1. \A t \in Signals : rows'[t] = IF t = s THEN r ELSE rows[t]
  BY DEF TypeOK
<1> QED
  BY <1>1, UnseenRow

LEMMA ClaimOldestStep ==
    ASSUME IInv, NEW w \in Workers, ClaimOldest(w)
    PROVE  FeedStep
<1>1. PICK s \in Signals : OldestDraft(s) /\ rows' = Claimed(s)
  BY DEF ClaimOldest
<1>2. channel' = channel /\ threads' = threads /\ rows[s].status = "draft" /\ TypeOK
  BY <1>1 DEF ClaimOldest, OldestDraft, Drafts, IInv
<1>3. rows[s] \in Row
  BY <1>2, RowType
<1>4. \A t \in Signals : t # s => rows'[t] = rows[t]
  BY <1>1, <1>2 DEF Claimed, TypeOK
<1>5. rows'[s].status = "publishing"
  BY <1>1, <1>2, <1>3 DEF Claimed, TypeOK, Row
<1> QED
  BY <1>2, <1>4, <1>5, UnseenRow DEF Published

LEMMA ClaimStep ==
    ASSUME IInv, NEW w \in Workers, Claim(w)
    PROVE  FeedStep
<1>1. channel' = channel /\ threads' = threads /\ TypeOK
  BY DEF Claim, IInv
<1>2. CASE rows' = rows
  BY <1>1, <1>2, SameRows
<1>3. ASSUME NEW s, s = proc[w].post.signal, rows[s].status = "draft", rows' = Claimed(s)
      PROVE  FeedStep
  <2>1. \A t \in Signals : t # s => rows'[t] = rows[t]
    BY <1>1, <1>3 DEF Claimed, TypeOK
  <2>2. s \in Signals => rows'[s].status = "publishing"
    <3>1. s \in Signals => rows[s] \in Row
      BY <1>1, <1>3, RowType
    <3> QED
      BY <1>1, <1>3, <3>1 DEF Claimed, TypeOK, Row
  <2> QED
    BY <1>1, <1>3, <2>1, <2>2, UnseenRow DEF Published
<1> QED
  BY <1>2, <1>3 DEF Claim

LEMMA RefreshStep ==
    ASSUME IInv, NEW w \in Workers, Refresh(w)
    PROVE  FeedStep
<1>1. channel' = channel /\ threads' = threads /\ TypeOK /\ proc[w].at = "refresh"
  BY DEF Refresh, At, IInv
<1>2. PICK s \in Signals : s = proc[w].post.signal /\ rows[s] \in Row /\ rows[s].status = "publishing"
  BY <1>1, AtLoop, HeldHas DEF HeldPlaces
<1>3. PICK q \in Quotes \cup {NoQuote} : rows' = [rows EXCEPT ![s] = Refreshed(rows[s], q)]
  BY <1>2 DEF Refresh
<1>4. Refreshed(rows[s], q).status = "publishing"
  BY <1>2, <1>3 DEF Refreshed, Row
<1> QED
  BY <1>1, <1>2, <1>3, <1>4, OneUnseenRow DEF Published

LEMMA InsertDraftStep ==
    ASSUME IInv, NEW w \in Workers, InsertDraft(w)
    PROVE  FeedStep
<1>1. channel' = channel /\ threads' = threads /\ TypeOK
  BY DEF InsertDraft, IInv
<1>2. CASE rows' = rows
  BY <1>1, <1>2, SameRows
<1>3. ASSUME NEW s, ~Exists(s), NEW d, NEW q, rows' = [rows EXCEPT ![s] = Draft(d, q)]
      PROVE  FeedStep
  <2>1. Draft(d, q).status = "draft"
    BY DEF Draft
  <2> QED
    BY <1>1, <1>3, <2>1, OneUnseenRow DEF Published, Exists
<1> QED
  BY <1>2, <1>3 DEF InsertDraft

LEMMA StartStep ==
    ASSUME IInv, NEW w \in Workers, NEW mode, Start(w, mode)
    PROVE  FeedStep
<1>1. channel' = channel /\ threads' = threads /\ TypeOK
  BY DEF Start, IInv
<1>2. PICK old \in SUBSET Abandoned :
         rows' = [s \in Signals |-> IF s \in old THEN [rows[s] EXCEPT !.status = "draft"]
                                    ELSE rows[s]]
  BY DEF Start
<1>3. ASSUME NEW s \in Signals, s \in old
      PROVE  ~Published(s) /\ rows'[s].status = "draft"
  <2>1. rows[s].status = "publishing"
    BY <1>2, <1>3 DEF Abandoned
  <2>2. rows[s] \in Row
    BY <1>1, <2>1, RowType
  <2> QED
    BY <1>2, <1>3, <2>1, <2>2 DEF Published, Row
<1> QED
  BY <1>1, <1>2, <1>3, UnseenRow

LEMMA SaveCardStep ==
    ASSUME IInv, NEW w \in Workers, SaveCard(w)
    PROVE  FeedStep
<1>1. /\ channel' = channel /\ threads' = threads /\ TypeOK /\ proc[w].at = "saveCard"
      /\ rows' = [rows EXCEPT ![proc[w].post.signal].card = 1]
  BY DEF SaveCard, At, IInv
<1>2. PICK s \in Signals : s = proc[w].post.signal /\ Published(s)
  BY <1>1 DEF IInv, ProcsOK, ProcOK, NotesOK, MirrorOK, NotePlaces, Note
<1>3. rows[s] \in Row
  BY <1>1, <1>2, RowType DEF Published
<1>4. rows'[s] = [rows[s] EXCEPT !.card = 1] /\ \A t \in Signals : t # s => rows'[t] = rows[t]
  BY <1>1, <1>2 DEF TypeOK
<1>5. /\ rows'[s].status = rows[s].status /\ rows'[s].date = rows[s].date
      /\ rows'[s].update = rows[s].update /\ rows'[s].mirrored = rows[s].mirrored
  BY <1>3, <1>4 DEF Row
<1>6. FeedKept' = FeedKept
  BY <1>4, <1>5, SameKept DEF Published
<1> QED
  BY <1>1, <1>6, Stutters

-----------------------------------------------------------------------------
(* The refinement *)

LEMMA FeedInitially == Init => Feed!FeedInit
<1> SUFFICES ASSUME Init PROVE Feed!FeedInit
  OBVIOUS
<1>1. \A s \in Signals : rows[s].status = "absent" /\ channel[s] = <<>>
  BY DEF Init, NoRow
<1>2. ASSUME NEW s \in Signals PROVE ToldOf(s) = <<>> /\ KeptOf(s) = Feed!NotKept
  <2>1. ToldOf(s) = [i \in {} |-> Dated(channel[s][i])]
    BY <1>1 DEF ToldOf
  <2>2. KeptOf(s) = [state |-> "none", date |-> 0, echo |-> 0]
    BY <1>1 DEF KeptOf, Published
  <2> QED
    BY <2>1, <2>2 DEF Feed!NotKept
<1>3. /\ FeedTold = [s \in Signals |-> <<>>] /\ FeedKept = [s \in Signals |-> Feed!NotKept]
      /\ threads = [s \in Signals |-> {}]
  BY <1>2 DEF FeedTold, FeedKept, Init
<1> QED
  BY <1>3 DEF Feed!FeedInit, FeedTold, ToldOf, FeedKept, KeptOf

LEMMA FeedSteps == IInv /\ [Next]_vars => [Feed!FeedNext]_(Feed!feedVars)
<1> SUFFICES ASSUME IInv, [Next]_vars PROVE FeedStep
  BY DEF FeedStep
<1>1. CASE NewDay \/ UNCHANGED vars \/ Crash \/ \E s \in Signals : Observe(s)
  <2>1. channel' = channel /\ threads' = threads /\ rows' = rows
    BY <1>1 DEF NewDay, vars, Crash, Observe
  <2> QED
    BY <2>1, SameRows
<1>2. ASSUME NEW w \in Workers, MainStep(w) PROVE FeedStep
  <2>1. CASE SelectCandidate(w) \/ MakeFavorite(w)
    BY <2>1, SameRows DEF SelectCandidate, MakeFavorite
  <2> QED
    BY <1>2, <2>1, ClaimOldestStep, InsertDraftStep, ClaimStep, RefreshStep, SendStep,
       MirrorSignalStep, RecordStep DEF MainStep
<1>3. ASSUME NEW w \in Workers, UpdateStep(w) PROVE FeedStep
  <2>1. CASE ReadRows(w) \/ Told(w)
    BY <2>1, SameRows DEF ReadRows, Told
  <2> QED
    BY <1>3, <2>1, TellStep, EchoUpdateStep, KeepUpdateStep DEF UpdateStep
<1>4. ASSUME NEW w \in Workers, BackfillStep(w) PROVE FeedStep
  <2>1. CASE ReadReplies(w)
    BY <2>1, SameRows DEF ReadReplies
  <2> QED
    BY <1>4, <2>1, SendCardStep, SaveCardStep, SendReplyStep, SaveReplyStep DEF BackfillStep
<1> QED
  BY <1>1, <1>2, <1>3, <1>4, StartStep DEF Next, Step

\* The automation implements the feed: what its rows say the channel was told before, an end
\* told is never followed by "still on", whatever fails, dies or runs at the same time.
THEOREM FeedImplemented == Spec => ImplementsFeed
<1>1. Init => Feed!FeedInit
  BY FeedInitially
<1>2. IInv /\ [Next]_vars => [Feed!FeedNext]_(Feed!feedVars)
  BY FeedSteps
<1> QED
  BY <1>1, <1>2, Invariance, PTL DEF Spec, ImplementsFeed, Feed!FeedSpec
=============================================================================
