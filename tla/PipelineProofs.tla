--------------------------- MODULE PipelineProofs ---------------------------
(* Proofs about the systems of the data side and about MCPipeline, which runs them.
   First OrderBook, for any prices, sizes, interval and bounds: a record is the
   exchange's book.  Then Canonical, for any audits and builders: a published
   dataset is what the audit lists.  Then what of MCPipeline follows from these and
   from the proofs about splits. *)
EXTENDS MCPipeline, ResearchProofs

-----------------------------------------------------------------------------
(* The order book.  The inductive invariant says how the messages on the wire
   continue one another and the book that the normalizer keeps; it is stated of
   values, so that a step is followed by what it does to each of them. *)

BookValues == [Prices -> Sizes]

Messages(n) ==
  [type : {"snapshot", "delta"}, u : Nat \ {0}, seq : 1 .. n, levels : Levels]

RecordsUpTo(n) ==
  [type : {"snapshot", "delta"}, seq : 1 .. n, levels : Levels, at : 0 .. MaxTime]

\* A message says what the exchange's books H were: the whole of one, or how one
\* came from the one before.
Tells(m, H) ==
  IF IsSnapshot(m)
  THEN m.levels = Full(H[m.seq])
  ELSE /\ m.seq > 1
       /\ \E p \in Prices, s \in Sizes : /\ H[m.seq] = [H[m.seq - 1] EXCEPT ![p] = s]
                                         /\ m.levels = [q \in {p} |-> s]

\* A message comes after the numbers u and seq: it repeats them or is the next.
Continues(m, u, seq) ==
  \/ m.seq = seq /\ m.u = u
  \/ m.seq = seq + 1 /\ m.u \in {1, u + 1}

\* The messages on the wire tell one after the other how the books went on, up to
\* the last book and its update id t.
Chained(w, H, t) ==
  /\ w \in Seq(Messages(Len(H)))
  /\ \A i \in 1 .. Len(w) : Tells(w[i], H)
  /\ \A i \in 2 .. Len(w) : Continues(w[i], w[i - 1].u, w[i - 1].seq)
  /\ \A i, j \in 1 .. Len(w) : i <= j => w[i].seq <= w[j].seq
  /\ Len(w) > 0 => w[Len(w)].seq = Len(H) /\ w[Len(w)].u = t

\* The first of them comes after the book that is kept.
Awaited(w, H, t, u, seq) ==
  IF Len(w) = 0 THEN seq = Len(H) /\ u = t ELSE Continues(w[1], u, seq)

\* The book that is kept is the exchange's, at its sequence number.
Known(H, b, init, u, seq) ==
  /\ b \in Levels /\ \A p \in DOMAIN b : b[p] # 0
  /\ init \in BOOLEAN /\ u \in Nat /\ seq \in 0 .. Len(H)
  /\ init => seq \in 1 .. Len(H) /\ b = Full(H[seq])

\* A record is the exchange's book, and no message on the wire is older.
Recorded(r, H, w, init, seq) ==
  /\ r \in RecordsUpTo(Len(H)) /\ r.levels = Full(H[r.seq])
  /\ init => r.seq <= seq
  /\ w # None => \A i \in 1 .. Len(w) : r.seq <= w[i].seq

Numbered ==
  /\ past \in Seq(BookValues) /\ Len(past) > 0 /\ theirs \in Nat \ {0}
  /\ dials \in 0 .. MaxDials /\ now \in 0 .. MaxTime /\ emitted \in {None} \cup 0 .. MaxTime

BookInv ==
  /\ Numbered
  /\ Known(past, bids, initialized, update_id, sequence)
  /\ wire # None => /\ Chained(wire, past, theirs)
                    /\ initialized => Awaited(wire, past, theirs, update_id, sequence)
  /\ record # None => Recorded(record, past, wire, initialized, sequence)

-----------------------------------------------------------------------------
(* BookValues *)

\* A book with the levels that have a size is a message's levels.
LEMMA FullTyped ==
  ASSUME NEW b \in BookValues
  PROVE  Full(b) \in Levels /\ \A p \in DOMAIN Full(b) : Full(b)[p] # 0
<1>. DEFINE P == {q \in Prices : b[q] # 0}
<1>1. P \in SUBSET Prices /\ Full(b) = [p \in P |-> b[p]]
  BY DEF Full
<1>2. \A p \in P : b[p] \in Sizes /\ b[p] # 0
  BY DEF BookValues
<1>. HIDE DEF P
<1>3. Full(b) \in [P -> Sizes]
  BY <1>1, <1>2
<1>. QED BY <1>1, <1>2, <1>3 DEF Levels

\* A snapshot replaces whatever was kept.
LEMMA SnapshotTaken ==
  ASSUME NEW b \in BookValues
  PROVE  ApplySide(Empty, Full(b)) = Full(b)
<1>. DEFINE l == Full(b)
<1>1. /\ DOMAIN Empty = {} /\ \A p \in DOMAIN l : l[p] # 0
      /\ l = [p \in DOMAIN l |-> l[p]]
  BY FullTyped DEF Empty, Full
<1>. HIDE DEF l
<1>2. {q \in DOMAIN Empty \cup DOMAIN l : q \in DOMAIN l => l[q] # 0} = DOMAIN l
  BY <1>1
<1>3. ApplySide(Empty, l) = [p \in DOMAIN l |-> l[p]]
  BY <1>2 DEF ApplySide
<1>. QED BY <1>1, <1>3 DEF l

\* A delta makes of a book the one that came after it.
LEMMA DeltaTaken ==
  ASSUME NEW b \in BookValues, NEW p \in Prices, NEW s \in Sizes
  PROVE  ApplySide(Full(b), [q \in {p} |-> s]) = Full([b EXCEPT ![p] = s])
<1>. DEFINE c == [b EXCEPT ![p] = s]
            l == [q \in {p} |-> s]
            D == {q \in Prices : b[q] # 0}
            E == {q \in Prices : c[q] # 0}
<1>1. /\ c \in BookValues /\ c[p] = s /\ \A q \in Prices : q # p => c[q] = b[q]
      /\ DOMAIN l = {p} /\ l[p] = s
  BY DEF BookValues
<1>2. /\ Full(b) = [q \in D |-> b[q]] /\ DOMAIN Full(b) = D
      /\ Full(c) = [q \in E |-> c[q]]
  BY DEF Full
<1>3. \A q \in D : Full(b)[q] = b[q]
  BY <1>2
<1>. HIDE DEF c, l
<1>4. {q \in D \cup DOMAIN l : q \in DOMAIN l => l[q] # 0} = E
  BY <1>1
<1>5. \A q \in E : (IF q \in DOMAIN l THEN l[q] ELSE Full(b)[q]) = c[q]
  BY <1>1, <1>3
<1>. HIDE DEF D, E
<1>6. ApplySide(Full(b), l) = [q \in E |-> IF q \in DOMAIN l THEN l[q] ELSE Full(b)[q]]
  BY <1>2, <1>4 DEF ApplySide
<1>7. ApplySide(Full(b), l) = [q \in E |-> c[q]]
  BY <1>5, <1>6
<1>. QED BY <1>2, <1>7 DEF c, l

-----------------------------------------------------------------------------
(* The exchange and the connection *)

\* BookValues are only added.
Grows(H, K) == Len(H) <= Len(K) /\ \A n \in 1 .. Len(H) : K[n] = H[n]

\* What was told of the books is true of those with more behind them.
LEMMA StillTold ==
  ASSUME NEW H \in Seq(BookValues), NEW K \in Seq(BookValues), Grows(H, K),
         NEW m, m.seq \in 1 .. Len(H), Tells(m, H)
  PROVE  Tells(m, K)
<1>1. Len(H) \in Nat /\ K[m.seq] = H[m.seq]
  BY LenProperties DEF Grows
<1>2. m.seq > 1 => m.seq - 1 \in 1 .. Len(H)
  BY <1>1
<1>3. m.seq > 1 => K[m.seq - 1] = H[m.seq - 1]
  BY <1>2 DEF Grows
<1>4. CASE IsSnapshot(m)
  <2>1. m.levels = Full(H[m.seq])
    BY <1>4 DEF Tells
  <2>. QED BY <1>1, <1>4, <2>1 DEF Tells
<1>5. CASE ~IsSnapshot(m)
  <2>1. m.seq > 1
    BY <1>5 DEF Tells
  <2>2. PICK p \in Prices, s \in Sizes : /\ H[m.seq] = [H[m.seq - 1] EXCEPT ![p] = s]
                                       /\ m.levels = [q \in {p} |-> s]
    BY <1>5 DEF Tells
  <2>3. K[m.seq] = [K[m.seq - 1] EXCEPT ![p] = s]
    BY <1>1, <1>3, <2>1, <2>2
  <2>. QED BY <1>5, <2>1, <2>2, <2>3 DEF Tells
<1>. QED BY <1>4, <1>5

Behind(w, m) == Append(w, m)

\* The message of a change, or a snapshot, goes behind the others.
LEMMA MessageSent ==
  ASSUME NEW H \in Seq(BookValues), NEW K \in Seq(BookValues), Grows(H, K),
         NEW w, NEW t, Chained(w, H, t),
         NEW m \in Messages(Len(K)), m.seq = Len(K), Tells(m, K), Continues(m, t, Len(H)),
         NEW v, v = Behind(w, m)
  PROVE  /\ Chained(v, K, m.u)
         /\ \A u, seq : Awaited(w, H, t, u, seq) => Awaited(v, K, m.u, u, seq)
         /\ \A i \in 1 .. Len(v) : (i \in 1 .. Len(w) /\ v[i] = w[i]) \/ v[i].seq = Len(K)
<1>. DEFINE n == Len(w)
<1>1. /\ n \in Nat /\ Len(H) \in Nat /\ Len(K) \in Nat /\ w \in Seq(Messages(Len(H)))
      /\ \A i \in 1 .. n : w[i] \in Messages(Len(H))
  BY LenProperties, ElementOfSeq DEF Chained
<1>2. Messages(Len(H)) \subseteq Messages(Len(K))
  BY <1>1 DEF Messages, Grows
<1>3. w \in Seq(Messages(Len(K)))
  BY <1>1, <1>2, SeqMonotonic
<1>4. /\ v \in Seq(Messages(Len(K))) /\ Len(v) = n + 1 /\ v[n + 1] = m
      /\ \A i \in 1 .. n : v[i] = w[i]
  BY <1>3, AppendProperties DEF Behind
<1>5. \A i \in 1 .. n : w[i].seq \in 1 .. Len(H)
  BY <1>1 DEF Messages
<1>. HIDE DEF n
<1>6. \A i \in 1 .. n + 1 : i \in 1 .. n \/ i = n + 1
  BY <1>1
<1>7. \A i \in 1 .. n + 1 : Tells(v[i], K)
  <2>1. \A i \in 1 .. n : Tells(w[i], H)
    BY DEF Chained, n
  <2>2. \A i \in 1 .. n : Tells(w[i], K)
    BY <1>5, <2>1, StillTold
  <2>. QED BY <1>4, <1>6, <2>2
<1>8. ASSUME NEW i \in 2 .. n + 1 PROVE Continues(v[i], v[i - 1].u, v[i - 1].seq)
  <2>1. CASE i = n + 1
    <3>1. n > 0 /\ n \in 1 .. n /\ i - 1 = n
      BY <1>1, <2>1
    <3>2. w[n].seq = Len(H) /\ w[n].u = t
      BY <3>1 DEF Chained, n
    <3>. QED BY <1>4, <2>1, <3>1, <3>2
  <2>2. CASE i # n + 1
    <3>1. i \in 2 .. n /\ i \in 1 .. n /\ i - 1 \in 1 .. n
      BY <1>1, <2>2
    <3>. QED BY <1>4, <3>1 DEF Chained, n
  <2>. QED BY <2>1, <2>2
<1>9. ASSUME NEW i \in 1 .. n + 1, NEW j \in 1 .. n + 1, i <= j PROVE v[i].seq <= v[j].seq
  <2>1. CASE j = n + 1
    <3>1. v[i] \in Messages(Len(K))
      BY <1>4, ElementOfSeq
    <3>2. v[i].seq \in 1 .. Len(K)
      BY <3>1 DEF Messages
    <3>. QED BY <1>1, <1>4, <2>1, <3>2
  <2>2. CASE j # n + 1
    <3>1. i \in 1 .. n /\ j \in 1 .. n
      BY <1>1, <1>9, <2>2
    <3>. QED BY <1>4, <1>9, <3>1 DEF Chained, n
  <2>. QED BY <2>1, <2>2
<1>10. Chained(v, K, m.u)
  BY <1>1, <1>4, <1>7, <1>8, <1>9 DEF Chained
<1>11. ASSUME NEW u, NEW seq, Awaited(w, H, t, u, seq) PROVE Awaited(v, K, m.u, u, seq)
  <2>1. Len(v) # 0
    BY <1>1, <1>4
  <2>2. CASE n = 0
    <3>1. seq = Len(H) /\ u = t /\ v[1] = m
      BY <1>4, <1>11, <2>2 DEF Awaited, n
    <3>. QED BY <2>1, <3>1 DEF Awaited
  <2>3. CASE n # 0
    <3>1. v[1] = w[1] /\ Continues(w[1], u, seq)
      BY <1>1, <1>4, <1>11, <2>3 DEF Awaited, n
    <3>. QED BY <2>1, <3>1 DEF Awaited
  <2>. QED BY <2>2, <2>3
<1>. QED BY <1>4, <1>6, <1>10, <1>11 DEF n

\* What is kept and recorded stays right while books are added and messages sent.
LEMMA StepSend ==
  ASSUME BookInv, past' \in Seq(BookValues), Grows(past, past'), theirs' \in Nat \ {0},
         NEW m \in Messages(Len(past')), m.seq = Len(past'), m.u = theirs',
         Tells(m, past'), Continues(m, theirs, Len(past)),
         wire' = None \/ (wire # None /\ wire' = Append(wire, m)),
         UNCHANGED <<dials, state, now, emitted, record>>
  PROVE  BookInv'
<1>1. /\ past \in Seq(BookValues) /\ Len(past) \in Nat /\ Len(past') \in Nat
      /\ Len(past) <= Len(past') /\ Len(past) > 0
  BY LenProperties DEF BookInv, Numbered, Grows
<1>2. UNCHANGED <<dials, bids, initialized, update_id, sequence, now, emitted, record>>
  BY DEF state
<1>3. Numbered'
  BY <1>1, <1>2 DEF BookInv, Numbered
<1>4. Known(past', bids', initialized', update_id', sequence')
  BY <1>1, <1>2 DEF BookInv, Known, Grows
<1>5. CASE wire' = None
  <2>1. record # None => Recorded(record, past', wire', initialized, sequence)
    BY <1>1, <1>5 DEF BookInv, Recorded, RecordsUpTo, Grows
  <2>. QED BY <1>2, <1>3, <1>4, <1>5, <2>1 DEF BookInv
<1>6. CASE wire # None /\ wire' = Append(wire, m)
  <2>1. Chained(wire, past, theirs)
    BY <1>6 DEF BookInv
  <2>2. /\ Chained(wire', past', m.u)
        /\ \A u, seq : Awaited(wire, past, theirs, u, seq) => Awaited(wire', past', m.u, u, seq)
        /\ \A i \in 1 .. Len(wire') : (i \in 1 .. Len(wire) /\ wire'[i] = wire[i])
                                        \/ wire'[i].seq = Len(past')
    <3>1. wire' = Behind(wire, m)
      BY <1>6 DEF Behind
    <3>. QED BY <1>1, <2>1, <3>1, MessageSent
  <2>3. initialized => Awaited(wire', past', theirs', update_id, sequence)
    BY <1>6, <2>2 DEF BookInv
  <2>4. record # None => Recorded(record, past', wire', initialized, sequence)
    <3>1. SUFFICES ASSUME record # None PROVE Recorded(record, past', wire', initialized, sequence)
      OBVIOUS
    <3>2. /\ record \in RecordsUpTo(Len(past)) /\ record.levels = Full(past[record.seq])
          /\ initialized => record.seq <= sequence
          /\ \A i \in 1 .. Len(wire) : record.seq <= wire[i].seq
      BY <1>6, <3>1 DEF BookInv, Recorded
    <3>3. record.seq \in 1 .. Len(past) /\ record \in RecordsUpTo(Len(past'))
      BY <1>1, <3>2 DEF RecordsUpTo
    <3>4. past'[record.seq] = past[record.seq]
      BY <3>3 DEF Grows
    <3>5. \A i \in 1 .. Len(wire') : record.seq <= wire'[i].seq
      BY <1>1, <2>2, <3>2, <3>3
    <3>. QED BY <3>2, <3>3, <3>4, <3>5 DEF Recorded
  <2>. QED BY <1>2, <1>3, <1>4, <2>2, <2>3, <2>4 DEF BookInv
<1>. QED BY <1>5, <1>6

\* At the start the exchange has one book and nothing is kept.
LEMMA BookInit ==
  ASSUME Init PROVE BookInv
<1>1. PICK b \in BookValues : past = <<b>>
  BY DEF Init, BookValues
<1>2. past \in Seq(BookValues) /\ Len(past) = 1
  BY <1>1
<1>3. Empty \in Levels /\ \A p \in DOMAIN Empty : Empty[p] # 0
  <2>1. DOMAIN Empty = {} /\ Empty = [p \in {} |-> 0]
    BY DEF Empty
  <2>2. Empty \in [{} -> Sizes] /\ {} \in SUBSET Prices
    BY <2>1
  <2>. QED BY <2>1, <2>2 DEF Levels
<1>4. 0 \in 0 .. MaxDials /\ 0 \in 0 .. MaxTime
  BY BookAssumption
<1>5. Numbered
  BY <1>2, <1>4 DEF Init, Numbered
<1>6. Known(past, bids, initialized, update_id, sequence)
  <2>1. bids = Empty /\ initialized = FALSE /\ update_id = 0 /\ sequence = 0
    BY DEF Init
  <2>2. 0 \in 0 .. Len(past) /\ 0 \in Nat
    BY <1>2
  <2>. QED BY <1>3, <2>1, <2>2 DEF Known
<1>7. wire = None /\ record = None
  BY DEF Init
<1>. QED BY <1>5, <1>6, <1>7 DEF BookInv

\* A level changes.
LEMMA StepChange ==
  ASSUME BookInv, NEW p \in Prices, NEW s \in Sizes, Change(p, s)
  PROVE  BookInv'
<1>. DEFINE n == Len(past)
            d == [past[n] EXCEPT ![p] = s]
            l == [q \in {p} |-> s]
            m == Message("delta", theirs + 1, n + 1, l)
<1>1. past \in Seq(BookValues) /\ n \in Nat /\ n > 0 /\ theirs \in Nat \ {0}
  BY LenProperties DEF BookInv, Numbered
<1>2. /\ past' = Append(past, d) /\ theirs' = theirs + 1
      /\ UNCHANGED <<dials, state, now, emitted, record>>
  BY DEF Change
<1>3. past[n] \in BookValues /\ d \in BookValues
  <2>1. past[n] \in BookValues
    BY <1>1, ElementOfSeq
  <2>. QED BY <2>1 DEF BookValues
<1>. HIDE DEF d
<1>4. /\ past' \in Seq(BookValues) /\ Len(past') = n + 1 /\ past'[n + 1] = d
      /\ \A i \in 1 .. n : past'[i] = past[i]
  BY <1>1, <1>2, <1>3, AppendProperties
<1>5. Grows(past, past')
  BY <1>1, <1>4 DEF Grows
<1>6. l \in Levels
  <2>1. l \in [{p} -> Sizes] /\ {p} \in SUBSET Prices
    OBVIOUS
  <2>. QED BY <2>1 DEF Levels
<1>7. wire' = None \/ (wire # None /\ wire' = Append(wire, m))
  <2>1. Send(Message("delta", theirs + 1, n + 1, l))
    BY <1>2, <1>4 DEF Change
  <2>. QED BY <2>1 DEF Send
<1>8. /\ m.type = "delta" /\ m.u = theirs + 1 /\ m.seq = n + 1 /\ m.levels = l
      /\ m = [type |-> "delta", u |-> theirs + 1, seq |-> n + 1, levels |-> l]
  BY DEF Message
<1>9. past'[n] = past[n] /\ n + 1 - 1 = n
  BY <1>1, <1>4
<1>10. Tells(m, past')
  <2>1. ~IsSnapshot(m) /\ m.seq > 1
    BY <1>1, <1>8 DEF IsSnapshot
  <2>2. past'[m.seq] = [past'[m.seq - 1] EXCEPT ![p] = s]
    BY <1>4, <1>8, <1>9 DEF d
  <2>. QED BY <1>8, <2>1, <2>2 DEF Tells
<1>11. m \in Messages(Len(past'))
  BY <1>1, <1>4, <1>6, <1>8 DEF Messages
<1>12. Continues(m, theirs, Len(past))
  BY <1>8 DEF Continues
<1>. HIDE DEF m
<1>. QED BY <1>1, <1>2, <1>4, <1>5, <1>7, <1>8, <1>10, <1>11, <1>12, StepSend

\* The exchange's service restarts.
LEMMA StepServiceRestart ==
  ASSUME BookInv, NEW type \in {"snapshot", "delta"}, ServiceRestart(type)
  PROVE  BookInv'
<1>. DEFINE n == Len(past)
<1>1. past \in Seq(BookValues) /\ n \in Nat /\ n > 0
  BY LenProperties DEF BookInv, Numbered
<1>2. PICK b \in BookValues : past' = Append(past, b)
  BY DEF ServiceRestart, BookValues
<1>3. theirs' = 1 /\ UNCHANGED <<dials, state, now, emitted, record>>
  BY DEF ServiceRestart
<1>4. /\ past' \in Seq(BookValues) /\ Len(past') = n + 1 /\ past'[n + 1] = b
      /\ \A i \in 1 .. n : past'[i] = past[i]
  BY <1>1, <1>2, AppendProperties
<1>. DEFINE m == Message(type, 1, n + 1, Full(b))
<1>5. Grows(past, past')
  BY <1>1, <1>4 DEF Grows
<1>6. Full(b) \in Levels
  BY FullTyped
<1>7. wire' = None \/ (wire # None /\ wire' = Append(wire, m))
  <2>1. Send(Message(type, 1, n + 1, Full(b)))
    BY <1>4 DEF ServiceRestart
  <2>. QED BY <2>1 DEF Send
<1>8. /\ m.u = 1 /\ m.seq = n + 1 /\ m.levels = Full(b)
      /\ m = [type |-> type, u |-> 1, seq |-> n + 1, levels |-> Full(b)]
  BY DEF Message
<1>9. Tells(m, past')
  BY <1>4, <1>8 DEF Tells, IsSnapshot
<1>10. m \in Messages(Len(past'))
  BY <1>1, <1>4, <1>6, <1>8 DEF Messages
<1>11. Continues(m, theirs, Len(past)) /\ theirs' \in Nat \ {0}
  BY <1>3, <1>8 DEF Continues
<1>. HIDE DEF m
<1>. QED BY <1>1, <1>3, <1>4, <1>5, <1>7, <1>8, <1>9, <1>10, <1>11, StepSend

\* The exchange sends its book.
LEMMA StepSendSnapshot ==
  ASSUME BookInv, SendSnapshot
  PROVE  BookInv'
<1>. DEFINE n == Len(past)
            b == past[n]
            m == Message("snapshot", theirs, n, Full(b))
<1>1. past \in Seq(BookValues) /\ n \in Nat /\ n > 0 /\ theirs \in Nat \ {0}
  BY LenProperties DEF BookInv, Numbered
<1>2. b \in BookValues
  BY <1>1, ElementOfSeq
<1>3. /\ UNCHANGED <<past, theirs>> /\ UNCHANGED <<dials, state, now, emitted, record>>
      /\ wire # None /\ wire' = Append(wire, m)
  BY DEF SendSnapshot, exchange
<1>4. Grows(past, past') /\ past' = past /\ theirs' = theirs
  BY <1>1, <1>3 DEF Grows
<1>5. /\ m.type = "snapshot" /\ m.u = theirs /\ m.seq = n /\ m.levels = Full(b)
      /\ m = [type |-> "snapshot", u |-> theirs, seq |-> n, levels |-> Full(b)]
  BY DEF Message
<1>6. Tells(m, past')
  BY <1>4, <1>5 DEF Tells, IsSnapshot
<1>7. m \in Messages(Len(past'))
  BY <1>1, <1>2, <1>4, <1>5, FullTyped DEF Messages
<1>8. Continues(m, theirs, Len(past))
  BY <1>5 DEF Continues
<1>. HIDE DEF m, b
<1>. QED BY <1>1, <1>3, <1>4, <1>5, <1>6, <1>7, <1>8, StepSend

-----------------------------------------------------------------------------
(* The normalizer *)

\* The connection is lost, or time passes.
LEMMA StepDisconnect ==
  ASSUME BookInv, Disconnect \/ Tick
  PROVE  BookInv'
<1>1. /\ UNCHANGED <<past, theirs, dials, emitted, record>>
      /\ UNCHANGED <<bids, initialized, update_id, sequence>>
      /\ wire' = wire \/ wire' = None
  BY DEF Disconnect, Tick, exchange, state
<1>2. now' \in 0 .. MaxTime
  BY BookAssumption DEF Disconnect, Tick, BookInv, Numbered
<1>3. Numbered'
  BY <1>1, <1>2 DEF BookInv, Numbered
<1>4. Known(past', bids', initialized', update_id', sequence')
  BY <1>1 DEF BookInv
<1>5. wire' # None => /\ Chained(wire', past', theirs')
                      /\ initialized' => Awaited(wire', past', theirs', update_id', sequence')
  BY <1>1 DEF BookInv
<1>6. record' # None => Recorded(record', past', wire', initialized', sequence')
  BY <1>1 DEF BookInv, Recorded
<1>. QED BY <1>3, <1>4, <1>5, <1>6 DEF BookInv

\* A connection begins: the book that was kept is forgotten.
LEMMA StepConnect ==
  ASSUME BookInv, Connect
  PROVE  BookInv'
<1>1. /\ UNCHANGED <<past, theirs, now, record>> /\ wire' = <<>>
      /\ dials' = dials + 1 /\ dials < MaxDials /\ emitted' = None
      /\ bids' = Empty /\ initialized' = FALSE /\ update_id' = 0 /\ sequence' = 0
  BY DEF Connect, ResetState, exchange
<1>2. dials' \in 0 .. MaxDials
  BY <1>1, BookAssumption DEF BookInv, Numbered
<1>3. Numbered'
  BY <1>1, <1>2 DEF BookInv, Numbered
<1>4. Known(past', bids', initialized', update_id', sequence')
  <2>1. Empty \in Levels /\ \A p \in DOMAIN Empty : Empty[p] # 0
    <3>1. DOMAIN Empty = {} /\ Empty = [p \in {} |-> 0]
      BY DEF Empty
    <3>2. Empty \in [{} -> Sizes] /\ {} \in SUBSET Prices
      BY <3>1
    <3>. QED BY <3>1, <3>2 DEF Levels
  <2>2. 0 \in 0 .. Len(past') /\ 0 \in Nat
    BY <1>3, LenProperties DEF Numbered
  <2>. QED BY <1>1, <2>1, <2>2 DEF Known
<1>5. Chained(wire', past', theirs')
  <2>1. <<>> \in Seq(Messages(Len(past'))) /\ Len(<<>>) = 0
    OBVIOUS
  <2>. QED BY <1>1, <2>1 DEF Chained
<1>6. record' # None => Recorded(record', past', wire', initialized', sequence')
  <2>1. Len(<<>>) = 0
    OBVIOUS
  <2>. QED BY <1>1, <2>1 DEF BookInv, Recorded
<1>. QED BY <1>1, <1>3, <1>4, <1>5, <1>6 DEF BookInv

\* Without its first message the wire goes on from that message.
LEMMA MessageTaken ==
  ASSUME NEW H \in Seq(BookValues), NEW w, NEW t, Chained(w, H, t), w # <<>>,
         NEW v, v = w \/ v = Tail(w)
  PROVE  /\ Chained(v, H, t)
         /\ Awaited(v, H, t, Head(w).u, Head(w).seq)
         /\ \A i \in 1 .. Len(v) : \E j \in 1 .. Len(w) : v[i] = w[j]
<1>. DEFINE n == Len(w)
<1>1. /\ w \in Seq(Messages(Len(H))) /\ n \in Nat /\ n > 0
      /\ Head(w) = w[1]
  BY LenProperties, EmptySeq DEF Chained
<1>2. CASE v = w
  <2>1. Continues(w[1], w[1].u, w[1].seq)
    BY DEF Continues
  <2>. QED BY <1>1, <1>2, <2>1 DEF Awaited
<1>3. CASE v = Tail(w)
  <2>1. /\ v \in Seq(Messages(Len(H))) /\ Len(v) = n - 1
        /\ \A i \in 1 .. Len(v) : v[i] = w[i + 1]
    <3>1. /\ Tail(w) \in Seq(Messages(Len(H))) /\ Len(Tail(w)) = Len(w) - 1
          /\ \A i \in 1 .. Len(Tail(w)) : Tail(w)[i] = w[i + 1]
      BY <1>1, HeadTailProperties, Zenon
    <3>. QED BY <1>3, <3>1
  <2>. HIDE DEF n
  <2>2. \A i \in 1 .. n - 1 : i \in 1 .. n /\ i + 1 \in 1 .. n /\ v[i] = w[i + 1]
    BY <1>1, <2>1
  <2>3. \A i \in 1 .. n - 1 : Tells(v[i], H)
    BY <2>2 DEF Chained, n
  <2>4. ASSUME NEW i \in 2 .. n - 1 PROVE Continues(v[i], v[i - 1].u, v[i - 1].seq)
    <3>1. /\ i \in 1 .. n - 1 /\ i - 1 \in 1 .. n - 1 /\ i + 1 \in 2 .. n
          /\ i - 1 + 1 = i /\ i + 1 - 1 = i
      BY <1>1
    <3>2. v[i] = w[i + 1] /\ v[i - 1] = w[i]
      BY <2>2, <3>1
    <3>3. Continues(w[i + 1], w[i].u, w[i].seq)
      BY <3>1 DEF Chained, n
    <3>. QED BY <3>2, <3>3
  <2>5. ASSUME NEW i \in 1 .. n - 1, NEW j \in 1 .. n - 1, i <= j PROVE v[i].seq <= v[j].seq
    <3>1. i + 1 \in 1 .. n /\ j + 1 \in 1 .. n /\ i + 1 <= j + 1
      BY <1>1, <2>5
    <3>. QED BY <2>2, <3>1 DEF Chained, n
  <2>6. n - 1 > 0 => v[n - 1].seq = Len(H) /\ v[n - 1].u = t
    <3>1. SUFFICES ASSUME n - 1 > 0 PROVE v[n - 1].seq = Len(H) /\ v[n - 1].u = t
      OBVIOUS
    <3>2. n - 1 \in 1 .. n - 1 /\ n - 1 + 1 = n
      BY <1>1, <3>1
    <3>. QED BY <1>1, <2>2, <3>2 DEF Chained, n
  <2>7. Chained(v, H, t)
    BY <2>1, <2>3, <2>4, <2>5, <2>6 DEF Chained
  <2>8. Awaited(v, H, t, w[1].u, w[1].seq)
    <3>1. CASE n = 1
      <4>1. w[1].seq = Len(H) /\ w[1].u = t /\ Len(v) = 0
        BY <2>1, <3>1 DEF Chained, n
      <4>. QED BY <4>1 DEF Awaited
    <3>2. CASE n # 1
      <4>1. 1 \in 1 .. n - 1 /\ 2 \in 2 .. n /\ 2 - 1 = 1 /\ 1 + 1 = 2 /\ Len(v) # 0
        BY <1>1, <2>1, <3>2
      <4>2. v[1] = w[2]
        BY <2>2, <4>1
      <4>3. Continues(w[2], w[1].u, w[1].seq)
        BY <4>1 DEF Chained, n
      <4>. QED BY <4>1, <4>2, <4>3 DEF Awaited
    <3>. QED BY <3>1, <3>2
  <2>. QED BY <1>1, <2>1, <2>2, <2>7, <2>8 DEF n
<1>. QED BY <1>2, <1>3

\* What the invariant says of the message that is taken.
LEMMA Oldest ==
  ASSUME BookInv, wire # None, wire # <<>>
  PROVE  /\ Head(wire) \in Messages(Len(past)) /\ Tells(Head(wire), past)
         /\ initialized => Continues(Head(wire), update_id, sequence)
         /\ record # None => record.seq <= Head(wire).seq
<1>1. Chained(wire, past, theirs) /\ wire \in Seq(Messages(Len(past)))
  BY DEF BookInv, Chained
<1>2. Len(wire) \in Nat /\ Len(wire) > 0 /\ Head(wire) = wire[1]
  BY <1>1, LenProperties, EmptySeq
<1>3. 1 \in 1 .. Len(wire) /\ wire[1] \in Messages(Len(past))
  BY <1>1, <1>2, ElementOfSeq
<1>4. Tells(wire[1], past)
  BY <1>1, <1>3 DEF Chained
<1>5. initialized => Continues(wire[1], update_id, sequence)
  BY <1>2 DEF BookInv, Awaited
<1>6. record # None => record.seq <= wire[1].seq
  BY <1>3 DEF BookInv, Recorded
<1>. QED BY <1>2, <1>3, <1>4, <1>5, <1>6

\* A message that is taken leaves the exchange's book, as it was when the message
\* was made.
LEMMA BookTaken ==
  ASSUME BookInv, NEW m \in Messages(Len(past)), Tells(m, past),
         initialized => Continues(m, update_id, sequence), IsSnapshot(m) \/ Follows(m)
  PROVE  ApplySide(IF IsSnapshot(m) THEN Empty ELSE bids, m.levels) = Full(past[m.seq])
<1>1. /\ past \in Seq(BookValues) /\ Len(past) \in Nat /\ m.seq \in 1 .. Len(past)
      /\ m.u \in Nat \ {0}
  BY LenProperties DEF BookInv, Numbered, Messages
<1>2. CASE IsSnapshot(m)
  <2>1. past[m.seq] \in BookValues /\ m.levels = Full(past[m.seq])
    BY <1>1, <1>2, ElementOfSeq DEF Tells
  <2>. QED BY <1>2, <2>1, SnapshotTaken
<1>3. CASE ~IsSnapshot(m)
  <2>1. initialized /\ m.u # 1 /\ m.u > update_id /\ m.seq > sequence
    BY <1>3 DEF IsSnapshot, Follows
  <2>2. sequence \in 1 .. Len(past) /\ bids = Full(past[sequence])
    BY <2>1 DEF BookInv, Known
  <2>3. m.seq = sequence + 1
    BY <1>1, <2>1, <2>2 DEF Continues
  <2>4. PICK p \in Prices, s \in Sizes : /\ past[m.seq] = [past[m.seq - 1] EXCEPT ![p] = s]
                                         /\ m.levels = [q \in {p} |-> s]
    BY <1>3 DEF Tells
  <2>5. past[sequence] \in BookValues /\ m.seq - 1 = sequence
    BY <1>1, <2>2, <2>3, ElementOfSeq
  <2>6. ApplySide(Full(past[sequence]), [q \in {p} |-> s])
          = Full([past[sequence] EXCEPT ![p] = s])
    BY <2>5, DeltaTaken
  <2>7. past[m.seq] = [past[sequence] EXCEPT ![p] = s]
    BY <2>4, <2>5
  <2>. QED BY <1>3, <2>2, <2>4, <2>6, <2>7
<1>. QED BY <1>2, <1>3

\* A message is taken or left.
LEMMA StepReceive ==
  ASSUME BookInv, NEW again \in BOOLEAN, Receive(again)
  PROVE  BookInv'
<1>. DEFINE m == Head(wire)
<1>1. /\ wire # None /\ wire # <<>> /\ wire' = IF again THEN wire ELSE Tail(wire)
      /\ Process(m) /\ UNCHANGED <<past, theirs, dials, now>>
  BY DEF Receive, exchange
<1>2. /\ m \in Messages(Len(past)) /\ Tells(m, past)
      /\ initialized => Continues(m, update_id, sequence)
      /\ record # None => record.seq <= m.seq
  BY <1>1, Oldest
<1>3. /\ past \in Seq(BookValues) /\ Len(past) \in Nat /\ m.seq \in 1 .. Len(past)
      /\ m.u \in Nat \ {0} /\ m.type \in {"snapshot", "delta"}
  BY <1>2, LenProperties DEF BookInv, Numbered, Messages
<1>4. Chained(wire, past, theirs)
  BY <1>1 DEF BookInv
<1>5. /\ Chained(wire', past', theirs')
      /\ Awaited(wire', past', theirs', m.u, m.seq)
      /\ \A i \in 1 .. Len(wire') : \E j \in 1 .. Len(wire) : wire'[i] = wire[j]
  <2>1. /\ Chained(wire', past, theirs) /\ Awaited(wire', past, theirs, m.u, m.seq)
        /\ \A i \in 1 .. Len(wire') : \E j \in 1 .. Len(wire) : wire'[i] = wire[j]
    <3>1. wire # <<>> /\ (wire' = wire \/ wire' = Tail(wire))
      BY <1>1
    <3>. QED BY <1>3, <1>4, <3>1, MessageTaken
  <2>. QED BY <1>1, <2>1
<1>6. \A i \in 1 .. Len(wire') : m.seq <= wire'[i].seq
  <2>1. wire \in Seq(Messages(Len(past))) /\ Len(wire) \in Nat /\ Len(wire) > 0
    BY <1>1, <1>4, LenProperties, EmptySeq DEF Chained
  <2>2. 1 \in 1 .. Len(wire) /\ m = wire[1]
    BY <2>1
  <2>3. \A j \in 1 .. Len(wire) : m.seq <= wire[j].seq
    BY <1>4, <2>2 DEF Chained
  <2>. QED BY <1>5, <2>3
<1>. HIDE DEF m
<1>7. CASE ~(IsSnapshot(m) \/ Follows(m))
  <2>1. UNCHANGED <<bids, initialized, update_id, sequence, emitted, record>>
    BY <1>1, <1>7 DEF Process, state
  <2>2. Numbered' /\ Known(past', bids', initialized', update_id', sequence')
    BY <1>1, <2>1 DEF BookInv, Numbered
  <2>3. initialized' => Awaited(wire', past', theirs', update_id', sequence')
    <3>1. SUFFICES ASSUME initialized PROVE m.seq = sequence /\ m.u = update_id
      BY <1>5, <2>1
    <3>2. m.u # 1 /\ ~(m.u > update_id /\ m.seq > sequence)
      BY <1>7, <3>1 DEF IsSnapshot, Follows
    <3>3. update_id \in Nat /\ sequence \in Nat
      BY <1>3 DEF BookInv, Known
    <3>. QED BY <1>2, <1>3, <3>1, <3>2, <3>3 DEF Continues
  <2>4. record' # None => Recorded(record', past', wire', initialized', sequence')
    <3>1. SUFFICES ASSUME record # None
          PROVE Recorded(record, past, wire', initialized, sequence)
      BY <1>1, <2>1
    <3>2. /\ record \in RecordsUpTo(Len(past)) /\ record.levels = Full(past[record.seq])
          /\ initialized => record.seq <= sequence
          /\ \A j \in 1 .. Len(wire) : record.seq <= wire[j].seq
      BY <1>1, <3>1 DEF BookInv, Recorded
    <3>3. \A i \in 1 .. Len(wire') : record.seq <= wire'[i].seq
      BY <1>5, <3>2
    <3>. QED BY <3>2, <3>3 DEF Recorded
  <2>. QED BY <1>5, <2>2, <2>3, <2>4 DEF BookInv
<1>8. CASE IsSnapshot(m) \/ Follows(m)
  <2>1. /\ bids' = ApplySide(IF IsSnapshot(m) THEN Empty ELSE bids, m.levels)
        /\ initialized' = TRUE /\ update_id' = m.u /\ sequence' = m.seq
        /\ \/ /\ emitted' = now
              /\ record' = [type |-> m.type, seq |-> m.seq, levels |-> bids', at |-> now]
           \/ UNCHANGED <<emitted, record>>
    BY <1>1, <1>8 DEF Process
  <2>2. bids' = Full(past[m.seq])
    BY <1>2, <1>8, <2>1, BookTaken
  <2>3. bids' \in Levels /\ \A p \in DOMAIN bids' : bids'[p] # 0
    <3>1. past[m.seq] \in BookValues
      BY <1>3, ElementOfSeq
    <3>. QED BY <2>2, <3>1, FullTyped
  <2>4. now \in 0 .. MaxTime
    BY DEF BookInv, Numbered
  <2>5. Numbered'
    BY <1>1, <2>1, <2>4 DEF BookInv, Numbered
  <2>6. Known(past', bids', initialized', update_id', sequence')
    BY <1>1, <1>3, <2>1, <2>2, <2>3 DEF Known
  <2>7. record' # None => Recorded(record', past', wire', initialized', sequence')
    <3>1. CASE record' = [type |-> m.type, seq |-> m.seq, levels |-> bids', at |-> now]
      <4>1. record' \in RecordsUpTo(Len(past)) /\ record'.seq = m.seq /\ record'.levels = bids'
        BY <1>3, <2>3, <2>4, <3>1 DEF RecordsUpTo
      <4>2. m.seq <= m.seq
        BY <1>3
      <4>. QED BY <1>1, <1>6, <2>1, <2>2, <4>1, <4>2 DEF Recorded
    <3>2. CASE record' = record
      <4>1. SUFFICES ASSUME record # None
            PROVE Recorded(record, past, wire', initialized', sequence')
        BY <1>1, <3>2
      <4>2. /\ record \in RecordsUpTo(Len(past)) /\ record.levels = Full(past[record.seq])
            /\ \A j \in 1 .. Len(wire) : record.seq <= wire[j].seq
        BY <1>1, <4>1 DEF BookInv, Recorded
      <4>3. \A i \in 1 .. Len(wire') : record.seq <= wire'[i].seq
        BY <1>5, <4>2
      <4>. QED BY <1>2, <2>1, <4>1, <4>2, <4>3 DEF Recorded
    <3>. QED BY <2>1, <3>1, <3>2
  <2>. QED BY <1>5, <2>1, <2>5, <2>6, <2>7 DEF BookInv
<1>. QED BY <1>7, <1>8

-----------------------------------------------------------------------------
(* The theorems *)

\* Every step, by the exchange, the connection or the normalizer, keeps the
\* invariant.
LEMMA StepNext ==
  ASSUME BookInv, [Next]_vars
  PROVE  BookInv'
<1>1. CASE UNCHANGED vars
  <2>1. /\ UNCHANGED <<past, theirs, dials, wire, now, emitted, record>>
        /\ UNCHANGED <<bids, initialized, update_id, sequence>>
    BY <1>1 DEF vars, exchange, state
  <2>. QED BY <2>1 DEF BookInv, Numbered
<1>2. CASE \E p \in Prices, s \in Sizes : Change(p, s)
  BY <1>2, StepChange
<1>3. CASE SendSnapshot
  BY <1>3, StepSendSnapshot
<1>4. CASE Disconnect \/ Tick
  BY <1>4, StepDisconnect
<1>5. CASE Connect
  BY <1>5, StepConnect
<1>6. CASE \E type \in {"snapshot", "delta"} : ServiceRestart(type)
  BY <1>6, StepServiceRestart
<1>7. CASE \E again \in BOOLEAN : Receive(again)
  BY <1>7, StepReceive
<1>. QED BY <1>1, <1>2, <1>3, <1>4, <1>5, <1>6, <1>7 DEF Next

\* The messages on the wire, the book that is kept and the records belong together
\* (OrderBookState.apply, reset_connection_state, _orderbook).
THEOREM BookInvariant == Spec => []BookInv
<1>. QED BY BookInit, StepNext, PTL DEF Spec

\* The invariant says of every variable what its values are (OrderBookState).
LEMMA BookInvTyped == BookInv => TypeOK
<1>1. ASSUME BookInv PROVE TypeOK
  <2>1. /\ past \in Seq([Prices -> Sizes]) /\ theirs \in Nat /\ dials \in 0 .. MaxDials
        /\ now \in 0 .. MaxTime /\ emitted \in {None} \cup 0 .. MaxTime
    BY <1>1 DEF BookInv, Numbered, BookValues
  <2>2. /\ bids \in Levels /\ \A p \in DOMAIN bids : bids[p] # 0
        /\ initialized \in BOOLEAN /\ update_id \in Nat /\ sequence \in 0 .. Len(past)
    BY <1>1 DEF BookInv, Known
  <2>3. wire # None => wire \in Seq([type : {"snapshot", "delta"}, u : Nat,
                                     seq : 1 .. Len(past), levels : Levels])
    <3>1. Messages(Len(past)) \subseteq [type : {"snapshot", "delta"}, u : Nat,
                                         seq : 1 .. Len(past), levels : Levels]
      BY DEF Messages
    <3>2. wire # None => wire \in Seq(Messages(Len(past)))
      BY <1>1 DEF BookInv, Chained
    <3>. QED BY <3>1, <3>2, SeqMonotonic
  <2>4. record # None => record \in [type : {"snapshot", "delta"}, seq : 1 .. Len(past),
                                     levels : Levels, at : 0 .. MaxTime]
    BY <1>1 DEF BookInv, Recorded, RecordsUpTo
  <2>. QED BY <2>1, <2>2, <2>3, <2>4 DEF TypeOK
<1>. QED BY <1>1

\* Every variable of the order book and its connection keeps to its values.
THEOREM BookTyped == Spec => []TypeOK
<1>. QED BY BookInvTyped, BookInvariant, PTL

\* A record that the normalizer emits holds the exchange's book as it was at the
\* sequence number it names.
THEOREM RecordsHold == Spec => []RecordIsExchangeBook
<1>1. ASSUME BookInv PROVE RecordIsExchangeBook
  BY <1>1 DEF BookInv, Recorded, RecordIsExchangeBook
<1>. QED BY <1>1, BookInvariant, PTL

\* Records never go back, and a delta that was taken before makes none.
THEOREM RecordsGoOn == Spec => RecordsAdvance
<1>. DEFINE Advance ==
       record # None /\ record' # record =>
         /\ record'.seq >= record.seq
         /\ record'.type = "delta" /\ update_id' # 1 => record'.seq > record.seq
<1>1. ASSUME BookInv, [Next]_vars PROVE [Advance]_vars
  <2>1. CASE \E again \in BOOLEAN : Receive(again)
    <3>. DEFINE m == Head(wire)
    <3>1. wire # None /\ wire # <<>> /\ Process(m)
      BY <2>1 DEF Receive
    <3>2. SUFFICES ASSUME record # None, record' # record
          PROVE  /\ record'.seq >= record.seq
                 /\ record'.type = "delta" /\ update_id' # 1 => record'.seq > record.seq
      OBVIOUS
    <3>3. m \in Messages(Len(past)) /\ record.seq <= m.seq
      BY <1>1, <3>1, <3>2, Oldest
    <3>4. m.seq \in Nat /\ record.seq \in Nat /\ sequence \in Nat
      <4>1. /\ Len(past) \in Nat /\ sequence \in 0 .. Len(past)
            /\ record \in RecordsUpTo(Len(past))
        BY <1>1, <3>2, LenProperties DEF BookInv, Numbered, Known, Recorded
      <4>. QED BY <3>3, <4>1 DEF RecordsUpTo, Messages
    <3>. HIDE DEF m
    <3>5. /\ IsSnapshot(m) \/ Follows(m)
          /\ update_id' = m.u
          /\ record' = [type |-> m.type, seq |-> m.seq, levels |-> bids', at |-> now]
      BY <3>1, <3>2 DEF Process
    <3>6. record'.seq = m.seq /\ record'.type = m.type
      BY <3>5
    <3>7. ASSUME m.type = "delta", m.u # 1 PROVE m.seq > record.seq
      <4>1. initialized /\ m.seq > sequence
        BY <3>5, <3>7 DEF IsSnapshot, Follows
      <4>2. record.seq <= sequence
        BY <1>1, <3>2, <4>1 DEF BookInv, Recorded
      <4>. QED BY <3>4, <4>1, <4>2
    <3>. QED BY <3>3, <3>4, <3>5, <3>6, <3>7
  <2>2. CASE UNCHANGED record
    BY <2>2
  <2>3. UNCHANGED record \/ \E again \in BOOLEAN : Receive(again)
    BY <1>1 DEF Next, vars, Change, SendSnapshot, Disconnect, Connect, Tick, ServiceRestart
  <2>. QED BY <2>1, <2>2, <2>3
<1>. QED BY <1>1, BookInvariant, PTL DEF Spec, RecordsAdvance

-----------------------------------------------------------------------------
(* The canonical dataset.  The inductive invariant says what a build has written
   when it has read so many files: the parts of its sink hold, for each partition,
   the rows that the records read so far give it, and its candles are the latest
   revisions among those records. *)

Rows == UNION {UNION {Range(f.lines) : f \in Range(files)} : files \in Audits}

Keys == {Partition(r) : r \in Rows}

\* What the rows are, by the assumption on audits.
LEMMA RowsAre ==
  /\ \A files \in Audits : /\ files \in Seq(Range(files))
                           /\ \A i \in DOMAIN files : files[i].lines \in Seq(Rows)
  /\ \A r \in Rows : /\ r # None /\ Partition(r) \in Keys /\ r.fits \in BOOLEAN
                     /\ r.kind # "broken" => r.received \in Int
                     /\ r.kind = "trades" => r.ids \in Seq(Range(r.ids))
                     /\ r.kind = "orderbook" => r.sequence \in Int
                     /\ IsCandle(r) => r.start \in Int /\ r.received \in Int
  /\ None \notin Keys
<1>1. ASSUME NEW files \in Audits, NEW i \in DOMAIN files PROVE files[i].lines \in Seq(Rows)
  <2>1. files[i] \in Range(files)
    BY DEF Range
  <2>2. files[i].lines \in Seq(Range(files[i].lines))
    BY <2>1, CanonicalAssumption DEF IsSequence
  <2>3. Range(files[i].lines) \subseteq Rows
    BY <2>1 DEF Rows
  <2>. QED BY <2>2, <2>3, SeqMonotonic
<1>2. ASSUME NEW r \in Rows
      PROVE  /\ r # None /\ Partition(r) \in Keys /\ Partition(r) # None /\ r.fits \in BOOLEAN
             /\ r.kind # "broken" => r.received \in Int
             /\ r.kind = "trades" => r.ids \in Seq(Range(r.ids))
             /\ r.kind = "orderbook" => r.sequence \in Int
             /\ IsCandle(r) => r.start \in Int /\ r.received \in Int
  <2>0. PICK files \in Audits : \E f \in Range(files) : r \in Range(f.lines)
    BY DEF Rows
  <2>1. PICK f \in Range(files) : r \in Range(f.lines)
    BY <2>0
  <2>. QED BY <2>1, CanonicalAssumption DEF IsSequence, Keys, IsCandle
<1>3. None \notin Keys
  BY <1>2 DEF Keys
<1>4. \A files \in Audits : files \in Seq(Range(files))
  BY CanonicalAssumption DEF IsSequence
<1>. QED BY <1>1, <1>2, <1>3, <1>4

-----------------------------------------------------------------------------
(* Parts *)

PartFile(key, part, rows) == [key |-> key, part |-> part, rows |-> rows]

\* The files of the partitions' parts, of which P gives the rows in their order.
FilesOf(P) == UNION {{PartFile(k, i - 1, P[k][i]) : i \in 1 .. Len(P[k])} : k \in Keys}

Parts == [Keys -> Seq(Seq(Rows))]

\* The part that is open is the last of its partition.
PartsAre(sink, P) ==
  /\ P \in Parts
  /\ sink.files = FilesOf(P)
  /\ sink.key # None => /\ sink.key \in Keys /\ Len(P[sink.key]) > 0
                        /\ sink.part = Len(P[sink.key]) - 1

SinkShape(s) ==
  s \in [key : Keys \cup {None}, part : Nat,
         files : SUBSET [key : Keys, part : Nat, rows : Seq(Rows)]]

\* A file of the partitions.
LEMMA FileIn ==
  ASSUME NEW P \in Parts
  PROVE  /\ \A f \in FilesOf(P) :
              /\ f.key \in Keys /\ f.part \in Nat /\ f.part + 1 \in 1 .. Len(P[f.key])
              /\ f = PartFile(f.key, f.part, P[f.key][f.part + 1])
         /\ \A k \in Keys : \A i \in 1 .. Len(P[k]) : PartFile(k, i - 1, P[k][i]) \in FilesOf(P)
         /\ \A k \in Keys : P[k] \in Seq(Seq(Rows)) /\ Len(P[k]) \in Nat
         /\ FilesOf(P) \subseteq [key : Keys, part : Nat, rows : Seq(Rows)]
<1>1. \A k \in Keys : P[k] \in Seq(Seq(Rows)) /\ Len(P[k]) \in Nat
  BY LenProperties DEF Parts
<1>2. ASSUME NEW f \in FilesOf(P)
      PROVE  /\ f.key \in Keys /\ f.part \in Nat /\ f.part + 1 \in 1 .. Len(P[f.key])
             /\ f = PartFile(f.key, f.part, P[f.key][f.part + 1])
  <2>1. PICK k \in Keys : \E i \in 1 .. Len(P[k]) : f = PartFile(k, i - 1, P[k][i])
    BY DEF FilesOf
  <2>2. PICK i \in 1 .. Len(P[k]) : f = PartFile(k, i - 1, P[k][i])
    BY <2>1
  <2>3. f.key = k /\ f.part = i - 1
    BY <2>2 DEF PartFile
  <2>4. i \in Int /\ f.part \in Nat /\ f.part + 1 = i
    BY <1>1, <2>3
  <2>. QED BY <2>2, <2>3, <2>4
<1>3. \A k \in Keys : \A i \in 1 .. Len(P[k]) : PartFile(k, i - 1, P[k][i]) \in FilesOf(P)
  BY DEF FilesOf
<1>4. ASSUME NEW f \in FilesOf(P) PROVE f \in [key : Keys, part : Nat, rows : Seq(Rows)]
  <2>1. /\ f.key \in Keys /\ f.part \in Nat /\ f.part + 1 \in 1 .. Len(P[f.key])
        /\ f = PartFile(f.key, f.part, P[f.key][f.part + 1])
    BY <1>2
  <2>2. P[f.key][f.part + 1] \in Seq(Rows)
    BY <1>1, <2>1, ElementOfSeq
  <2>. QED BY <2>1, <2>2 DEF PartFile
<1>. QED BY <1>1, <1>2, <1>3, <1>4

\* As many files as parts.
LEMMA PartsCounted ==
  ASSUME NEW P \in Parts, NEW k \in Keys
  PROVE  Cardinality({f \in FilesOf(P) : f.key = k}) = Len(P[k])
<1>. DEFINE n == Len(P[k])
            F == {f \in FilesOf(P) : f.key = k}
            g == [i \in 1 .. n |-> PartFile(k, i - 1, P[k][i])]
<1>1. n \in Nat
  BY FileIn
<1>2. \A i \in 1 .. n : g[i] \in F
  BY FileIn DEF PartFile
<1>3. \A i, j \in 1 .. n : g[i] = g[j] => i = j
  <2>1. \A i \in 1 .. n : g[i].part = i - 1 /\ i \in Int
    BY <1>1 DEF PartFile
  <2>. HIDE DEF g
  <2>. QED BY <2>1
<1>4. \A f \in F : f.part + 1 \in 1 .. n /\ g[f.part + 1] = f
  <2>1. ASSUME NEW f \in F PROVE f.part + 1 \in 1 .. n /\ g[f.part + 1] = f
    <3>1. /\ f.key = k /\ f.part \in Nat /\ f.part + 1 \in 1 .. n
          /\ f = PartFile(k, f.part, P[k][f.part + 1])
      BY FileIn
    <3>2. (f.part + 1) - 1 = f.part
      BY <3>1
    <3>. QED BY <3>1, <3>2
  <2>. QED BY <2>1
<1>. HIDE DEF F, g, n
<1>5. g \in Bijection(1 .. n, F)
  <2>1. g \in [1 .. n -> F]
    BY <1>2 DEF g
  <2>. QED BY <1>3, <1>4, <2>1 DEF Bijection, Injection, Surjection, IsInjective
<1>6. ExistsBijection(1 .. n, F)
  BY <1>5 DEF ExistsBijection
<1>7. Cardinality(F) = Cardinality(1 .. n) /\ Cardinality(1 .. n) = n
  BY <1>1, <1>6, FS_Interval, FS_Bijection
<1>. QED BY <1>7 DEF F, n

\* Opening a part: an empty one behind the others of its partition.
LEMMA PartOpened ==
  ASSUME NEW sink, SinkShape(sink), NEW P, PartsAre(sink, P), NEW k \in Keys
  PROVE  LET Q == [P EXCEPT ![k] = Append(@, <<>>)]
             open == OpenPartition(sink, k)
         IN  /\ PartsAre(open, Q) /\ open.key = k /\ SinkShape(open)
             /\ FlattenSeq(Q[k]) = FlattenSeq(P[k])
             /\ Len(Q[k]) > 0
             /\ \A l \in Keys : l # k => Q[l] = P[l]
<1>. DEFINE Q == [P EXCEPT ![k] = Append(@, <<>>)]
            open == OpenPartition(sink, k)
            n == Len(P[k])
            new == PartFile(k, n, <<>>)
<1>1. P \in Parts /\ sink.files = FilesOf(P)
  BY DEF PartsAre
<1>2. P[k] \in Seq(Seq(Rows)) /\ n \in Nat /\ <<>> \in Seq(Rows)
  BY <1>1, FileIn, EmptySeq
<1>3. /\ Append(P[k], <<>>) \in Seq(Seq(Rows)) /\ Len(Append(P[k], <<>>)) = n + 1
      /\ Append(P[k], <<>>)[n + 1] = <<>> /\ \A i \in 1 .. n : Append(P[k], <<>>)[i] = P[k][i]
  BY <1>2, AppendProperties
<1>4. Q \in Parts /\ Q[k] = Append(P[k], <<>>) /\ \A l \in Keys : l # k => Q[l] = P[l]
  BY <1>1, <1>3 DEF Parts
<1>. HIDE DEF Q, n
<1>5. NextPart(sink, k) = n
  BY <1>1, PartsCounted DEF NextPart, n
<1>6. File(sink, k, n) = {}
  <2>1. SUFFICES ASSUME NEW f \in sink.files, f.key = k, f.part = n PROVE FALSE
    BY DEF File
  <2>2. f.part + 1 \in 1 .. n
    BY <1>1, <2>1, FileIn DEF n
  <2>. QED BY <1>2, <2>1, <2>2
<1>7. open = [key |-> k, part |-> n, files |-> FilesOf(P) \cup {new}]
  BY <1>1, <1>5, <1>6 DEF OpenPartition, PartFile
<1>8. FilesOf(Q) = FilesOf(P) \cup {new}
  <2>1. ASSUME NEW f \in FilesOf(Q) PROVE f \in FilesOf(P) \cup {new}
    <3>1. /\ f.key \in Keys /\ f.part \in Nat /\ f.part + 1 \in 1 .. Len(Q[f.key])
          /\ f = PartFile(f.key, f.part, Q[f.key][f.part + 1])
      BY <1>4, FileIn
    <3>2. CASE f.key = k /\ f.part = n
      BY <1>3, <1>4, <3>1, <3>2 DEF n
    <3>3. CASE ~ (f.key = k /\ f.part = n)
      <4>1. f.part + 1 \in 1 .. Len(P[f.key]) /\ Q[f.key][f.part + 1] = P[f.key][f.part + 1]
        <5>1. CASE f.key = k
          <6>1. f.part + 1 \in 1 .. n + 1 /\ f.part # n
            BY <1>3, <1>4, <3>1, <3>3, <5>1
          <6>2. f.part + 1 \in 1 .. n
            BY <1>2, <3>1, <6>1
          <6>. QED BY <1>3, <1>4, <5>1, <6>2 DEF n
        <5>2. CASE f.key # k
          BY <1>4, <3>1, <5>2
        <5>. QED BY <5>1, <5>2
      <4>2. PartFile(f.key, (f.part + 1) - 1, P[f.key][f.part + 1]) \in FilesOf(P)
        BY <1>1, <3>1, <4>1, FileIn
      <4>3. (f.part + 1) - 1 = f.part
        BY <3>1
      <4>. QED BY <3>1, <4>1, <4>2, <4>3
    <3>. QED BY <3>2, <3>3
  <2>2. ASSUME NEW f \in FilesOf(P) PROVE f \in FilesOf(Q)
    <3>1. /\ f.key \in Keys /\ f.part \in Nat /\ f.part + 1 \in 1 .. Len(P[f.key])
          /\ f = PartFile(f.key, f.part, P[f.key][f.part + 1])
      BY <1>1, FileIn
    <3>2. f.part + 1 \in 1 .. Len(Q[f.key]) /\ Q[f.key][f.part + 1] = P[f.key][f.part + 1]
      <4>1. CASE f.key = k
        <5>1. f.part + 1 \in 1 .. n
          BY <3>1, <4>1 DEF n
        <5>2. f.part + 1 \in 1 .. n + 1
          BY <1>2, <5>1
        <5>. QED BY <1>3, <1>4, <4>1, <5>1, <5>2
      <4>2. CASE f.key # k
        BY <1>4, <3>1, <4>2
      <4>. QED BY <4>1, <4>2
    <3>3. PartFile(f.key, (f.part + 1) - 1, Q[f.key][f.part + 1]) \in FilesOf(Q)
      BY <1>4, <3>1, <3>2, FileIn
    <3>4. (f.part + 1) - 1 = f.part
      BY <3>1
    <3>. QED BY <3>1, <3>2, <3>3, <3>4
  <2>3. new \in FilesOf(Q)
    <3>1. n + 1 \in 1 .. Len(Q[k]) /\ Q[k][n + 1] = <<>> /\ (n + 1) - 1 = n
      BY <1>2, <1>3, <1>4
    <3>2. PartFile(k, (n + 1) - 1, Q[k][n + 1]) \in FilesOf(Q)
      BY <1>4, <3>1, FileIn
    <3>. QED BY <3>1, <3>2
  <2>. HIDE DEF new
  <2>. QED BY <2>1, <2>2, <2>3, Zenon
<1>9. FlattenSeq(Q[k]) = FlattenSeq(P[k])
  BY <1>2, <1>4, FlattenNothingMore
<1>10. Len(Q[k]) = n + 1 /\ Len(Q[k]) > 0 /\ n = Len(Q[k]) - 1
  BY <1>2, <1>3, <1>4
<1>11. open.key = k /\ open.part = n /\ open.files = FilesOf(Q)
  BY <1>7, <1>8
<1>12. PartsAre(open, Q)
  BY <1>4, <1>10, <1>11 DEF PartsAre
<1>13. SinkShape(open)
  BY <1>2, <1>4, <1>7, <1>8, FileIn DEF SinkShape
<1>. HIDE DEF open
<1>. QED BY <1>4, <1>9, <1>10, <1>11, <1>12, <1>13 DEF Q, open

\* The parts when the last one of the row's partition has the row as well.
Extended(P, row) ==
  LET k == Partition(row)
  IN [P EXCEPT ![k] = [P[k] EXCEPT ![Len(P[k])] = Append(P[k][Len(P[k])], row)]]

\* A row is written behind those of the open part.
LEMMA RowWritten ==
  ASSUME NEW sink, SinkShape(sink), NEW P, PartsAre(sink, P),
         NEW row \in Rows, sink.key = Partition(row)
  PROVE  /\ PartsAre(AddRow(sink, row), Extended(P, row)) /\ SinkShape(AddRow(sink, row))
         /\ FlattenSeq(Extended(P, row)[sink.key]) = Append(FlattenSeq(P[sink.key]), row)
         /\ \A l \in Keys : l # sink.key => Extended(P, row)[l] = P[l]
<1>. DEFINE k == Partition(row)
            n == Len(P[k])
            last == Append(P[k][n], row)
            part == [P[k] EXCEPT ![n] = last]
            Q == [P EXCEPT ![k] = part]
            to == AddRow(sink, row)
            Written(f) == IF f.key = k /\ f.part = n - 1 THEN [f EXCEPT !.rows = Append(@, row)] ELSE f
<1>1. P \in Parts /\ sink.files = FilesOf(P) /\ k \in Keys /\ None \notin Keys
  BY RowsAre DEF PartsAre
<1>2. P[k] \in Seq(Seq(Rows)) /\ n \in Nat /\ n > 0 /\ sink.part = n - 1
  <2>1. sink.key # None
    BY <1>1
  <2>. QED BY <1>1, <2>1, FileIn DEF PartsAre
<1>3. n \in 1 .. n /\ P[k][n] \in Seq(Rows) /\ \A i \in 1 .. n : P[k][i] \in Seq(Rows)
  <2>1. n \in 1 .. n
    BY <1>2
  <2>. QED BY <1>2, <2>1, ElementOfSeq
<1>4. last \in Seq(Rows) /\ last = P[k][n] \o <<row>> /\ <<row>> \in Seq(Rows)
  BY <1>3, AppendProperties, AppendIsConcat
<1>5. part \in Seq(Seq(Rows)) /\ Len(part) = n /\ part[n] = last /\ \A i \in 1 .. n : i # n => part[i] = P[k][i]
  <2>. HIDE DEF last
  <2>1. part \in Seq(Seq(Rows)) /\ Len(part) = Len(P[k]) /\ \A i \in 1 .. Len(P[k]) : part[i] = IF i = n THEN last ELSE P[k][i]
    BY <1>2, <1>3, <1>4, ExceptSeq
  <2>. QED BY <1>3, <2>1
<1>. HIDE DEF part
<1>6. Q \in Parts /\ Q[k] = part /\ \A l \in Keys : l # k => Q[l] = P[l]
  BY <1>1, <1>5 DEF Parts
<1>. HIDE DEF Q, last
<1>7. FlattenSeq(part) = FlattenSeq(P[k]) \o <<row>>
  <2>1. \A i \in 1 .. Len(P[k]) : i # n => part[i] = P[k][i]
    BY <1>5
  <2>2. \A i \in n + 1 .. Len(P[k]) : P[k][i] = <<>>
    BY <1>2
  <2>3. part[n] = P[k][n] \o <<row>> /\ Len(part) = Len(P[k]) /\ n \in 1 .. Len(P[k])
    BY <1>3, <1>4, <1>5
  <2>. HIDE DEF n
  <2>. QED BY <1>2, <1>4, <1>5, <2>1, <2>2, <2>3, FlattenGrows
<1>8. FlattenSeq(Q[k]) = Append(FlattenSeq(P[k]), row)
  <2>1. FlattenSeq(P[k]) \in Seq(Rows)
    BY <1>2, FlattenTyped
  <2>. QED BY <1>6, <1>7, <2>1, AppendIsConcat
<1>9. to = [sink EXCEPT !.files = {Written(f) : f \in @}]
  BY <1>2 DEF AddRow
<1>10. /\ to.key = k /\ to.part = n - 1 /\ to.files = {Written(f) : f \in FilesOf(P)}
       /\ to = [key |-> k, part |-> n - 1, files |-> to.files]
  <2>1. sink = [key |-> k, part |-> n - 1, files |-> FilesOf(P)]
    BY <1>1, <1>2 DEF SinkShape
  <2>. HIDE DEF k, Written
  <2>2. to = [key |-> k, part |-> n - 1, files |-> {Written(f) : f \in FilesOf(P)}]
    BY <1>9, <2>1
  <2>. QED BY <2>2
<1>11. ASSUME NEW l \in Keys, NEW i \in 1 .. Len(P[l])
       PROVE  /\ i \in 1 .. Len(Q[l])
              /\ Written(PartFile(l, i - 1, P[l][i])) = PartFile(l, i - 1, Q[l][i])
  <2>1. i \in Nat
    BY <1>1, FileIn
  <2>2. CASE l = k /\ i = n
    <3>1. Q[l][i] = last /\ i \in 1 .. Len(Q[l])
      BY <1>3, <1>5, <1>6, <2>2
    <3>2. Written(PartFile(l, i - 1, P[l][i])) = PartFile(l, i - 1, last)
      BY <2>2 DEF PartFile, last
    <3>. QED BY <3>1, <3>2
  <2>3. CASE ~ (l = k /\ i = n)
    <3>1. Q[l][i] = P[l][i] /\ i \in 1 .. Len(Q[l])
      <4>1. CASE l = k
        BY <1>5, <1>6, <2>3, <4>1
      <4>2. CASE l # k
        BY <1>6, <4>2
      <4>. QED BY <4>1, <4>2
    <3>2. ~ (l = k /\ i - 1 = n - 1)
      BY <1>2, <2>1, <2>3
    <3>3. Written(PartFile(l, i - 1, P[l][i])) = PartFile(l, i - 1, P[l][i])
      BY <3>2 DEF PartFile
    <3>. QED BY <3>1, <3>3
  <2>. QED BY <2>2, <2>3
<1>12. ASSUME NEW l \in Keys PROVE Len(Q[l]) = Len(P[l])
  BY <1>5, <1>6
<1>. HIDE DEF Written
<1>13. to.files = FilesOf(Q)
  <2>1. ASSUME NEW f \in FilesOf(P) PROVE Written(f) \in FilesOf(Q)
    <3>1. PICK l \in Keys : \E i \in 1 .. Len(P[l]) : f = PartFile(l, i - 1, P[l][i])
      BY DEF FilesOf
    <3>2. PICK i \in 1 .. Len(P[l]) : f = PartFile(l, i - 1, P[l][i])
      BY <3>1
    <3>3. i \in 1 .. Len(Q[l]) /\ Written(f) = PartFile(l, i - 1, Q[l][i])
      BY <1>11, <3>2
    <3>. QED BY <1>6, <3>3, FileIn
  <2>2. ASSUME NEW f \in FilesOf(Q) PROVE \E e \in FilesOf(P) : f = Written(e)
    <3>1. PICK l \in Keys : \E i \in 1 .. Len(Q[l]) : f = PartFile(l, i - 1, Q[l][i])
      BY DEF FilesOf
    <3>2. PICK i \in 1 .. Len(Q[l]) : f = PartFile(l, i - 1, Q[l][i])
      BY <3>1
    <3>3. i \in 1 .. Len(P[l])
      BY <1>12
    <3>4. f = Written(PartFile(l, i - 1, P[l][i])) /\ PartFile(l, i - 1, P[l][i]) \in FilesOf(P)
      BY <1>1, <1>11, <3>2, <3>3, FileIn
    <3>. QED BY <3>4
  <2>. QED BY <1>10, <2>1, <2>2
<1>14. PartsAre(to, Q)
  BY <1>2, <1>5, <1>6, <1>10, <1>13, <1>1 DEF PartsAre
<1>15. SinkShape(to)
  <2>1. FilesOf(Q) \subseteq [key : Keys, part : Nat, rows : Seq(Rows)] /\ n - 1 \in Nat
    BY <1>2, <1>6, FileIn
  <2>. HIDE DEF to, k
  <2>. QED BY <1>1, <1>10, <1>13, <2>1 DEF SinkShape
<1>16. Q = Extended(P, row)
  BY DEF Q, part, last, n, Extended
<1>. HIDE DEF to, k
<1>17. sink.key = k
  BY DEF k
<1>. QED BY <1>6, <1>8, <1>14, <1>15, <1>16, <1>17 DEF to

\* The parts of a sink hold the rows E of each partition, and there are files only
\* of the partitions W.
SinkTells(sink, E, W) ==
  /\ SinkShape(sink)
  /\ E \in [Keys -> Seq(Rows)]
  /\ \E P \in Parts : /\ PartsAre(sink, P)
                      /\ \A k \in Keys : FlattenSeq(P[k]) = E[k] /\ (Len(P[k]) > 0 => k \in W)

\* A row comes behind those of its partition, in a part that is new when another
\* partition's was open (_ParquetSink.write).
LEMMA RowAdded ==
  ASSUME NEW sink, NEW E, NEW W, SinkTells(sink, E, W), NEW row \in Rows
  PROVE  LET k == Partition(row)
         IN  SinkTells(AddRow(sink, row), [E EXCEPT ![k] = Append(E[k], row)], W \cup {k})
<1>. DEFINE k == Partition(row)
            F == [E EXCEPT ![k] = Append(E[k], row)]
<1>1. PICK P \in Parts : /\ PartsAre(sink, P)
                        /\ \A l \in Keys : FlattenSeq(P[l]) = E[l] /\ (Len(P[l]) > 0 => l \in W)
  BY DEF SinkTells
<1>2. k \in Keys /\ E[k] \in Seq(Rows) /\ Append(E[k], row) \in Seq(Rows) /\ SinkShape(sink)
  <2>1. k \in Keys /\ E[k] \in Seq(Rows)
    BY RowsAre DEF SinkTells
  <2>. QED BY <2>1, AppendProperties DEF SinkTells
<1>3. F \in [Keys -> Seq(Rows)] /\ F[k] = Append(E[k], row) /\ \A l \in Keys : l # k => F[l] = E[l]
  BY <1>2 DEF SinkTells
<1>. HIDE DEF k, F
<1>4. PICK open : /\ SinkShape(open) /\ open.key = k /\ AddRow(sink, row) = AddRow(open, row)
                  /\ \E Q \in Parts : /\ PartsAre(open, Q) /\ FlattenSeq(Q[k]) = FlattenSeq(P[k])
                                      /\ \A l \in Keys : l # k => Q[l] = P[l]
  <2>1. CASE sink.key = k
    BY <1>1, <1>2, <2>1
  <2>2. CASE sink.key # k
    <3>. DEFINE open == OpenPartition(sink, k)
                Q == [P EXCEPT ![k] = Append(@, <<>>)]
    <3>1. /\ PartsAre(open, Q) /\ open.key = k /\ SinkShape(open)
          /\ FlattenSeq(Q[k]) = FlattenSeq(P[k])
          /\ \A l \in Keys : l # k => Q[l] = P[l]
      BY <1>1, <1>2, PartOpened
    <3>. HIDE DEF open, Q
    <3>2. AddRow(sink, row) = AddRow(open, row)
      BY <2>2, <3>1 DEF AddRow, k, open
    <3>3. Q \in Parts
      BY <3>1 DEF PartsAre
    <3>. QED BY <3>1, <3>2, <3>3
  <2>. QED BY <2>1, <2>2
<1>5. PICK Q \in Parts : /\ PartsAre(open, Q) /\ FlattenSeq(Q[k]) = FlattenSeq(P[k])
                        /\ \A l \in Keys : l # k => Q[l] = P[l]
  BY <1>4
<1>. DEFINE R == Extended(Q, row)
            to == AddRow(open, row)
<1>6. /\ PartsAre(to, R) /\ SinkShape(to)
      /\ FlattenSeq(R[k]) = Append(FlattenSeq(Q[k]), row)
      /\ \A l \in Keys : l # k => R[l] = Q[l]
  <2>1. open.key = Partition(row)
    BY <1>4 DEF k
  <2>. QED BY <1>4, <1>5, <2>1, RowWritten
<1>. HIDE DEF R, to
<1>7. R \in Parts
  BY <1>6 DEF PartsAre
<1>8. ASSUME NEW l \in Keys PROVE FlattenSeq(R[l]) = F[l] /\ (Len(R[l]) > 0 => l \in W \cup {k})
  <2>1. CASE l = k
    BY <1>1, <1>3, <1>5, <1>6, <2>1
  <2>2. CASE l # k
    BY <1>1, <1>3, <1>5, <1>6, <2>2
  <2>. QED BY <2>1, <2>2
<1>9. SinkTells(to, F, W \cup {k})
  BY <1>3, <1>6, <1>7, <1>8 DEF SinkTells
<1>10. AddRow(sink, row) = to
  BY <1>4 DEF to
<1>. QED BY <1>9, <1>10 DEF F, k

\* Every sink that is reached by adding rows.
Sinks == {s \in [key : Keys \cup {None}, part : Nat,
                 files : SUBSET [key : Keys, part : Nat, rows : Seq(Rows)]] :
            \E E, W : SinkTells(s, E, W)}

\* Rows are added one after the other.
LEMMA AddRowRun ==
  ASSUME NEW sink \in Sinks, NEW rows \in Seq(Rows)
  PROVE  \E f \in [0 .. Len(rows) -> Sinks] :
            /\ f[0] = sink /\ FoldLeft(AddRow, sink, rows) = f[Len(rows)]
            /\ \A i \in 1 .. Len(rows) : f[i] = AddRow(f[i - 1], rows[i])
<1>. DEFINE n == Len(rows)
            G == [p \in (1 .. n) \X Sinks |-> AddRow(p[2], rows[p[1]])]
            Def(f) == [t \in SUBSET (1 .. n) |-> IF t = {} THEN sink
                                                 ELSE AddRow(f[t \ {Max(t)}], rows[Max(t)])]
            iter == CHOOSE f : f = Def(f)
<1>1. n \in Nat /\ DOMAIN rows = 1 .. n
  BY LenProperties
<1>2. ASSUME NEW i \in 1 .. n, NEW x \in Sinks PROVE AddRow(x, rows[i]) \in Sinks
  <2>1. rows[i] \in Rows
    BY ElementOfSeq
  <2>2. PICK E, W : SinkTells(x, E, W)
    BY DEF Sinks
  <2>3. \E F, U : SinkTells(AddRow(x, rows[i]), F, U)
    BY <2>1, <2>2, RowAdded
  <2>. QED BY <2>3 DEF Sinks, SinkTells, SinkShape
<1>3. \A i \in 1 .. n, x \in Sinks : G[<<i, x>>] = AddRow(x, rows[i]) /\ G[<<i, x>>] \in Sinks
  BY <1>2
<1>4. FoldLeft(AddRow, sink, rows) = iter[1 .. n]
  BY <1>1 DEF FoldLeft, MapThenFoldSet
<1>. HIDE DEF n, G
<1>5. Closed(G, 1 .. n, Sinks)
  BY <1>3 DEF Closed
<1>6. PICK h : MaxFold(h, n, Sinks, sink, G)
  BY <1>1, <1>5, FoldLeftExists
<1>7. h = Def(h) /\ \A t \in SUBSET (1 .. n) : t # {} => Max(t) \in 1 .. n
  BY <1>3, <1>6 DEF MaxFold
<1>8. iter = Def(iter)
  <2>. HIDE DEF Def
  <2>. QED BY <1>7
<1>. HIDE DEF iter
<1>9. iter[{}] = sink
  BY <1>8
<1>10. ASSUME NEW t \in SUBSET (1 .. n), t # {}, iter[t \ {Max(t)}] \in Sinks
       PROVE  iter[t] = G[<<Max(t), iter[t \ {Max(t)}]>>]
  BY <1>3, <1>7, <1>8, <1>10
<1>11. PICK f : Recursion(f, n, Sinks, sink, G) /\ f[n] = iter[1 .. n]
  <2>1. Unfolds(iter, n, Sinks, sink, G)
    BY <1>9, <1>10 DEF Unfolds
  <2>. QED BY <1>1, <1>5, <2>1, FoldLeftRuns
<1>12. f \in [0 .. n -> Sinks] /\ f[0] = sink
  BY <1>11 DEF Recursion
<1>13. ASSUME NEW i \in 1 .. n PROVE f[i] = AddRow(f[i - 1], rows[i])
  <2>1. f[i - 1] \in Sinks /\ f[i] = G[<<i, f[i - 1]>>]
    <3>1. i - 1 \in 0 .. n
      BY <1>1
    <3>. QED BY <1>11, <3>1 DEF Recursion
  <2>. QED BY <1>3, <2>1
<1>. QED BY <1>4, <1>11, <1>12, <1>13 DEF n

\* More partitions than those with files.
LEMMA SinkWider ==
  ASSUME NEW sink, NEW E, NEW W, SinkTells(sink, E, W), NEW U, W \subseteq U
  PROVE  SinkTells(sink, E, U)
BY DEF SinkTells

\* Such a sink is one of them, and the rows are sequences (_ParquetSink).
LEMMA SinkIs ==
  ASSUME NEW sink, NEW E, NEW W, SinkTells(sink, E, W)
  PROVE  sink \in Sinks /\ \A k \in Keys : E[k] \in Seq(Rows)
BY DEF Sinks, SinkTells, SinkShape

AreOf(rows, k) == \A i \in 1 .. Len(rows) : Partition(rows[i]) = k

\* The rows come behind E in the parts of k.
WrittenBehind(sink, E, W, rows, k) ==
  \E F : /\ SinkTells(sink, F, W \cup {k})
         /\ F[k] = E[k] \o rows
         /\ \A l \in Keys : l # k => F[l] = E[l]

\* Rows of one partition come behind those it has (_ParquetSink.write).
LEMMA SinkTakes ==
  ASSUME NEW sink, NEW E, NEW W, SinkTells(sink, E, W), NEW rows \in Seq(Rows), NEW k \in Keys,
         AreOf(rows, k)
  PROVE  WrittenBehind(FoldLeft(AddRow, sink, rows), E, W, rows, k)
<1>. USE DEF AreOf, WrittenBehind
<1>. DEFINE n == Len(rows)
<1>1. n \in Nat /\ \A i \in 1 .. n : rows[i] \in Rows
  BY LenProperties, ElementOfSeq
<1>2. sink \in Sinks /\ \A l \in Keys : E[l] \in Seq(Rows)
  BY SinkIs
<1>3. PICK f \in [0 .. n -> Sinks] :
         /\ f[0] = sink /\ FoldLeft(AddRow, sink, rows) = f[n]
         /\ \A i \in 1 .. n : f[i] = AddRow(f[i - 1], rows[i])
  BY <1>2, AddRowRun
<1>. DEFINE Told(i, F) == /\ SinkTells(f[i], F, W \cup {k})
                          /\ F[k] = E[k] \o SubSeq(rows, 1, i)
                          /\ \A l \in Keys : l # k => F[l] = E[l]
            T == {i \in 0 .. n : \E F : Told(i, F)}
<1>4. 0 \in T
  <2>1. SinkTells(f[0], E, W \cup {k})
    BY <1>3, SinkWider
  <2>2. SubSeq(rows, 1, 0) = <<>> /\ E[k] \o <<>> = E[k]
    BY <1>2, PrefixGrows, ConcatEmptySeq
  <2>3. Told(0, E)
    BY <2>1, <2>2
  <2>. HIDE DEF Told
  <2>. QED BY <1>1, <2>3
<1>5. ASSUME NEW i \in 0 .. n - 1, i \in T PROVE i + 1 \in T
  <2>1. PICK F : Told(i, F)
    BY <1>5
  <2>2. /\ i + 1 \in 1 .. n /\ (i + 1) - 1 = i /\ i + 1 \in 0 .. n /\ i \in 0 .. n
    BY <1>1
  <2>3. rows[i + 1] \in Rows /\ Partition(rows[i + 1]) = k
    BY <1>1, <2>2
  <2>. DEFINE H == [F EXCEPT ![k] = Append(F[k], rows[i + 1])]
  <2>4. SinkTells(f[i + 1], H, (W \cup {k}) \cup {k})
    <3>1. f[i + 1] = AddRow(f[i], rows[i + 1])
      BY <1>3, <2>2
    <3>2. SinkTells(f[i], F, W \cup {k})
      BY <2>1
    <3>. DEFINE row == rows[i + 1]
    <3>3. row \in Rows /\ Partition(row) = k /\ f[i + 1] = AddRow(f[i], row)
      BY <2>3, <3>1
    <3>. HIDE DEF row
    <3>4. SinkTells(AddRow(f[i], row), [F EXCEPT ![Partition(row)] = Append(F[Partition(row)], row)],
                    (W \cup {k}) \cup {Partition(row)})
      BY <3>2, <3>3, RowAdded
    <3>5. SinkTells(f[i + 1], [F EXCEPT ![k] = Append(F[k], row)], (W \cup {k}) \cup {k})
      BY <3>3, <3>4
    <3>. QED BY <3>5 DEF row
  <2>5. F \in [Keys -> Seq(Rows)]
    BY <2>1 DEF SinkTells
  <2>6. H[k] = Append(F[k], rows[i + 1]) /\ \A l \in Keys : l # k => H[l] = F[l]
    BY <2>5
  <2>7. Append(E[k] \o SubSeq(rows, 1, i), rows[i + 1]) = E[k] \o SubSeq(rows, 1, i + 1)
    <3>1. SubSeq(rows, 1, i) \in Seq(Rows) /\ SubSeq(rows, 1, i + 1) = Append(SubSeq(rows, 1, i), rows[i + 1])
      BY <2>2, PrefixGrows
    <3>2. E[k] \in Seq(Rows)
      BY <1>2
    <3>. DEFINE a == E[k]
                b == SubSeq(rows, 1, i)
                x == rows[i + 1]
    <3>3. a \in Seq(Rows) /\ b \in Seq(Rows) /\ x \in Rows
      BY <2>3, <3>1, <3>2
    <3>. HIDE DEF a, b, x
    <3>4. LastOfBoth(a, b, x)
      BY <3>3, AppendBehindBoth
    <3>5. Append(a \o b, x) = a \o Append(b, x)
      BY <3>4 DEF LastOfBoth
    <3>. QED BY <3>1, <3>5 DEF a, b, x
  <2>8. (W \cup {k}) \cup {k} = W \cup {k}
    OBVIOUS
  <2>. HIDE DEF H
  <2>9. Told(i + 1, H)
    BY <2>1, <2>4, <2>6, <2>7, <2>8
  <2>. HIDE DEF Told
  <2>. QED BY <2>2, <2>9
<1>6. \A i \in 0 .. n : i \in T
  <2>1. \A i \in 0 .. n - 1 : i \in T => i + 1 \in T
    BY <1>5
  <2>. HIDE DEF T, n
  <2>. QED BY <1>1, <1>4, <2>1, UpTo
<1>7. PICK F : Told(n, F)
  BY <1>1, <1>6
<1>8. SubSeq(rows, 1, n) = rows
  BY PrefixGrows
<1>. QED BY <1>3, <1>7, <1>8

\* Candles leave the other partitions as they are, and all of them are kept.
LEMMA CandlesTaken ==
  ASSUME NEW sink, NEW E, NEW W, SinkTells(sink, E, W), NEW rows \in Seq(Rows),
         \A i \in 1 .. Len(rows) : IsCandle(rows[i]) /\ Partition(rows[i]) \in W,
         \A k \in Keys : k[1] = "kline" => E[k] = <<>>
  PROVE  \E F : /\ SinkTells(FoldLeft(AddRow, sink, rows), F, W)
                /\ \A k \in Keys : k[1] # "kline" => F[k] = E[k]
                /\ \A k \in Keys : k[1] = "kline" =>
                     Range(F[k]) = {r \in Range(rows) : Partition(r) = k}
<1>. DEFINE n == Len(rows)
<1>1. n \in Nat /\ (\A i \in 1 .. n : rows[i] \in Rows) /\ Range(rows) = {rows[i] : i \in 1 .. n}
  BY LenProperties, ElementOfSeq DEF Range
<1>2. sink \in Sinks /\ \A l \in Keys : E[l] \in Seq(Rows)
  BY SinkIs
<1>3. PICK f \in [0 .. n -> Sinks] :
         /\ f[0] = sink /\ FoldLeft(AddRow, sink, rows) = f[n]
         /\ \A i \in 1 .. n : f[i] = AddRow(f[i - 1], rows[i])
  BY <1>2, AddRowRun
<1>. DEFINE Of(k, i) == {rows[j] : j \in {m \in 1 .. i : Partition(rows[m]) = k}}
            Told(i, F) == /\ SinkTells(f[i], F, W)
                          /\ \A k \in Keys : k[1] # "kline" => F[k] = E[k]
                          /\ \A k \in Keys : k[1] = "kline" => Range(F[k]) = Of(k, i)
            T == {i \in 0 .. n : \E F : Told(i, F)}
<1>4. 0 \in T
  <2>1. \A k \in Keys : k[1] = "kline" => Range(E[k]) = Of(k, 0)
    BY DEF Range
  <2>2. Told(0, E)
    BY <1>3, <2>1
  <2>. HIDE DEF Told
  <2>. QED BY <1>1, <2>2
<1>5. ASSUME NEW i \in 0 .. n - 1, i \in T PROVE i + 1 \in T
  <2>1. PICK F : Told(i, F)
    BY <1>5
  <2>2. /\ i + 1 \in 1 .. n /\ (i + 1) - 1 = i /\ i + 1 \in 0 .. n /\ i \in 0 .. n
    BY <1>1
  <2>. DEFINE row == rows[i + 1]
              q == Partition(row)
              H == [F EXCEPT ![q] = Append(F[q], row)]
  <2>3. row \in Rows /\ q \in W /\ q \in Keys /\ q[1] = "kline"
    BY <1>1, <2>2, RowsAre DEF Partition, IsCandle
  <2>4. SinkTells(f[i + 1], H, W)
    <3>1. f[i + 1] = AddRow(f[i], row)
      BY <1>3, <2>2
    <3>2. SinkTells(f[i + 1], H, W \cup {q})
      BY <2>1, <2>3, <3>1, RowAdded
    <3>3. W \cup {q} = W
      BY <2>3
    <3>. QED BY <3>2, <3>3
  <2>5. F \in [Keys -> Seq(Rows)] /\ F[q] \in Seq(Rows)
    BY <2>1, <2>3 DEF SinkTells
  <2>6. H[q] = Append(F[q], row) /\ \A l \in Keys : l # q => H[l] = F[l]
    BY <2>3, <2>5
  <2>7. Range(H[q]) = Range(F[q]) \cup {row}
    <3>. HIDE DEF row, q, H
    <3>. QED BY <2>3, <2>5, <2>6, RangeGrows
  <2>8. ASSUME NEW k \in Keys PROVE Of(k, i + 1) = IF k = q THEN Of(k, i) \cup {row} ELSE Of(k, i)
    <3>1. \A j : j \in 1 .. i + 1 <=> j \in 1 .. i \/ j = i + 1
      BY <2>2
    <3>. HIDE DEF n
    <3>2. CASE k = q
      <4>1. \A x : x \in Of(k, i + 1) <=> x \in Of(k, i) \/ x = row
        BY <3>1, <3>2
      <4>. QED BY <3>2, <4>1
    <3>3. CASE k # q
      <4>1. \A x : x \in Of(k, i + 1) <=> x \in Of(k, i)
        BY <3>1, <3>3
      <4>. QED BY <3>3, <4>1
    <3>. QED BY <3>2, <3>3
  <2>. HIDE DEF Of, row, q, H
  <2>9. ASSUME NEW k \in Keys
        PROVE  /\ k[1] # "kline" => H[k] = E[k]
               /\ k[1] = "kline" => Range(H[k]) = Of(k, i + 1)
    <3>1. CASE k = q
      BY <2>1, <2>3, <2>7, <2>8, <3>1
    <3>2. CASE k # q
      BY <2>1, <2>6, <2>8, <3>2
    <3>. QED BY <3>1, <3>2
  <2>10. Told(i + 1, H)
    BY <2>4, <2>9
  <2>. HIDE DEF Told
  <2>. QED BY <2>2, <2>10
<1>6. \A i \in 0 .. n : i \in T
  <2>1. \A i \in 0 .. n - 1 : i \in T => i + 1 \in T
    BY <1>5
  <2>. HIDE DEF T, n
  <2>. QED BY <1>1, <1>4, <2>1, UpTo
<1>7. PICK F : Told(n, F)
  <2>1. n \in 0 .. n
    BY <1>1
  <2>2. n \in T
    BY <1>6, <2>1
  <2>. HIDE DEF Told
  <2>. QED BY <2>2
<1>8. ASSUME NEW k \in Keys PROVE Of(k, n) = {r \in Range(rows) : Partition(r) = k}
  <2>1. \A x : x \in Of(k, n) <=> x \in {r \in Range(rows) : Partition(r) = k}
    BY <1>1
  <2>. HIDE DEF Of
  <2>. QED BY <2>1
<1>. QED BY <1>3, <1>7, <1>8

-----------------------------------------------------------------------------
(* Records *)

CandlesIn(s) == {r \in Range(s) : IsCandle(r)}

\* k is the revision received last of the two, or both are the same.
Over(k, c) == k.received > c.received \/ (k.received = c.received /\ k.payload = c.payload)

\* Of the candles of s that have one start, K has the one received last.
KlinesTell(K, s) ==
  /\ IsFiniteSet(K) /\ K \subseteq CandlesIn(s)
  /\ \A k, l \in K : k.start = l.start => k = l
  /\ \A c \in CandlesIn(s) : \E k \in K : k.start = c.start
  /\ \A c \in CandlesIn(s), k \in K : k.start = c.start => Over(k, c)

\* A revision that the one kept does not contradict (_CanonicalKlines.observe).
LEMMA CandleObserved ==
  ASSUME NEW s \in Seq(Rows), NEW K, KlinesTell(K, s), NEW r \in Rows, IsCandle(r), ~ Ambiguous(K, r)
  PROVE  KlinesTell(ObserveCandle(K, r), Append(s, r))
<1>. DEFINE t == Append(s, r)
            L == ObserveCandle(K, r)
<1>1. CandlesIn(t) = CandlesIn(s) \cup {r} /\ CandlesIn(s) \subseteq Rows
  BY RangeGrows DEF CandlesIn
<1>2. \A c \in CandlesIn(t) : c.start \in Int /\ c.received \in Int
  BY <1>1, RowsAre DEF CandlesIn
<1>3. K \subseteq CandlesIn(s) /\ IsFiniteSet(K)
  BY DEF KlinesTell
<1>4. ASSUME NEW k \in K, k.start = r.start PROVE k.received = r.received => k.payload = r.payload
  BY <1>4 DEF Ambiguous, SameStart
<1>5. CASE SameStart(K, r) = {}
  <2>1. L = K \cup {r} /\ \A k \in K : k.start # r.start
    BY <1>5 DEF ObserveCandle, SameStart
  <2>2. IsFiniteSet(L)
    BY <1>3, <2>1, FS_AddElement
  <2>3. \A c \in CandlesIn(s) : c.start # r.start
    BY <2>1 DEF KlinesTell
  <2>4. Over(r, r)
    BY DEF Over
  <2>. HIDE DEF L, t
  <2>5. \A k, l \in L : k.start = l.start => k = l
    BY <2>1 DEF KlinesTell
  <2>6. \A c \in CandlesIn(t) : \E k \in L : k.start = c.start
    BY <1>1, <2>1 DEF KlinesTell
  <2>7. \A c \in CandlesIn(t), k \in L : k.start = c.start => Over(k, c)
    BY <1>1, <2>1, <2>3, <2>4 DEF KlinesTell
  <2>8. KlinesTell(L, t)
    BY <1>1, <1>3, <2>1, <2>2, <2>5, <2>6, <2>7 DEF KlinesTell
  <2>. QED BY <2>8 DEF L, t
<1>6. CASE SameStart(K, r) # {}
  <2>1. PICK o \in K : o.start = r.start
    BY <1>6 DEF SameStart
  <2>2. \A k \in K : k.start = r.start => k = o
    BY <2>1 DEF KlinesTell
  <2>. DEFINE n == IF o.received < r.received THEN r ELSE o
  <2>3. o.received \in Int /\ r.received \in Int /\ o \in CandlesIn(s) /\ r \in CandlesIn(t) /\ o \in CandlesIn(t)
    BY <1>1, <1>2, <1>3, <2>1
  <2>4. n \in {o, r} /\ n.start = r.start /\ n \in CandlesIn(t) /\ n.received \in Int
    BY <2>1, <2>3
  <2>5. Over(n, r) /\ Over(n, o)
    <3>1. o.received = r.received => o.payload = r.payload
      BY <1>4, <2>1
    <3>. QED BY <2>3, <3>1 DEF Over
  <2>6. \A k \in K : (IF k.start = r.start /\ ReceivedLater(k, r) THEN r ELSE k) = IF k = o THEN n ELSE k
    <3>1. ASSUME NEW k \in K
          PROVE (IF k.start = r.start /\ ReceivedLater(k, r) THEN r ELSE k) = IF k = o THEN n ELSE k
      <4>1. CASE k = o
        BY <2>1, <2>3, <4>1 DEF ReceivedLater
      <4>2. CASE k # o
        BY <2>2, <4>2
      <4>. QED BY <4>1, <4>2
    <3>. QED BY <3>1
  <2>. HIDE DEF n
  <2>7. \A x : x \in L <=> x = n \/ (x \in K /\ x # o)
    <3>1. L = {IF k.start = r.start /\ ReceivedLater(k, r) THEN r ELSE k : k \in K}
      BY <1>6 DEF ObserveCandle
    <3>2. L = {IF k = o THEN n ELSE k : k \in K}
      BY <2>6, <3>1
    <3>. HIDE DEF L
    <3>. QED BY <2>1, <3>2
  <2>. HIDE DEF L, t
  <2>8. IsFiniteSet(L) /\ L \subseteq CandlesIn(t)
    <3>1. IsFiniteSet(K \cup {n})
      BY <1>3, FS_AddElement
    <3>2. L \in SUBSET (K \cup {n})
      BY <2>7
    <3>. QED BY <1>1, <1>3, <2>4, <2>7, <3>1, <3>2, FS_Subset
  <2>9. \A k, l \in L : k.start = l.start => k = l
    BY <2>2, <2>4, <2>7 DEF KlinesTell
  <2>10. \A c \in CandlesIn(t) : \E k \in L : k.start = c.start
    <3>1. ASSUME NEW c \in CandlesIn(t) PROVE \E k \in L : k.start = c.start
      <4>1. CASE c.start = r.start
        BY <2>4, <2>7, <4>1
      <4>2. CASE c.start # r.start
        <5>1. PICK k \in K : k.start = c.start
          BY <1>1, <4>2 DEF KlinesTell
        <5>. QED BY <2>1, <2>7, <4>2, <5>1
      <4>. QED BY <4>1, <4>2
    <3>. QED BY <3>1
  <2>11. ASSUME NEW c \in CandlesIn(t), NEW k \in L, k.start = c.start PROVE Over(k, c)
    <3>1. CASE k = n /\ c = r
      BY <2>5, <3>1
    <3>2. CASE k = n /\ c # r
      <4>1. c \in CandlesIn(s) /\ o.start = c.start
        BY <1>1, <2>1, <2>4, <2>11, <3>2
      <4>2. Over(o, c)
        BY <2>1, <4>1 DEF KlinesTell
      <4>3. c.received \in Int /\ n.received \in Int /\ o.received \in Int
        BY <1>2, <2>3, <2>4
      <4>. QED BY <2>5, <3>2, <4>2, <4>3 DEF Over
    <3>3. CASE k # n
      <4>1. k \in K /\ k # o /\ k.start # r.start
        BY <2>2, <2>7, <3>3
      <4>2. c \in CandlesIn(s)
        BY <1>1, <2>11, <4>1
      <4>. QED BY <2>11, <4>1, <4>2 DEF KlinesTell
    <3>. QED BY <3>1, <3>2, <3>3
  <2>12. KlinesTell(L, t)
    BY <2>8, <2>9, <2>10, <2>11 DEF KlinesTell
  <2>. QED BY <2>12 DEF L, t
<1>. QED BY <1>5, <1>6

\* The rows that records give a partition, in their order.
RowsTold(s) == [k \in Keys |-> FlattenSeq([n \in DOMAIN s |-> RowsIn(s[n], k)])]

\* The rows of a record are the record.
LEMMA RowsOfAre ==
  ASSUME NEW r \in Rows
  PROVE  /\ RowsOf(r) \in Seq(Rows) /\ \A i \in 1 .. Len(RowsOf(r)) : RowsOf(r)[i] = r
         /\ \A k \in Keys : RowsIn(r, k) \in Seq(Rows)
<1>1. RowsOf(r) \in Seq(Rows) /\ \A i \in 1 .. Len(RowsOf(r)) : RowsOf(r)[i] = r
  <2>1. CASE r.kind = "trades"
    <3>1. r.ids \in Seq(Range(r.ids))
      BY <2>1, RowsAre
    <3>2. Len(r.ids) \in Nat /\ DOMAIN r.ids = 1 .. Len(r.ids)
      BY <3>1, LenProperties
    <3>3. RowsOf(r) = [n \in 1 .. Len(r.ids) |-> r]
      BY <2>1, <3>2 DEF RowsOf
    <3>4. RowsOf(r) \in Seq(Rows) /\ Len(RowsOf(r)) = Len(r.ids)
      BY <3>2, <3>3, IsASeq
    <3>. QED BY <3>3, <3>4
  <2>2. CASE r.kind # "trades"
    <3>1. RowsOf(r) = <<r>>
      BY <2>2 DEF RowsOf
    <3>. QED BY <3>1
  <2>. QED BY <2>1, <2>2
<1>2. \A k \in Keys : RowsIn(r, k) \in Seq(Rows)
  <2>1. <<>> \in Seq(Rows)
    BY EmptySeq
  <2>. QED BY <1>1, <2>1 DEF RowsIn
<1>. QED BY <1>1, <1>2

\* A record more gives its partition its rows.
LEMMA ToldGrows ==
  ASSUME NEW s \in Seq(Rows), NEW r \in Rows, NEW k \in Keys
  PROVE  /\ RowsTold(Append(s, r))[k] = RowsTold(s)[k] \o RowsIn(r, k)
         /\ RowsTold(s)[k] \in Seq(Rows)
<1>. DEFINE g == [x \in Rows |-> RowsIn(x, k)]
            t == Append(s, r)
<1>1. g \in [Rows -> Seq(Rows)] /\ g[r] = RowsIn(r, k)
  BY RowsOfAre
<1>2. \A q \in Seq(Rows) : RowsTold(q)[k] = ToldBy(g, q)
  <2>1. ASSUME NEW q \in Seq(Rows) PROVE RowsTold(q)[k] = ToldBy(g, q)
    <3>1. \A n \in DOMAIN q : g[q[n]] = RowsIn(q[n], k)
      BY LenProperties, ElementOfSeq
    <3>2. [n \in DOMAIN q |-> RowsIn(q[n], k)] = [n \in DOMAIN q |-> g[q[n]]]
      <4>. HIDE DEF g
      <4>. QED BY <3>1
    <3>. HIDE DEF g
    <3>. QED BY <3>2 DEF RowsTold, ToldBy
  <2>. QED BY <2>1
<1>. HIDE DEF g
<1>3. ToldBy(g, t) = Join(ToldBy(g, s), g[r]) /\ ToldBy(g, s) \in Seq(Rows)
  BY <1>1, ToldMore
<1>4. t \in Seq(Rows)
  BY AppendProperties
<1>. HIDE DEF t
<1>5. RowsTold(t)[k] = RowsTold(s)[k] \o RowsIn(r, k) /\ RowsTold(s)[k] \in Seq(Rows)
  BY <1>1, <1>2, <1>3, <1>4 DEF Join
<1>. QED BY <1>5 DEF t

-----------------------------------------------------------------------------
(* Builds *)

Works == [next : Nat, failed : BOOLEAN, klines : SUBSET Rows, sink : Sinks, ready : BOOLEAN]

\* The partitions of records.
Written(s) == {Partition(r) : r \in Range(s)}

\* A build that has kept the records s: the rows of candles are still to be written.
WorkTells(w, s) ==
  /\ w \in Works /\ w.failed = FALSE
  /\ KlinesTell(w.klines, s) /\ SinkTells(w.sink, RowsTold(s), Written(s))
  /\ \A k \in Keys : k[1] = "kline" => RowsTold(s)[k] = <<>>

\* What a build keeps is again a build's work, and one that failed has failed
\* (_process_source_file).
LEMMA KeepTyped ==
  ASSUME NEW w \in Works, NEW r \in Rows
  PROVE  /\ Keep(w, r) \in Works
         /\ Keep(w, r).next = w.next /\ Keep(w, r).ready = w.ready
         /\ IsCandle(r) => /\ Keep(w, r).failed = (w.failed \/ ~ r.fits \/ Ambiguous(w.klines, r))
                           /\ Keep(w, r).klines = ObserveCandle(w.klines, r)
                           /\ Keep(w, r).sink = w.sink
         /\ ~ IsCandle(r) => /\ Keep(w, r).failed = (w.failed \/ ~ r.fits)
                             /\ Keep(w, r).klines = w.klines
                             /\ Keep(w, r).sink = FoldLeft(AddRow, w.sink, RowsOf(r))
<1>1. w \in [next : Nat, failed : BOOLEAN, klines : SUBSET Rows, sink : Sinks, ready : BOOLEAN]
  BY DEF Works
<1>2. CASE IsCandle(r)
  <2>. DEFINE bad == w.failed \/ ~ r.fits \/ Ambiguous(w.klines, r)
              L == ObserveCandle(w.klines, r)
  <2>1. Keep(w, r) = [w EXCEPT !.failed = bad, !.klines = L]
    BY <1>2 DEF Keep
  <2>2. bad \in BOOLEAN
    BY <1>1, RowsAre DEF Ambiguous
  <2>3. L \in SUBSET Rows
    BY <1>1 DEF ObserveCandle
  <2>. HIDE DEF bad, L
  <2>4. /\ Keep(w, r) \in Works
        /\ Keep(w, r).next = w.next /\ Keep(w, r).ready = w.ready
        /\ Keep(w, r).failed = bad /\ Keep(w, r).klines = L /\ Keep(w, r).sink = w.sink
    BY <1>1, <2>1, <2>2, <2>3 DEF Works
  <2>. QED BY <1>2, <2>4 DEF bad, L
<1>3. CASE ~ IsCandle(r)
  <2>. DEFINE to == FoldLeft(AddRow, w.sink, RowsOf(r))
              bad == w.failed \/ ~ r.fits
  <2>0. bad \in BOOLEAN
    BY <1>1, RowsAre
  <2>1. Keep(w, r) = [w EXCEPT !.failed = bad, !.sink = to]
    <3>1. Keep(w, r) = [w EXCEPT !.failed = (w.failed \/ ~ r.fits \/ FALSE), !.sink = to]
      BY <1>3 DEF Keep
    <3>2. (w.failed \/ ~ r.fits \/ FALSE) = bad
      OBVIOUS
    <3>. HIDE DEF bad, to
    <3>. QED BY <3>1, <3>2
  <2>2. to \in Sinks
    <3>1. w.sink \in Sinks /\ RowsOf(r) \in Seq(Rows) /\ Len(RowsOf(r)) \in Nat
      BY <1>1, RowsOfAre, LenProperties
    <3>. DEFINE rows == RowsOf(r)
    <3>. HIDE DEF rows
    <3>2. PICK f \in [0 .. Len(rows) -> Sinks] : FoldLeft(AddRow, w.sink, rows) = f[Len(rows)]
      BY <3>1, AddRowRun DEF rows
    <3>3. Len(rows) \in 0 .. Len(rows)
      BY <3>1 DEF rows
    <3>4. f[Len(rows)] \in Sinks
      BY <3>3
    <3>. QED BY <3>2, <3>4 DEF rows
  <2>. HIDE DEF to, bad
  <2>3. /\ Keep(w, r) \in Works
        /\ Keep(w, r).next = w.next /\ Keep(w, r).ready = w.ready
        /\ Keep(w, r).failed = bad /\ Keep(w, r).klines = w.klines /\ Keep(w, r).sink = to
    BY <1>1, <2>0, <2>1, <2>2 DEF Works
  <2>. QED BY <1>3, <2>3 DEF to, bad
<1>. QED BY <1>2, <1>3

\* Unless it fails, a build that keeps a record more has the rows of all of them
\* (_process_source_file, _CanonicalKlines.observe).
LEMMA KeepTells ==
  ASSUME NEW w, NEW s \in Seq(Rows), WorkTells(w, s), NEW r \in Rows
  PROVE  Keep(w, r).failed \/ WorkTells(Keep(w, r), Append(s, r))
<1>. DEFINE v == Keep(w, r)
            t == Append(s, r)
            q == Partition(r)
<1>1. /\ w \in Works /\ w.failed = FALSE
      /\ KlinesTell(w.klines, s) /\ SinkTells(w.sink, RowsTold(s), Written(s))
      /\ \A k \in Keys : k[1] = "kline" => RowsTold(s)[k] = <<>>
  BY DEF WorkTells
<1>2. v \in Works
  BY <1>1, KeepTyped
<1>3. q \in Keys /\ Range(t) = Range(s) \cup {r} /\ Written(t) = Written(s) \cup {q}
  <2>1. Range(t) = Range(s) \cup {r} /\ q \in Keys
    BY RangeGrows, RowsAre
  <2>. HIDE DEF t
  <2>. QED BY <2>1 DEF Written
<1>4. \A k \in Keys : RowsTold(t)[k] = RowsTold(s)[k] \o RowsIn(r, k) /\ RowsTold(s)[k] \in Seq(Rows)
  BY ToldGrows
<1>5. /\ RowsTold(s) \in [Keys -> Seq(Rows)]
      /\ RowsTold(t) = [k \in Keys |-> RowsTold(t)[k]]
      /\ RowsTold(s) = [k \in Keys |-> RowsTold(s)[k]]
  BY <1>1 DEF SinkTells, RowsTold
<1>8. CASE ~ r.fits
  <2>1. v.failed = (w.failed \/ TRUE \/ Ambiguous(w.klines, r)) \/ v.failed = (w.failed \/ TRUE)
    BY <1>1, <1>8, KeepTyped
  <2>. QED BY <2>1
<1>. SUFFICES ASSUME r.fits PROVE v.failed \/ WorkTells(v, t)
  BY <1>8
<1>6. CASE IsCandle(r)
  <2>1. \A k \in Keys : RowsTold(t)[k] = RowsTold(s)[k]
    <3>1. ASSUME NEW k \in Keys PROVE RowsTold(t)[k] = RowsTold(s)[k]
      <4>1. RowsIn(r, k) = <<>>
        BY <1>6 DEF RowsIn
      <4>2. RowsTold(s)[k] \o <<>> = RowsTold(s)[k]
        BY <1>4, ConcatEmptySeq
      <4>. QED BY <1>4, <4>1, <4>2
    <3>. QED BY <3>1
  <2>2. RowsTold(t) = RowsTold(s)
    <3>. HIDE DEF t
    <3>. QED BY <1>5, <2>1
  <2>3. v.sink = w.sink /\ v.klines = ObserveCandle(w.klines, r) /\ v.failed = Ambiguous(w.klines, r)
    <3>1. v.failed = (FALSE \/ FALSE \/ Ambiguous(w.klines, r))
      BY <1>1, <1>6, KeepTyped
    <3>2. Ambiguous(w.klines, r) \in BOOLEAN
      BY DEF Ambiguous
    <3>. QED BY <1>1, <1>6, <3>1, <3>2, KeepTyped
  <2>4. SinkTells(v.sink, RowsTold(t), Written(t))
    BY <1>1, <1>3, <2>2, <2>3, SinkWider
  <2>5. CASE ~ Ambiguous(w.klines, r)
    <3>1. KlinesTell(v.klines, t)
      BY <1>1, <1>6, <2>3, <2>5, CandleObserved
    <3>2. v.failed = FALSE
      BY <2>3, <2>5
    <3>3. \A k \in Keys : k[1] = "kline" => RowsTold(t)[k] = <<>>
      BY <1>1, <2>2
    <3>. HIDE DEF v, t
    <3>4. WorkTells(v, t)
      BY <1>2, <2>4, <3>1, <3>2, <3>3 DEF WorkTells
    <3>. QED BY <3>4 DEF v, t
  <2>6. CASE Ambiguous(w.klines, r)
    BY <2>3, <2>6
  <2>. QED BY <2>5, <2>6
<1>7. CASE ~ IsCandle(r)
  <2>1. /\ v.failed = FALSE /\ v.klines = w.klines /\ v.sink = FoldLeft(AddRow, w.sink, RowsOf(r))
    BY <1>1, <1>7, KeepTyped
  <2>2. CandlesIn(t) = CandlesIn(s)
    <3>. HIDE DEF t
    <3>. QED BY <1>3, <1>7 DEF CandlesIn
  <2>3. KlinesTell(v.klines, t)
    <3>. HIDE DEF v, t
    <3>. QED BY <1>1, <2>1, <2>2 DEF KlinesTell
  <2>4. RowsIn(r, q) = RowsOf(r) /\ \A k \in Keys : k # q => RowsIn(r, k) = <<>>
    BY <1>7 DEF RowsIn
  <2>5. PICK F : /\ SinkTells(v.sink, F, Written(s) \cup {q})
                 /\ F[q] = RowsTold(s)[q] \o RowsOf(r)
                 /\ \A l \in Keys : l # q => F[l] = RowsTold(s)[l]
    <3>. DEFINE rows == RowsOf(r)
    <3>1. rows \in Seq(Rows) /\ \A i \in 1 .. Len(rows) : Partition(rows[i]) = q
      BY RowsOfAre
    <3>2. SinkTells(w.sink, RowsTold(s), Written(s))
      BY <1>1
    <3>. HIDE DEF q, v, rows
    <3>3. WrittenBehind(FoldLeft(AddRow, w.sink, rows), RowsTold(s), Written(s), rows, q)
      BY <1>3, <3>1, <3>2, SinkTakes DEF AreOf
    <3>4. v.sink = FoldLeft(AddRow, w.sink, rows)
      BY <2>1 DEF rows
    <3>. QED BY <3>3, <3>4 DEF rows, WrittenBehind
  <2>6. ASSUME NEW k \in Keys PROVE F[k] = RowsTold(t)[k]
    <3>1. CASE k = q
      BY <1>4, <2>4, <2>5, <3>1
    <3>2. CASE k # q
      <4>1. RowsTold(s)[k] \o <<>> = RowsTold(s)[k]
        BY <1>4, ConcatEmptySeq
      <4>2. RowsTold(t)[k] = RowsTold(s)[k] \o <<>>
        BY <1>4, <2>4, <3>2
      <4>. QED BY <2>5, <3>2, <4>1, <4>2
    <3>. QED BY <3>1, <3>2
  <2>7. F = RowsTold(t)
    <3>. DEFINE R == RowsTold(t)
    <3>1. F = [k \in Keys |-> F[k]]
      BY <2>5 DEF SinkTells
    <3>2. R = [k \in Keys |-> R[k]] /\ \A k \in Keys : F[k] = R[k]
      BY <1>5, <2>6
    <3>. HIDE DEF R
    <3>3. F = R
      BY <3>1, <3>2, Zenon
    <3>. QED BY <3>3 DEF R
  <2>8. ASSUME NEW k \in Keys, k[1] = "kline" PROVE RowsTold(t)[k] = <<>>
    <3>1. k # q
      BY <1>7, <2>8 DEF IsCandle, Partition
    <3>. QED BY <1>1, <2>5, <2>6, <2>8, <3>1
  <2>. HIDE DEF v, t
  <2>9. WorkTells(v, t)
    BY <1>2, <1>3, <2>1, <2>3, <2>5, <2>7, <2>8 DEF WorkTells
  <2>. QED BY <2>9 DEF v, t
<1>. QED BY <1>6, <1>7

\* Records are kept one after the other.
LEMMA KeepRun ==
  ASSUME NEW w \in Works, NEW lines \in Seq(Rows)
  PROVE  \E f \in [0 .. Len(lines) -> Works] :
            /\ f[0] = w /\ FoldLeft(Keep, w, lines) = f[Len(lines)]
            /\ \A i \in 1 .. Len(lines) : f[i] = Keep(f[i - 1], lines[i])
<1>. DEFINE n == Len(lines)
            G == [p \in (1 .. n) \X Works |-> Keep(p[2], lines[p[1]])]
            Def(f) == [t \in SUBSET (1 .. n) |-> IF t = {} THEN w
                                                 ELSE Keep(f[t \ {Max(t)}], lines[Max(t)])]
            iter == CHOOSE f : f = Def(f)
<1>1. n \in Nat /\ DOMAIN lines = 1 .. n
  BY LenProperties
<1>2. ASSUME NEW i \in 1 .. n, NEW x \in Works PROVE Keep(x, lines[i]) \in Works
  <2>1. lines[i] \in Rows
    BY ElementOfSeq
  <2>. QED BY <2>1, KeepTyped
<1>3. \A i \in 1 .. n, x \in Works : G[<<i, x>>] = Keep(x, lines[i]) /\ G[<<i, x>>] \in Works
  BY <1>2
<1>4. FoldLeft(Keep, w, lines) = iter[1 .. n]
  BY <1>1 DEF FoldLeft, MapThenFoldSet
<1>. HIDE DEF n, G
<1>5. Closed(G, 1 .. n, Works)
  BY <1>3 DEF Closed
<1>6. PICK h : MaxFold(h, n, Works, w, G)
  BY <1>1, <1>5, FoldLeftExists
<1>7. h = Def(h) /\ \A t \in SUBSET (1 .. n) : t # {} => Max(t) \in 1 .. n
  BY <1>3, <1>6 DEF MaxFold
<1>8. iter = Def(iter)
  <2>. HIDE DEF Def
  <2>. QED BY <1>7
<1>. HIDE DEF iter
<1>9. iter[{}] = w
  BY <1>8
<1>10. ASSUME NEW t \in SUBSET (1 .. n), t # {}, iter[t \ {Max(t)}] \in Works
       PROVE  iter[t] = G[<<Max(t), iter[t \ {Max(t)}]>>]
  BY <1>3, <1>7, <1>8, <1>10
<1>11. PICK f : Recursion(f, n, Works, w, G) /\ f[n] = iter[1 .. n]
  <2>1. Unfolds(iter, n, Works, w, G)
    BY <1>9, <1>10 DEF Unfolds
  <2>. QED BY <1>1, <1>5, <2>1, FoldLeftRuns
<1>12. f \in [0 .. n -> Works] /\ f[0] = w
  BY <1>11 DEF Recursion
<1>13. ASSUME NEW i \in 1 .. n PROVE f[i] = Keep(f[i - 1], lines[i])
  <2>1. f[i - 1] \in Works /\ f[i] = G[<<i, f[i - 1]>>]
    <3>1. i - 1 \in 0 .. n
      BY <1>1
    <3>. QED BY <1>11, <3>1 DEF Recursion
  <2>. QED BY <1>3, <2>1
<1>. QED BY <1>4, <1>11, <1>12, <1>13 DEF n

\* The build has failed, or has all records.
KeptOr(w, s) == w.failed = TRUE \/ WorkTells(w, s)

\* A file's lines are kept behind those of the files before (_process_source_file).
LEMMA LinesKept ==
  ASSUME NEW w, NEW s \in Seq(Rows), WorkTells(w, s), NEW lines \in Seq(Rows)
  PROVE  LET to == FoldLeft(Keep, w, lines)
         IN  to \in Works /\ to.next = w.next /\ to.ready = w.ready /\ KeptOr(to, s \o lines)
<1>. DEFINE n == Len(lines)
<1>1. w \in Works /\ n \in Nat /\ \A i \in 1 .. n : lines[i] \in Rows
  BY LenProperties, ElementOfSeq DEF WorkTells
<1>2. PICK f \in [0 .. n -> Works] :
         /\ f[0] = w /\ FoldLeft(Keep, w, lines) = f[n]
         /\ \A i \in 1 .. n : f[i] = Keep(f[i - 1], lines[i])
  BY <1>1, KeepRun
<1>. DEFINE KeptAt(i) == /\ f[i].next = w.next /\ f[i].ready = w.ready
                       /\ KeptOr(f[i], s \o SubSeq(lines, 1, i))
            T == {i \in 0 .. n : KeptAt(i)}
<1>3. 0 \in T
  <2>1. SubSeq(lines, 1, 0) = <<>> /\ s \o <<>> = s
    BY PrefixGrows, ConcatEmptySeq
  <2>2. s \o SubSeq(lines, 1, 0) = s
    BY <2>1
  <2>3. KeptOr(f[0], s \o SubSeq(lines, 1, 0))
    BY <1>2, <2>2 DEF KeptOr
  <2>. QED BY <1>1, <1>2, <2>3
<1>4. ASSUME NEW i \in 0 .. n - 1, i \in T PROVE i + 1 \in T
  <2>1. /\ i + 1 \in 1 .. n /\ (i + 1) - 1 = i /\ i + 1 \in 0 .. n /\ i \in 0 .. n
    BY <1>1
  <2>. DEFINE r == lines[i + 1]
              a == s \o SubSeq(lines, 1, i)
              x == f[i]
              y == f[i + 1]
              b == SubSeq(lines, 1, i)
  <2>2. r \in Rows /\ x \in Works /\ y = Keep(x, r)
    BY <1>1, <1>2, <2>1
  <2>3. b \in Seq(Rows) /\ a \in Seq(Rows) /\ SubSeq(lines, 1, i + 1) = Append(b, r)
    <3>1. b \in Seq(Rows) /\ SubSeq(lines, 1, i + 1) = Append(b, r)
      BY <2>1, PrefixGrows
    <3>2. s \o b \in Seq(Rows)
      <4>. HIDE DEF b
      <4>. QED BY <3>1, ConcatProperties
    <3>. QED BY <3>1, <3>2
  <2>4. Append(a, r) = s \o SubSeq(lines, 1, i + 1)
    <3>. HIDE DEF b, r
    <3>1. LastOfBoth(s, b, r)
      BY <2>2, <2>3, AppendBehindBoth
    <3>2. Append(s \o b, r) = s \o Append(b, r)
      BY <3>1 DEF LastOfBoth
    <3>. QED BY <2>3, <3>2 DEF b
  <2>5. x.next = w.next /\ x.ready = w.ready /\ KeptOr(x, a)
    BY <1>4
  <2>. HIDE DEF r, a, x, b
  <2>6. y.next = w.next /\ y.ready = w.ready
    BY <2>2, <2>5, KeepTyped
  <2>7. KeptOr(y, Append(a, r))
    <3>1. CASE x.failed = TRUE
      <4>1. CASE IsCandle(r)
        <5>1. y.failed = (x.failed \/ ~ r.fits \/ Ambiguous(x.klines, r))
          BY <2>2, <4>1, KeepTyped
        <5>. QED BY <3>1, <5>1 DEF KeptOr
      <4>2. CASE ~ IsCandle(r)
        <5>1. y.failed = (x.failed \/ ~ r.fits)
          BY <2>2, <4>2, KeepTyped
        <5>. QED BY <3>1, <5>1 DEF KeptOr
      <4>. QED BY <4>1, <4>2
    <3>2. CASE WorkTells(x, a)
      <4>1. Keep(x, r).failed \/ WorkTells(Keep(x, r), Append(a, r))
        BY <2>2, <2>3, <3>2, KeepTells
      <4>2. y.failed \in BOOLEAN
        BY <1>2, <2>1 DEF Works
      <4>. HIDE DEF y
      <4>. QED BY <2>2, <4>1, <4>2 DEF KeptOr
    <3>. QED BY <2>5, <3>1, <3>2 DEF KeptOr
  <2>8. KeptAt(i + 1)
    BY <2>4, <2>6, <2>7
  <2>. HIDE DEF KeptAt
  <2>. QED BY <2>1, <2>8
<1>5. \A i \in 0 .. n : i \in T
  <2>1. \A i \in 0 .. n - 1 : i \in T => i + 1 \in T
    BY <1>4
  <2>. HIDE DEF T, n
  <2>. QED BY <1>1, <1>3, <2>1, UpTo
<1>6. KeptAt(n)
  <2>1. n \in 0 .. n
    BY <1>1
  <2>2. n \in T
    BY <1>5, <2>1
  <2>. HIDE DEF KeptAt
  <2>. QED BY <2>2
<1>7. f[n] \in Works /\ SubSeq(lines, 1, n) = lines
  <2>1. n \in 0 .. n
    BY <1>1
  <2>. QED BY <2>1, PrefixGrows
<1>. QED BY <1>2, <1>6, <1>7

\* The rows of the candles are the candles, one for each start (_ParquetSink).
LEMMA CandleRowsAre ==
  ASSUME NEW s \in Seq(Rows), NEW K, KlinesTell(K, s)
  PROVE  CandleRows(K) \in Seq(Rows) /\ Range(CandleRows(K)) = K
<1>. DEFINE n == Cardinality(K)
            S == {k.start : k \in K}
            Rank(k) == Cardinality({j \in K : j.start < k.start})
            g == [k \in K |-> k.start]
<1>1. /\ IsFiniteSet(K) /\ n \in Nat /\ K \subseteq Rows
      /\ \A k \in K : k.start \in Int
      /\ \A k, l \in K : k.start = l.start => k = l
  <2>1. K \subseteq CandlesIn(s) /\ CandlesIn(s) \subseteq Rows
    BY RangeGrows, EmptySeq DEF CandlesIn, KlinesTell, Range
  <2>2. \A k \in K : k.start \in Int
    BY <2>1, RowsAre DEF CandlesIn
  <2>. QED BY <2>1, <2>2, FS_CardinalityType DEF KlinesTell
<1>2. IsFiniteSet(S) /\ S \subseteq Int /\ Cardinality(S) = n
  <2>1. g \in [K -> S] /\ \A k \in K : g[k] = k.start
    OBVIOUS
  <2>2. \A x \in S : \E k \in K : g[k] = x
    OBVIOUS
  <2>. HIDE DEF g
  <2>3. \A k, l \in K : g[k] = g[l] => k = l
    BY <1>1, <2>1
  <2>. HIDE DEF S
  <2>4. g \in Bijection(K, S)
    BY <2>1, <2>2, <2>3 DEF Bijection, Injection, Surjection, IsInjective
  <2>5. ExistsBijection(K, S)
    BY <2>4 DEF ExistsBijection
  <2>. QED BY <1>1, <2>5, FS_Bijection DEF S
<1>3. ASSUME NEW k \in K
      PROVE  Rank(k) = Cardinality(Below(S, k.start)) /\ IsFiniteSet(Below(S, k.start))
  <2>. DEFINE J == {j \in K : j.start < k.start}
              B == Below(S, k.start)
              h == [j \in J |-> j.start]
  <2>1. h \in [J -> B] /\ \A j \in J : h[j] = j.start
    BY DEF Below
  <2>2. \A x \in B : \E j \in J : h[j] = x
    BY DEF Below
  <2>3. J \subseteq K /\ B \subseteq S
    BY DEF Below
  <2>. HIDE DEF h
  <2>4. \A j, l \in J : h[j] = h[l] => j = l
    BY <1>1, <2>1
  <2>. HIDE DEF J, B
  <2>5. h \in Bijection(J, B)
    BY <2>1, <2>2, <2>4 DEF Bijection, Injection, Surjection, IsInjective
  <2>6. ExistsBijection(J, B)
    BY <2>5 DEF ExistsBijection
  <2>7. IsFiniteSet(J) /\ IsFiniteSet(B)
    BY <1>1, <1>2, <2>3, FS_Subset
  <2>8. Cardinality(J) = Cardinality(B)
    BY <2>6, <2>7, FS_Bijection
  <2>. QED BY <2>7, <2>8 DEF J, B
<1>4. ASSUME NEW i \in 1 .. n PROVE \E k \in K : Rank(k) = i - 1
  <2>1. i - 1 \in 0 .. Cardinality(S) - 1
    BY <1>1, <1>2
  <2>2. PICK x \in S : Cardinality(Below(S, x)) = i - 1
    BY <1>2, <2>1, RankExists
  <2>3. PICK k \in K : k.start = x
    OBVIOUS
  <2>. HIDE DEF Rank
  <2>. QED BY <1>3, <2>2, <2>3
<1>5. ASSUME NEW k \in K PROVE Rank(k) + 1 \in 1 .. n
  <2>0. k.start \in S
    OBVIOUS
  <2>1. Below(S, k.start) \subseteq S \ {k.start} /\ k.start \in S
    <3>. HIDE DEF S
    <3>1. \A e \in Below(S, k.start) : e \in S /\ e # k.start
      BY <1>2, <2>0 DEF Below
    <3>. QED BY <2>0, <3>1
  <2>. HIDE DEF S
  <2>2. IsFiniteSet(S \ {k.start}) /\ Cardinality(S \ {k.start}) = n - 1
    BY <1>2, <2>1, FS_RemoveElement
  <2>3. Cardinality(Below(S, k.start)) <= Cardinality(S \ {k.start})
    BY <2>1, <2>2, FS_Subset
  <2>4. Cardinality(Below(S, k.start)) \in Nat
    BY <1>3, FS_CardinalityType
  <2>. QED BY <1>1, <1>3, <2>2, <2>3, <2>4
<1>6. ASSUME NEW k \in K, NEW l \in K, Rank(k) = Rank(l) PROVE k = l
  <2>1. ASSUME NEW a \in K, NEW b \in K, a.start < b.start PROVE Rank(a) # Rank(b)
    <3>1. /\ Below(S, a.start) \subseteq Below(S, b.start) \ {a.start}
          /\ a.start \in Below(S, b.start)
      BY <1>1, <1>2, <2>1 DEF Below
    <3>2. IsFiniteSet(Below(S, b.start)) /\ IsFiniteSet(Below(S, a.start))
      BY <1>3
    <3>. DEFINE A == Below(S, a.start)
                B == Below(S, b.start)
                x == a.start
    <3>3. A \subseteq B \ {x} /\ x \in B /\ IsFiniteSet(A) /\ IsFiniteSet(B)
      BY <3>1, <3>2
    <3>. HIDE DEF A, B, x
    <3>4. IsFiniteSet(B \ {x}) /\ Cardinality(B \ {x}) = Cardinality(B) - 1
      BY <3>3, FS_RemoveElement
    <3>5. Cardinality(A) <= Cardinality(B \ {x})
      BY <3>3, <3>4, FS_Subset
    <3>6. Cardinality(A) \in Nat /\ Cardinality(B) \in Nat
      BY <3>3, FS_CardinalityType
    <3>7. Cardinality(A) # Cardinality(B)
      BY <3>4, <3>5, <3>6
    <3>. QED BY <1>3, <3>7 DEF A, B
  <2>2. k.start \in Int /\ l.start \in Int
    BY <1>1
  <2>3. ~ (k.start < l.start) /\ ~ (l.start < k.start)
    BY <1>6, <2>1
  <2>4. k.start = l.start
    BY <2>2, <2>3
  <2>. QED BY <1>1, <2>4
<1>7. \A i \in 1 .. n : CandleRows(K)[i] \in K /\ Rank(CandleRows(K)[i]) = i - 1
  BY <1>4 DEF CandleRows
<1>8. CandleRows(K) = [i \in 1 .. n |-> CandleRows(K)[i]]
  <2>. DEFINE e(i) == CHOOSE k \in K : Rank(k) = i - 1
              c == CandleRows(K)
  <2>1. c = [i \in 1 .. n |-> e(i)]
    BY DEF CandleRows
  <2>. HIDE DEF e, c
  <2>2. c = [i \in 1 .. n |-> c[i]]
    BY <2>1
  <2>. QED BY <2>2 DEF c
<1>. DEFINE c == CandleRows(K)
<1>. HIDE DEF c, Rank
<1>9. c \in Seq(Rows) /\ Len(c) = n
  <2>1. c \in [1 .. n -> Rows]
    BY <1>1, <1>7, <1>8 DEF c
  <2>. QED BY <1>1, <2>1, IsASeq
<1>10. Range(c) = K
  <2>1. DOMAIN c = 1 .. n
    BY <1>9, LenProperties
  <2>2. \A i \in 1 .. n : c[i] \in K /\ Rank(c[i]) = i - 1
    BY <1>7 DEF c
  <2>3. ASSUME NEW k \in K PROVE \E i \in 1 .. n : c[i] = k
    <3>1. Rank(k) + 1 \in 1 .. n
      BY <1>5
    <3>2. Rank(k) \in Nat
      BY <1>3, FS_CardinalityType
    <3>3. c[Rank(k) + 1] \in K /\ Rank(c[Rank(k) + 1]) = Rank(k)
      BY <2>2, <3>1, <3>2
    <3>4. c[Rank(k) + 1] = k
      BY <1>6, <3>3
    <3>. QED BY <3>1, <3>4
  <2>. HIDE DEF n
  <2>. QED BY <2>1, <2>2, <2>3 DEF Range
<1>. QED BY <1>9, <1>10 DEF c

-----------------------------------------------------------------------------
(* The dataset *)

\* The records of the first n files.
LinesOf(files, n) == FlattenSeq([i \in 1 .. n |-> files[i].lines])

\* The parts hold the rows of the records s, of a candle those of one revision.
Whole(dir, s) ==
  \E P \in Parts :
     /\ dir = FilesOf(P)
     /\ \A k \in Keys : Len(P[k]) > 0 => k \in Written(s)
     /\ \A k \in Keys : k[1] # "kline" => FlattenSeq(P[k]) = RowsTold(s)[k]
     /\ \E K : /\ KlinesTell(K, s)
               /\ \A k \in Keys : k[1] = "kline" =>
                    Range(FlattenSeq(P[k])) = {r \in K : Partition(r) = k}

Working(files, w) ==
  /\ w.ready = FALSE /\ w.next \in 1 .. Len(files) + 1
  /\ WorkTells(w, LinesOf(files, w.next - 1))

Finished(files, w) == w.ready = TRUE /\ Whole(w.sink.files, Records(files))

\* What a build has is what it has read; what is published is whole.
CanonicalInv ==
  /\ audited \in Audits /\ intact \in [DOMAIN audited -> BOOLEAN]
  /\ build = [b \in Builders |-> build[b]]
  /\ \A b \in Builders :
        build[b] # None => Working(audited, build[b]) \/ Finished(audited, build[b])
  /\ dataset # None => Whole(dataset, Records(audited))

\* A file more adds its lines (build_canonical_dataset reads the files in order).
LEMMA SeenGrows ==
  ASSUME NEW files \in Audits
  PROVE  /\ Len(files) \in Nat /\ DOMAIN files = 1 .. Len(files)
         /\ LinesOf(files, 0) = <<>> /\ LinesOf(files, Len(files)) = Records(files)
         /\ \A n \in 0 .. Len(files) : LinesOf(files, n) \in Seq(Rows)
         /\ \A n \in 0 .. Len(files) - 1 :
              /\ files[n + 1].lines \in Seq(Rows)
              /\ LinesOf(files, n + 1) = LinesOf(files, n) \o files[n + 1].lines
<1>. DEFINE m == Len(files)
            Pre(n) == [i \in 1 .. n |-> files[i].lines]
<1>1. m \in Nat /\ DOMAIN files = 1 .. m /\ \A i \in 1 .. m : files[i].lines \in Seq(Rows)
  <2>1. files \in Seq(Range(files))
    BY RowsAre
  <2>2. m \in Nat /\ DOMAIN files = 1 .. m
    BY <2>1, LenProperties
  <2>. QED BY <2>2, RowsAre
<1>2. ASSUME NEW n \in 0 .. m
      PROVE  Pre(n) \in Seq(Seq(Rows)) /\ Len(Pre(n)) = n /\ \A i \in 1 .. n : Pre(n)[i] = files[i].lines
  <2>1. n \in Nat /\ \A i \in 1 .. n : files[i].lines \in Seq(Rows)
    BY <1>1
  <2>2. Pre(n) \in [1 .. n -> Seq(Rows)]
    BY <2>1
  <2>. QED BY <2>1, <2>2, IsASeq
<1>3. LinesOf(files, 0) = <<>>
  <2>1. Pre(0) = <<>> /\ Len(Pre(0)) = 0
    <3>1. 0 \in 0 .. m
      BY <1>1
    <3>2. Pre(0) \in Seq(Seq(Rows)) /\ Len(Pre(0)) = 0
      BY <1>2, <3>1
    <3>. HIDE DEF Pre
    <3>. QED BY <3>2, EmptySeq
  <2>2. FlattenSeq(Pre(0)) = <<>>
    <3>. HIDE DEF Pre
    <3>. QED BY <2>1 DEF FlattenSeq
  <2>. QED BY <2>2 DEF LinesOf
<1>4. LinesOf(files, m) = Records(files)
  BY <1>1 DEF LinesOf, Records
<1>5. ASSUME NEW n \in 0 .. m PROVE LinesOf(files, n) \in Seq(Rows)
  <2>1. Pre(n) \in Seq(Seq(Rows))
    BY <1>2
  <2>2. FlattenSeq(Pre(n)) \in Seq(Rows)
    <3>. HIDE DEF Pre
    <3>. QED BY <2>1, FlattenTyped
  <2>. QED BY <2>2 DEF LinesOf
<1>6. ASSUME NEW n \in 0 .. m - 1
      PROVE  /\ files[n + 1].lines \in Seq(Rows)
             /\ LinesOf(files, n + 1) = LinesOf(files, n) \o files[n + 1].lines
  <2>1. n \in Nat /\ n \in 0 .. m /\ n + 1 \in 0 .. m /\ n + 1 \in 1 .. m
    BY <1>1
  <2>. DEFINE a == Pre(n)
              b == Pre(n + 1)
              x == files[n + 1].lines
  <2>2. /\ a \in Seq(Seq(Rows)) /\ Len(a) = n /\ \A i \in 1 .. n : a[i] = files[i].lines
        /\ b \in Seq(Seq(Rows)) /\ Len(b) = n + 1 /\ \A i \in 1 .. n + 1 : b[i] = files[i].lines
    BY <1>2, <2>1
  <2>3. x \in Seq(Rows)
    BY <1>1, <2>1
  <2>4. n + 1 \in 1 .. n + 1 /\ \A i \in 1 .. n + 1 : i \in 1 .. n \/ i = n + 1
    BY <2>1
  <2>. HIDE DEF a, b
  <2>5. b[n + 1] = x /\ \A i \in 1 .. n : b[i] = a[i]
    <3>1. \A i \in 1 .. n : i \in 1 .. n + 1
      BY <2>1
    <3>. QED BY <2>2, <2>4, <3>1
  <2>. HIDE DEF x
  <2>6. b = Append(a, x)
    <3>. DEFINE c == Append(a, x)
    <3>1. /\ c \in Seq(Seq(Rows)) /\ Len(c) = n + 1 /\ c[n + 1] = x
          /\ \A i \in 1 .. n : c[i] = a[i]
      BY <2>2, <2>3, AppendProperties
    <3>. HIDE DEF c
    <3>2. \A i \in 1 .. Len(b) : b[i] = c[i]
      BY <2>2, <2>4, <2>5, <3>1
    <3>3. b = c
      BY <2>2, <3>1, <3>2, SeqEqual
    <3>. QED BY <3>3 DEF c
  <2>7. FlattenSeq(b) = FlattenSeq(a) \o x
    BY <2>2, <2>3, <2>6, FlattenAppend
  <2>8. FlattenSeq(b) = LinesOf(files, n + 1) /\ FlattenSeq(a) = LinesOf(files, n)
    BY DEF a, b, LinesOf
  <2>. QED BY <2>3, <2>7, <2>8 DEF x
<1>. QED BY <1>1, <1>3, <1>4, <1>5, <1>6

\* A build that starts has nothing (build_canonical_dataset).
LEMMA NothingKept == WorkTells(EmptyBuild, <<>>)
<1>. DEFINE P == [k \in Keys |-> <<>>]
            E == RowsTold(<<>>)
<1>1. \A k \in Keys : P[k] = <<>>
  OBVIOUS
<1>2. FlattenSeq(<<>>) = <<>> /\ <<>> \in Seq(Rows) /\ <<>> \in Seq(Seq(Rows)) /\ Len(<<>>) = 0
  BY EmptySeq DEF FlattenSeq
<1>3. P \in Parts
  BY <1>2 DEF Parts
<1>4. FilesOf(P) = {}
  <2>. HIDE DEF P
  <2>1. \A f : f \notin FilesOf(P)
    BY <1>1, <1>2 DEF FilesOf
  <2>. QED BY <2>1
<1>5. \A k \in Keys : E[k] = <<>>
  <2>1. ASSUME NEW k \in Keys PROVE E[k] = <<>>
    <3>1. DOMAIN <<>> = {}
      OBVIOUS
    <3>2. [n \in DOMAIN <<>> |-> RowsIn(<<>>[n], k)] = <<>>
      BY <3>1
    <3>3. E[k] = FlattenSeq([n \in DOMAIN <<>> |-> RowsIn(<<>>[n], k)])
      BY DEF RowsTold
    <3>. QED BY <1>2, <3>2, <3>3
  <2>. QED BY <2>1
<1>6. E = [k \in Keys |-> E[k]]
  BY DEF RowsTold
<1>. HIDE DEF E, P
<1>7. E \in [Keys -> Seq(Rows)]
  BY <1>2, <1>5, <1>6
<1>8. PartsAre(EmptySink, P)
  BY <1>3, <1>4 DEF PartsAre, EmptySink
<1>9. SinkShape(EmptySink)
  BY DEF SinkShape, EmptySink
<1>10. SinkTells(EmptySink, E, Written(<<>>))
  BY <1>1, <1>2, <1>3, <1>5, <1>7, <1>8, <1>9 DEF SinkTells
<1>11. KlinesTell({}, <<>>)
  BY FS_EmptySet DEF KlinesTell, CandlesIn, Range
<1>12. EmptyBuild \in Works
  <2>1. EmptySink \in Sinks
    BY <1>10, SinkIs
  <2>. QED BY <2>1 DEF Works, EmptyBuild
<1>13. EmptyBuild.failed = FALSE /\ EmptyBuild.klines = {} /\ EmptyBuild.sink = EmptySink
  BY DEF EmptyBuild
<1>. QED BY <1>5, <1>10, <1>11, <1>12, <1>13 DEF WorkTells, E

\* A file is read: the build has its lines as well, or is given up
\* (_process_source_file).
LEMMA FileKept ==
  ASSUME NEW files \in Audits, NEW w, Working(files, w), w.next <= Len(files),
         NEW to, to = FoldLeft(Keep, w, files[w.next].lines), ~ to.failed
  PROVE  Working(files, [to EXCEPT !.next = @ + 1])
<1>. DEFINE n == w.next - 1
            v == [to EXCEPT !.next = @ + 1]
<1>1. /\ w.ready = FALSE /\ w.next \in 1 .. Len(files) /\ WorkTells(w, LinesOf(files, n))
      /\ Len(files) \in Nat /\ n \in 0 .. Len(files) - 1 /\ n + 1 = w.next /\ n \in 0 .. Len(files)
  BY SeenGrows DEF Working
<1>2. /\ LinesOf(files, n) \in Seq(Rows) /\ files[w.next].lines \in Seq(Rows)
      /\ LinesOf(files, w.next) = LinesOf(files, n) \o files[w.next].lines
  BY <1>1, SeenGrows
<1>. HIDE DEF n
<1>3. /\ to \in Works /\ to.next = w.next /\ to.ready = w.ready /\ KeptOr(to, LinesOf(files, w.next))
  BY <1>1, <1>2, LinesKept
<1>4. WorkTells(to, LinesOf(files, w.next))
  BY <1>3 DEF KeptOr
<1>5. /\ v \in Works /\ v.next = w.next + 1 /\ v.ready = FALSE /\ v.failed = to.failed
      /\ v.klines = to.klines /\ v.sink = to.sink
  BY <1>1, <1>3 DEF Works
<1>. HIDE DEF v
<1>6. WorkTells(v, LinesOf(files, w.next))
  BY <1>4, <1>5 DEF WorkTells
<1>7. v.next \in 1 .. Len(files) + 1 /\ v.next - 1 = w.next
  BY <1>1, <1>5
<1>8. Working(files, v)
  BY <1>5, <1>6, <1>7 DEF Working
<1>. QED BY <1>8 DEF v

\* With the candles the parts are whole (_write_canonical_klines).
LEMMA CandlesWritten ==
  ASSUME NEW files \in Audits, NEW w, Working(files, w), w.next > Len(files)
  PROVE  Whole(FoldLeft(AddRow, w.sink, CandleRows(w.klines)).files, Records(files))
<1>. DEFINE s == Records(files)
            K == w.klines
            rows == CandleRows(K)
            to == FoldLeft(AddRow, w.sink, rows)
<1>1. Len(files) \in Nat /\ w.next - 1 = Len(files) /\ LinesOf(files, w.next - 1) = s /\ s \in Seq(Rows)
  <2>1. Len(files) \in Nat /\ w.next - 1 = Len(files) /\ Len(files) \in 0 .. Len(files)
    BY SeenGrows DEF Working
  <2>. QED BY <2>1, SeenGrows
<1>2. WorkTells(w, s)
  BY <1>1 DEF Working
<1>. HIDE DEF s
<1>3. /\ KlinesTell(K, s) /\ SinkTells(w.sink, RowsTold(s), Written(s))
      /\ \A k \in Keys : k[1] = "kline" => RowsTold(s)[k] = <<>>
  BY <1>2 DEF WorkTells
<1>4. rows \in Seq(Rows) /\ Range(rows) = K
  BY <1>1, <1>3, CandleRowsAre
<1>5. ASSUME NEW i \in 1 .. Len(rows) PROVE IsCandle(rows[i]) /\ Partition(rows[i]) \in Written(s)
  <2>1. rows[i] \in Range(rows)
    <3>. HIDE DEF rows
    <3>. QED BY <1>4, LenProperties DEF Range
  <2>2. rows[i] \in CandlesIn(s)
    BY <1>3, <1>4, <2>1 DEF KlinesTell
  <2>. HIDE DEF rows
  <2>. QED BY <2>2 DEF CandlesIn, Written
<1>. HIDE DEF rows, K
<1>6. PICK F : /\ SinkTells(to, F, Written(s))
               /\ \A k \in Keys : k[1] # "kline" => F[k] = RowsTold(s)[k]
               /\ \A k \in Keys : k[1] = "kline" => Range(F[k]) = {r \in Range(rows) : Partition(r) = k}
  BY <1>3, <1>4, <1>5, CandlesTaken
<1>. HIDE DEF to
<1>7. PICK P \in Parts : /\ PartsAre(to, P)
                        /\ \A k \in Keys : FlattenSeq(P[k]) = F[k] /\ (Len(P[k]) > 0 => k \in Written(s))
  BY <1>6 DEF SinkTells
<1>8. to.files = FilesOf(P)
  BY <1>7 DEF PartsAre
<1>9. Whole(to.files, s)
  BY <1>3, <1>4, <1>6, <1>7, <1>8 DEF Whole, K
<1>. QED BY <1>9 DEF to, rows, K, s


\* A build starts on nothing, reads the files it finds as they were audited or is
\* given up, writes the candles when it has read all, and only then publishes
\* (build_canonical_dataset).
LEMMA CanonicalKept ==
  CanonicalInv /\ [CanonicalNext]_canonicalVars => CanonicalInv'
<1>. SUFFICES ASSUME CanonicalInv, [CanonicalNext]_canonicalVars PROVE CanonicalInv'
  OBVIOUS
<1>. DEFINE FitsAudit(w) == w # None => Working(audited, w) \/ Finished(audited, w)
<1>1. /\ audited \in Audits /\ intact \in [DOMAIN audited -> BOOLEAN]
      /\ build = [b \in Builders |-> build[b]]
      /\ \A b \in Builders : FitsAudit(build[b])
      /\ dataset # None => Whole(dataset, Records(audited))
  BY DEF CanonicalInv
<1>2. SUFFICES /\ audited' = audited /\ intact' \in [DOMAIN audited -> BOOLEAN]
               /\ build' = [b \in Builders |-> build'[b]]
               /\ \A b \in Builders : FitsAudit(build'[b])
               /\ dataset' # None => Whole(dataset', Records(audited))
  BY <1>1 DEF CanonicalInv
<1>. HIDE DEF FitsAudit
<1>3. ASSUME NEW b \in Builders, NEW w, SetBuild(b, w), FitsAudit(w)
      PROVE  /\ build' = [c \in Builders |-> build'[c]]
             /\ \A c \in Builders : FitsAudit(build'[c])
  <2>1. build' = [build EXCEPT ![b] = w]
    BY <1>3 DEF SetBuild
  <2>2. build'[b] = w /\ \A c \in Builders : c # b => build'[c] = build[c]
    BY <1>1, <2>1
  <2>. QED BY <1>1, <1>3, <2>1, <2>2
<1>4. FitsAudit(None)
  BY DEF FitsAudit
<1>5. CASE UNCHANGED canonicalVars
  BY <1>1, <1>5 DEF canonicalVars
<1>6. ASSUME NEW b \in Builders, StartBuild(b)
      PROVE  /\ audited' = audited /\ intact' = intact /\ dataset' = dataset
             /\ build' = [c \in Builders |-> build'[c]] /\ \A c \in Builders : FitsAudit(build'[c])
  <2>1. FitsAudit(EmptyBuild)
    <3>1. EmptyBuild.ready = FALSE /\ EmptyBuild.next = 1
      BY DEF EmptyBuild
    <3>2. 1 \in 1 .. Len(audited) + 1 /\ 1 - 1 = 0 /\ LinesOf(audited, 0) = <<>>
      BY <1>1, SeenGrows
    <3>3. Working(audited, EmptyBuild)
      BY <3>1, <3>2, NothingKept DEF Working
    <3>. QED BY <3>3 DEF FitsAudit
  <2>2. SetBuild(b, EmptyBuild) /\ audited' = audited /\ intact' = intact /\ dataset' = dataset
    BY <1>6 DEF StartBuild
  <2>. QED BY <1>3, <2>1, <2>2
<1>7. ASSUME NEW b \in Builders, ReadFile(b)
      PROVE  /\ audited' = audited /\ intact' = intact /\ dataset' = dataset
             /\ build' = [c \in Builders |-> build'[c]] /\ \A c \in Builders : FitsAudit(build'[c])
  <2>. DEFINE w == build[b]
              i == w.next
              to == FoldLeft(Keep, w, Content(i))
              new == IF to.failed \/ ~ Digested(i) THEN None ELSE [to EXCEPT !.next = @ + 1]
  <2>1. /\ w # None /\ ~ w.ready /\ i <= Len(audited)
        /\ SetBuild(b, new) /\ audited' = audited /\ intact' = intact /\ dataset' = dataset
    BY <1>7 DEF ReadFile
  <2>2. CASE to.failed \/ ~ Digested(i)
    BY <1>3, <1>4, <2>1, <2>2
  <2>3. CASE ~ to.failed /\ Digested(i)
    <3>1. Working(audited, w)
      BY <1>1, <2>1 DEF FitsAudit, Finished
    <3>2. Content(i) = audited[i].lines
      BY <2>3 DEF Digested, Content
    <3>3. to = FoldLeft(Keep, w, audited[i].lines)
      BY <3>2
    <3>4. Working(audited, [to EXCEPT !.next = @ + 1])
      <4>. HIDE DEF to
      <4>. QED BY <1>1, <2>1, <2>3, <3>1, <3>3, FileKept
    <3>. QED BY <1>3, <2>1, <2>3, <3>4 DEF FitsAudit
  <2>. QED BY <2>2, <2>3
<1>8. ASSUME NEW b \in Builders, WriteCandles(b)
      PROVE  /\ audited' = audited /\ intact' = intact /\ dataset' = dataset
             /\ build' = [c \in Builders |-> build'[c]] /\ \A c \in Builders : FitsAudit(build'[c])
  <2>. DEFINE w == build[b]
              to == FoldLeft(AddRow, w.sink, CandleRows(w.klines))
              new == [w EXCEPT !.ready = TRUE, !.sink = to]
  <2>1. /\ w # None /\ ~ w.ready /\ w.next > Len(audited)
        /\ SetBuild(b, [w EXCEPT !.ready = TRUE, !.sink = FoldLeft(AddRow, @, CandleRows(w.klines))])
        /\ audited' = audited /\ intact' = intact /\ dataset' = dataset
    BY <1>8 DEF WriteCandles
  <2>2. Working(audited, w)
    BY <1>1, <2>1 DEF FitsAudit, Finished
  <2>3. Whole(to.files, Records(audited))
    BY <1>1, <2>1, <2>2, CandlesWritten
  <2>4. w \in Works
    BY <2>2 DEF Working, WorkTells
  <2>. HIDE DEF to
  <2>5. new.ready = TRUE /\ new.sink = to
    BY <2>4 DEF Works
  <2>6. SetBuild(b, new)
    BY <2>1 DEF to
  <2>. HIDE DEF new
  <2>7. FitsAudit(new)
    BY <2>3, <2>5 DEF FitsAudit, Finished
  <2>. QED BY <1>3, <2>1, <2>6, <2>7
<1>9. ASSUME NEW b \in Builders, PublishDataset(b)
      PROVE  /\ audited' = audited /\ intact' = intact
             /\ dataset' # None => Whole(dataset', Records(audited))
             /\ build' = [c \in Builders |-> build'[c]] /\ \A c \in Builders : FitsAudit(build'[c])
  <2>1. /\ build[b] # None /\ build[b].ready /\ dataset' \in {build[b].sink.files, dataset}
        /\ SetBuild(b, None) /\ audited' = audited /\ intact' = intact
    BY <1>9 DEF PublishDataset
  <2>2. Finished(audited, build[b])
    BY <1>1, <2>1 DEF FitsAudit, Working
  <2>3. Whole(build[b].sink.files, Records(audited))
    BY <2>2 DEF Finished
  <2>. QED BY <1>1, <1>3, <1>4, <2>1, <2>3
<1>10. ASSUME NEW b \in Builders, KillBuild(b)
      PROVE  /\ audited' = audited /\ intact' = intact /\ dataset' = dataset
             /\ build' = [c \in Builders |-> build'[c]] /\ \A c \in Builders : FitsAudit(build'[c])
  <2>1. SetBuild(b, None) /\ audited' = audited /\ intact' = intact /\ dataset' = dataset
    BY <1>10 DEF KillBuild
  <2>. QED BY <1>3, <1>4, <2>1
<1>11. ASSUME NEW i \in DOMAIN audited, ChangeRaw(i)
       PROVE  /\ audited' = audited /\ build' = build /\ dataset' = dataset
              /\ intact' \in [DOMAIN audited -> BOOLEAN]
  BY <1>1, <1>11 DEF ChangeRaw
<1>. QED BY <1>1, <1>5, <1>6, <1>7, <1>8, <1>9, <1>10, <1>11 DEF CanonicalNext

\* Reading the parts of a partition in their order gives the rows written.
LEMMA PartsRead ==
  ASSUME NEW P \in Parts, dataset = FilesOf(P), NEW key \in Keys
  PROVE  InParts(key) = FlattenSeq(P[key])
<1>. DEFINE n == Cardinality({f \in dataset : f.key = key})
            file(i) == CHOOSE f \in dataset : f.key = key /\ f.part = i - 1
            rows == [i \in 1 .. n |-> file(i).rows]
<1>1. n = Len(P[key]) /\ P[key] \in Seq(Seq(Rows)) /\ n \in Nat
  BY PartsCounted, FileIn
<1>2. ASSUME NEW i \in 1 .. n PROVE file(i).rows = P[key][i]
  <2>1. /\ PartFile(key, i - 1, P[key][i]) \in dataset
        /\ PartFile(key, i - 1, P[key][i]).key = key /\ PartFile(key, i - 1, P[key][i]).part = i - 1
    <3>1. PartFile(key, i - 1, P[key][i]) \in dataset
      BY <1>1, FileIn
    <3>. QED BY <3>1 DEF PartFile
  <2>2. file(i) \in dataset /\ file(i).key = key /\ file(i).part = i - 1
    BY <2>1
  <2>. DEFINE f == file(i)
  <2>. HIDE DEF f
  <2>3. f \in FilesOf(P) /\ f.key = key /\ f.part = i - 1
    BY <2>2 DEF f
  <2>4. f = PartFile(f.key, f.part, P[f.key][f.part + 1])
    BY <2>3, FileIn
  <2>5. f.part + 1 = i
    BY <1>1, <2>3
  <2>6. f.rows = P[key][i]
    BY <2>3, <2>4, <2>5 DEF PartFile
  <2>. QED BY <2>6 DEF f
<1>. HIDE DEF n, file
<1>3. P[key] = [i \in 1 .. n |-> P[key][i]]
  <2>. DEFINE p == P[key]
  <2>1. p \in Seq(Seq(Rows)) /\ Len(p) = n
    BY <1>1
  <2>. HIDE DEF p
  <2>2. p \in [1 .. n -> Seq(Rows)]
    BY <2>1, LenProperties
  <2>3. p = [i \in 1 .. n |-> p[i]]
    BY <2>2
  <2>. QED BY <2>3 DEF p
<1>4. rows = P[key]
  BY <1>2, <1>3
<1>5. InParts(key) = FlattenSeq(rows)
  BY DEF InParts, rows, n, file
<1>. QED BY <1>4, <1>5

\* Parts that are whole tell what the audit lists.
LEMMA WholeIsFaithful ==
  ASSUME audited \in Audits, dataset # None => Whole(dataset, Records(audited))
  PROVE  DatasetFaithful
<1>. DEFINE s == AuditedRecords
            written == {Partition(r) : r \in Range(s)}
            lines == {g \in dataset : g.key[1] = "kline"}
            kept == UNION {Range(InParts(f.key)) : f \in lines}
<1>1. SUFFICES ASSUME dataset # None
               PROVE  /\ {f.key : f \in dataset} \subseteq written
                      /\ \A key \in {k \in written : k[1] # "kline"} : InParts(key) = InAudit(key)
                      /\ \A c \in Candles :
                            /\ \E k \in kept : k.start = c.start
                            /\ \A k \in kept : k.start = c.start => Over(k, c)
  BY DEF DatasetFaithful, Over
<1>2. s = Records(audited) /\ s \in Seq(Rows)
  <2>1. Len(audited) \in 0 .. Len(audited)
    BY SeenGrows
  <2>. QED BY <2>1, SeenGrows DEF AuditedRecords
<1>3. PICK P \in Parts :
         /\ dataset = FilesOf(P)
         /\ \A k \in Keys : Len(P[k]) > 0 => k \in Written(s)
         /\ \A k \in Keys : k[1] # "kline" => FlattenSeq(P[k]) = RowsTold(s)[k]
         /\ \E K : /\ KlinesTell(K, s)
                   /\ \A k \in Keys : k[1] = "kline" =>
                        Range(FlattenSeq(P[k])) = {r \in K : Partition(r) = k}
  BY <1>1, <1>2 DEF Whole
<1>4. PICK K : /\ KlinesTell(K, s)
               /\ \A k \in Keys : k[1] = "kline" =>
                    Range(FlattenSeq(P[k])) = {r \in K : Partition(r) = k}
  BY <1>3
<1>5. written = Written(s) /\ written \subseteq Keys /\ Range(s) \subseteq Rows /\ Candles = CandlesIn(s)
  <2>1. Range(s) \subseteq Rows
    <3>. HIDE DEF s
    <3>. QED BY <1>2, LenProperties, ElementOfSeq DEF Range
  <2>. QED BY <2>1, RowsAre DEF Written, Candles, CandlesIn
<1>6. \A k \in Keys : InParts(k) = FlattenSeq(P[k])
  BY <1>3, PartsRead
<1>7. ASSUME NEW f \in dataset PROVE f.key \in Keys /\ f.key \in written
  <2>1. f.key \in Keys /\ f.part \in Nat /\ f.part + 1 \in 1 .. Len(P[f.key]) /\ Len(P[f.key]) \in Nat
    BY <1>3, FileIn
  <2>2. Len(P[f.key]) > 0
    BY <2>1
  <2>. QED BY <1>3, <1>5, <2>1, <2>2
<1>8. ASSUME NEW key \in written, key[1] # "kline" PROVE InParts(key) = InAudit(key)
  <2>1. key \in Keys
    BY <1>5
  <2>2. RowsTold(s)[key] = InAudit(key)
    BY <2>1 DEF RowsTold, InAudit
  <2>. QED BY <1>3, <1>6, <1>8, <2>1, <2>2
<1>9. ASSUME NEW k \in kept PROVE k \in K
  <2>1. PICK f \in lines : k \in Range(InParts(f.key))
    OBVIOUS
  <2>2. f.key \in Keys /\ f.key[1] = "kline"
    BY <1>7, <2>1
  <2>. QED BY <1>4, <1>6, <2>1, <2>2
<1>10. ASSUME NEW k \in K PROVE k \in kept
  <2>. DEFINE key == Partition(k)
  <2>1. k \in Rows /\ key \in Keys /\ key[1] = "kline"
    <3>1. k \in Range(s) /\ IsCandle(k)
      BY <1>4, <1>10 DEF KlinesTell, CandlesIn
    <3>. QED BY <1>5, <3>1, RowsAre DEF IsCandle, Partition
  <2>. HIDE DEF key
  <2>2. k \in Range(FlattenSeq(P[key]))
    BY <1>4, <2>1 DEF key
  <2>3. P[key] \in Seq(Seq(Rows)) /\ Len(P[key]) \in Nat
    BY <2>1, FileIn
  <2>4. Len(P[key]) # 0
    <3>1. CASE Len(P[key]) = 0
      <4>1. FlattenSeq(P[key]) = <<>>
        BY <2>3, <3>1, EmptySeq DEF FlattenSeq
      <4>2. Range(<<>>) = {}
        BY DEF Range
      <4>. QED BY <2>2, <4>1, <4>2
    <3>. QED BY <3>1
  <2>5. 1 \in 1 .. Len(P[key])
    BY <2>3, <2>4
  <2>. DEFINE f == PartFile(key, 1 - 1, P[key][1])
  <2>6. f \in dataset /\ f.key = key
    BY <1>3, <2>1, <2>5, FileIn DEF PartFile
  <2>. HIDE DEF f
  <2>7. f \in lines /\ k \in Range(InParts(f.key))
    BY <1>6, <2>1, <2>2, <2>6
  <2>. QED BY <2>7
<1>11. kept = K
  <2>. HIDE DEF kept
  <2>. QED BY <1>9, <1>10
<1>12. \A c \in Candles : /\ \E k \in K : k.start = c.start
                          /\ \A k \in K : k.start = c.start => Over(k, c)
  BY <1>4, <1>5 DEF KlinesTell
<1>. HIDE DEF kept, written, s
<1>. QED BY <1>7, <1>8, <1>11, <1>12

\* The first state has no builds and no dataset (build_canonical_dataset).
LEMMA CanonicalStarts == CanonicalInit => CanonicalInv
BY DEF CanonicalInit, CanonicalInv

\* A published dataset holds every audited row once, in the audited order, and of
\* each candle the revision received last, for all audits and any number of
\* builds, with kills and raw files that change (build_canonical_dataset).
THEOREM DatasetIsFaithful == CanonicalSpec => []DatasetFaithful
<1>1. CanonicalInit => CanonicalInv
  BY CanonicalStarts
<1>2. CanonicalInv /\ [CanonicalNext]_canonicalVars => CanonicalInv'
  BY CanonicalKept
<1>3. CanonicalInv => DatasetFaithful
  BY WholeIsFaithful DEF CanonicalInv
<1>. QED BY <1>1, <1>2, <1>3, PTL DEF CanonicalSpec

-----------------------------------------------------------------------------
(* The audit.  The findings are followed record by record: as long as nothing is
   wrong but gaps of candles, they tell of the records so far what acceptance means. *)

Codes ==
  {"invalid_json", "path_stream_mismatch", "partition_date_mismatch", "orderbook_sequence_regression",
   "duplicate_trade_id", "kline_start_regression", "ambiguous_kline_revision", "empty_file",
   "causal_order_regression", "kline_gap", "recovered_segments_present"}

RowKinds == {r.kind : r \in Rows}
TradeIds == UNION {Range(r.ids) : r \in {x \in Rows : x.kind = "trades"}}
CandlesOfAll == {r \in Rows : IsCandle(r)}

AllFindings ==
  [errors : SUBSET Codes, warnings : SUBSET Codes, received : UNION {[K -> Int] : K \in SUBSET RowKinds},
   trades : SUBSET TradeIds, books : SUBSET Rows, klines : SUBSET Rows,
   position : CandlesOfAll \cup {None}, missing : Int]

\* Nothing is wrong but gaps of candles.
Clean(acc) == acc.errors = {} /\ Tolerated(acc.warnings)

\* What was observed is the same.
SameBut(v, acc) ==
  /\ v.received = acc.received /\ v.trades = acc.trades /\ v.books = acc.books
  /\ v.klines = acc.klines /\ v.position = acc.position /\ v.missing = acc.missing

\* Findings only grow.
LEMMA MarkedIs ==
  ASSUME NEW acc \in AllFindings, NEW code \in Codes, NEW wrong \in BOOLEAN
  PROVE  /\ Error(acc, code) \in AllFindings /\ SameBut(Error(acc, code), acc) /\ ~ Clean(Error(acc, code))
         /\ Warning(acc, code) \in AllFindings /\ SameBut(Warning(acc, code), acc)
         /\ Clean(Warning(acc, code)) => Clean(acc) /\ code = "kline_gap"
         /\ ErrorIf(acc, wrong, code) \in AllFindings /\ SameBut(ErrorIf(acc, wrong, code), acc)
         /\ Clean(ErrorIf(acc, wrong, code)) => Clean(acc) /\ ~wrong
<1>1. /\ Error(acc, code) \in AllFindings /\ SameBut(Error(acc, code), acc)
      /\ Error(acc, code).errors = acc.errors \cup {code}
  BY DEF AllFindings, Error, SameBut
<1>2. /\ Warning(acc, code) \in AllFindings /\ SameBut(Warning(acc, code), acc)
      /\ Warning(acc, code).errors = acc.errors /\ Warning(acc, code).warnings = acc.warnings \cup {code}
  BY DEF AllFindings, Warning, SameBut
<1>3. ~ Clean(Error(acc, code))
  BY <1>1 DEF Clean
<1>4. Clean(Warning(acc, code)) => Clean(acc) /\ code = "kline_gap"
  BY <1>2 DEF Clean, Tolerated, AllowedWarnings
<1>5. SameBut(acc, acc)
  BY DEF SameBut
<1>. QED BY <1>1, <1>2, <1>3, <1>4, <1>5 DEF ErrorIf

\* What was received, with the record.
WithReceived(received, r) ==
  [k \in DOMAIN received \cup {r.kind} |-> IF k = r.kind THEN r.received ELSE received[k]]

\* A record is timed and compared with its path (process_record).
Timed(acc, r, file) == PathMatches(ObserveTime(acc, r), r, file)

InPlace(r, file) == r.kind = file.kind /\ r.date = file.date

TimedTells(v, acc, r, file) ==
  /\ v \in AllFindings
  /\ v.trades = acc.trades /\ v.books = acc.books /\ v.klines = acc.klines
  /\ v.position = acc.position /\ v.missing = acc.missing
  /\ Clean(v) => /\ Clean(acc) /\ Causal(acc, r) /\ InPlace(r, file)
                 /\ v.received = WithReceived(acc.received, r)

\* What a record's time and path say.
LEMMA TimedIs ==
  ASSUME NEW acc \in AllFindings, NEW r \in Rows, r.kind # "broken", NEW file
  PROVE  TimedTells(Timed(acc, r, file), acc, r, file)
<1>. DEFINE v == Timed(acc, r, file)
            o == ObserveTime(acc, r)
            p == ErrorIf(o, r.kind # file.kind, "path_stream_mismatch")
<1>1. /\ "path_stream_mismatch" \in Codes /\ "partition_date_mismatch" \in Codes
      /\ "causal_order_regression" \in Codes
  BY DEF Codes
<1>2. /\ o \in AllFindings
      /\ o.trades = acc.trades /\ o.books = acc.books /\ o.klines = acc.klines
      /\ o.position = acc.position /\ o.missing = acc.missing
      /\ Clean(o) => Clean(acc) /\ Causal(acc, r) /\ o.received = WithReceived(acc.received, r)
  <2>1. CASE Causal(acc, r)
    <3>. DEFINE m == WithReceived(acc.received, r)
    <3>1. m \in UNION {[K -> Int] : K \in SUBSET RowKinds}
      <4>1. PICK K \in SUBSET RowKinds : acc.received \in [K -> Int]
        BY DEF AllFindings
      <4>2. r.kind \in RowKinds /\ r.received \in Int
        BY RowsAre DEF RowKinds
      <4>3. K \cup {r.kind} \in SUBSET RowKinds
        BY <4>2
      <4>4. m \in [K \cup {r.kind} -> Int]
        BY <4>1, <4>2 DEF WithReceived
      <4>. QED BY <4>3, <4>4
    <3>2. o = [acc EXCEPT !.received = m]
      BY <2>1 DEF ObserveTime, WithReceived
    <3>. HIDE DEF m, o
    <3>3. /\ o \in AllFindings /\ o.errors = acc.errors /\ o.warnings = acc.warnings
          /\ o.trades = acc.trades /\ o.books = acc.books /\ o.klines = acc.klines
          /\ o.position = acc.position /\ o.missing = acc.missing /\ o.received = m
      BY <3>1, <3>2 DEF AllFindings
    <3>. QED BY <2>1, <3>3 DEF Clean, m
  <2>2. CASE ~ Causal(acc, r)
    <3>1. o = Warning(acc, "causal_order_regression")
      BY <2>2 DEF ObserveTime
    <3>. HIDE DEF o
    <3>2. o \in AllFindings /\ SameBut(o, acc) /\ ~ Clean(o)
      <4>. DEFINE code == "causal_order_regression"
      <4>1. code \in Codes /\ code # "kline_gap" /\ TRUE \in BOOLEAN /\ o = Warning(acc, code)
        BY <1>1, <3>1
      <4>. HIDE DEF code
      <4>. QED BY <4>1, MarkedIs
    <3>. QED BY <3>2 DEF SameBut
  <2>. QED BY <2>1, <2>2
<1>3. p \in AllFindings /\ SameBut(p, o) /\ (Clean(p) => Clean(o) /\ r.kind = file.kind)
  <2>. HIDE DEF o
  <2>. QED BY <1>1, <1>2, MarkedIs
<1>4. v = ErrorIf(p, r.date # file.date, "partition_date_mismatch")
  BY DEF Timed, PathMatches
<1>. HIDE DEF v
<1>5. v \in AllFindings /\ SameBut(v, p) /\ (Clean(v) => Clean(p) /\ r.date = file.date)
  <2>. HIDE DEF p
  <2>. QED BY <1>1, <1>3, <1>4, MarkedIs
<1>. HIDE DEF o, p
<1>6. TimedTells(v, acc, r, file)
  BY <1>2, <1>3, <1>5 DEF SameBut, TimedTells, InPlace
<1>. QED BY <1>6 DEF v

\* A book is behind all of its session.
LEMMA BookLineIs ==
  ASSUME NEW acc \in AllFindings, NEW r \in Rows, NEW causal \in BOOLEAN
  PROVE  LET v == BookLine(acc, r, causal)
         IN  /\ v \in AllFindings
             /\ v.received = acc.received /\ v.trades = acc.trades /\ v.klines = acc.klines
             /\ v.position = acc.position /\ v.missing = acc.missing
             /\ Clean(v) => Clean(acc)
             /\ Clean(v) /\ causal =>
                  /\ v.books = {b \in acc.books : b.session # r.session} \cup {r}
                  /\ \A b \in acc.books : b.session = r.session => r.sequence > b.sequence
<1>. DEFINE previous == {b \in acc.books : b.session = r.session}
            more == (acc.books \ previous) \cup {r}
            u == [acc EXCEPT !.books = more]
            wrong == \E b \in previous : ~ Advances(b, r)
            v == ErrorIf(u, wrong, "orderbook_sequence_regression")
<1>1. more \in SUBSET Rows /\ more = {b \in acc.books : b.session # r.session} \cup {r}
  BY DEF AllFindings
<1>2. /\ u \in AllFindings /\ u.errors = acc.errors /\ u.warnings = acc.warnings
      /\ u.received = acc.received /\ u.trades = acc.trades /\ u.klines = acc.klines
      /\ u.position = acc.position /\ u.missing = acc.missing /\ u.books = more
  <2>. HIDE DEF more
  <2>. QED BY <1>1 DEF AllFindings
<1>3. v \in AllFindings /\ SameBut(v, u) /\ (Clean(v) => Clean(u) /\ ~wrong)
  <2>1. "orderbook_sequence_regression" \in Codes
    BY DEF Codes
  <2>. HIDE DEF u, wrong
  <2>2. wrong \in BOOLEAN
    BY DEF wrong
  <2>. QED BY <1>2, <2>1, <2>2, MarkedIs
<1>4. ~wrong => \A b \in acc.books : b.session = r.session => r.sequence > b.sequence
  BY DEF Advances
<1>5. BookLine(acc, r, causal) = IF ~causal THEN acc ELSE v
  BY DEF BookLine
<1>. HIDE DEF u, wrong, more, v
<1>. QED BY <1>1, <1>2, <1>3, <1>4, <1>5 DEF SameBut, Clean

\* Trades that are not there yet, and not twice in the message.
LEMMA TradesLineIs ==
  ASSUME NEW acc \in AllFindings, NEW r \in Rows, r.kind = "trades"
  PROVE  LET v == TradesLine(acc, r)
         IN  /\ v \in AllFindings
             /\ v.received = acc.received /\ v.books = acc.books /\ v.klines = acc.klines
             /\ v.position = acc.position /\ v.missing = acc.missing
             /\ Clean(v) => /\ Clean(acc) /\ v.trades = acc.trades \cup Range(r.ids)
                            /\ Range(r.ids) \cap acc.trades = {}
                            /\ ~ (Cardinality(Range(r.ids)) < Len(r.ids))
<1>. DEFINE ids == Range(r.ids)
            more == acc.trades \cup ids
            u == [acc EXCEPT !.trades = more]
            again == ids \cap acc.trades # {} \/ Cardinality(ids) < Len(r.ids)
            v == ErrorIf(u, again, "duplicate_trade_id")
<1>1. ids \in SUBSET TradeIds
  BY DEF TradeIds
<1>2. /\ u \in AllFindings /\ u.errors = acc.errors /\ u.warnings = acc.warnings
      /\ u.received = acc.received /\ u.books = acc.books /\ u.klines = acc.klines
      /\ u.position = acc.position /\ u.missing = acc.missing /\ u.trades = more
  <2>1. more \in SUBSET TradeIds
    BY <1>1 DEF AllFindings
  <2>. HIDE DEF more
  <2>. QED BY <2>1 DEF AllFindings
<1>3. v \in AllFindings /\ SameBut(v, u) /\ (Clean(v) => Clean(u) /\ ~again)
  <2>1. "duplicate_trade_id" \in Codes
    BY DEF Codes
  <2>. HIDE DEF u, again
  <2>2. again \in BOOLEAN
    BY DEF again
  <2>. QED BY <1>2, <2>1, <2>2, MarkedIs
<1>4. TradesLine(acc, r) = v
  BY DEF TradesLine, Range
<1>. HIDE DEF u, v
<1>. QED BY <1>2, <1>3, <1>4 DEF SameBut, Clean

\* How a candle moves the position: never backwards, and intervals left out are missing.
PositionMoves(v, acc, r) ==
  \/ acc.position = None /\ v.position = r /\ v.missing = acc.missing
  \/ /\ acc.position # None
     /\ r.received >= acc.position.received =>
          /\ r.start >= acc.position.start /\ v.position = r
          /\ v.missing = IF Skipped(acc, r) > 0 THEN acc.missing + Skipped(acc, r) ELSE acc.missing

\* The position of the candles.
LEMMA PositionIs ==
  ASSUME NEW acc \in AllFindings, NEW r \in Rows, IsCandle(r), NEW causal \in BOOLEAN
  PROVE  LET v == Position(acc, r, causal)
         IN  /\ v \in AllFindings
             /\ v.received = acc.received /\ v.trades = acc.trades /\ v.books = acc.books /\ v.klines = acc.klines
             /\ Clean(v) => Clean(acc)
             /\ Clean(v) /\ causal => PositionMoves(v, acc, r)
<1>. DEFINE v == Position(acc, r, causal)
            moved == [acc EXCEPT !.position = r]
            skipped == Skipped(acc, r)
            gap == [moved EXCEPT !.missing = @ + skipped]
            warned == Warning(gap, "kline_gap")
            back == Error(acc, "kline_start_regression")
<1>0. TRUE \in BOOLEAN /\ "kline_gap" \in Codes /\ "kline_start_regression" \in Codes
  BY DEF Codes
<1>1. r \in CandlesOfAll /\ r.start \in Int /\ r.received \in Int /\ r # None
  BY RowsAre DEF CandlesOfAll
<1>2. /\ moved \in AllFindings /\ moved.errors = acc.errors /\ moved.warnings = acc.warnings
      /\ moved.received = acc.received /\ moved.trades = acc.trades /\ moved.books = acc.books
      /\ moved.klines = acc.klines /\ moved.position = r /\ moved.missing = acc.missing
  BY <1>1 DEF AllFindings
<1>3. CASE ~causal
  <2>1. v = acc
    BY <1>3 DEF Position
  <2>. QED BY <1>3, <2>1
<1>4. CASE causal /\ acc.position = None
  <2>1. v = moved
    BY <1>4 DEF Position
  <2>. HIDE DEF v, moved
  <2>. QED BY <1>2, <1>4, <2>1 DEF Clean, PositionMoves, v
<1>5. CASE causal /\ acc.position # None
  <2>1. /\ acc.position \in CandlesOfAll /\ acc.position.start \in Int /\ acc.position.received \in Int
        /\ acc.missing \in Int
    <3>1. acc.position \in CandlesOfAll /\ acc.missing \in Int
      BY <1>5 DEF AllFindings
    <3>. QED BY <3>1, RowsAre DEF CandlesOfAll
  <2>2. CASE r.received < acc.position.received
    <3>1. v = acc
      BY <1>5, <2>2 DEF Position
    <3>2. ~ (r.received >= acc.position.received)
      BY <1>1, <2>1, <2>2
    <3>. HIDE DEF v
    <3>. QED BY <1>5, <3>1, <3>2 DEF PositionMoves, v
  <2>3. CASE ~ (r.received < acc.position.received) /\ r.start < acc.position.start
    <3>1. v = back
      BY <1>5, <2>3 DEF Position
    <3>2. back \in AllFindings /\ SameBut(back, acc) /\ ~ Clean(back)
      <4>. DEFINE code == "kline_start_regression"
      <4>1. code \in Codes
        BY <1>0
      <4>. HIDE DEF code
      <4>2. Error(acc, code) \in AllFindings /\ SameBut(Error(acc, code), acc) /\ ~ Clean(Error(acc, code))
        BY <1>0, <4>1, MarkedIs
      <4>. QED BY <4>2 DEF code
    <3>. HIDE DEF v, back
    <3>. QED BY <3>1, <3>2 DEF SameBut, v
  <2>4. CASE ~ (r.received < acc.position.received) /\ ~ (r.start < acc.position.start)
    <3>0. skipped \in Int /\ r.start >= acc.position.start
      BY <1>1, <2>1, <2>4 DEF Skipped
    <3>1. CASE skipped > 0
      <4>1. v = warned
        BY <1>5, <2>4, <3>1 DEF Position
      <4>2. /\ gap \in AllFindings /\ gap.errors = acc.errors /\ gap.warnings = acc.warnings
            /\ gap.received = acc.received /\ gap.trades = acc.trades /\ gap.books = acc.books
            /\ gap.klines = acc.klines /\ gap.position = r /\ gap.missing = acc.missing + skipped
        <5>1. acc.missing + skipped \in Int
          BY <2>1, <3>0
        <5>. HIDE DEF moved, skipped
        <5>. QED BY <1>2, <5>1 DEF AllFindings
      <4>3. warned \in AllFindings /\ SameBut(warned, gap) /\ (Clean(warned) => Clean(gap))
        <5>. DEFINE code == "kline_gap"
        <5>1. code \in Codes
          BY <1>0
        <5>. HIDE DEF code, gap
        <5>2. /\ Warning(gap, code) \in AllFindings /\ SameBut(Warning(gap, code), gap)
              /\ Clean(Warning(gap, code)) => Clean(gap)
          BY <1>0, <4>2, <5>1, MarkedIs
        <5>. QED BY <5>2 DEF code
      <4>. HIDE DEF v, warned, gap
      <4>4. Clean(v) => Clean(acc)
        BY <4>1, <4>2, <4>3 DEF Clean
      <4>. HIDE DEF skipped
      <4>5. v.position = r /\ v.missing = acc.missing + skipped /\ v \in AllFindings
        BY <4>1, <4>2, <4>3 DEF SameBut
      <4>6. PositionMoves(v, acc, r)
        BY <1>5, <3>0, <3>1, <4>5 DEF PositionMoves, skipped
      <4>. QED BY <4>1, <4>2, <4>3, <4>4, <4>5, <4>6 DEF SameBut, v
    <3>2. CASE ~ (skipped > 0)
      <4>1. v = moved
        BY <1>5, <2>4, <3>2 DEF Position
      <4>. HIDE DEF v, moved
      <4>2. PositionMoves(v, acc, r)
        BY <1>2, <1>5, <3>0, <3>2, <4>1 DEF PositionMoves
      <4>. QED BY <1>2, <4>1, <4>2 DEF Clean, v
    <3>. QED BY <3>1, <3>2
  <2>. QED BY <2>2, <2>3, <2>4
<1>. QED BY <1>3, <1>4, <1>5

\* A candle that contradicts no revision received with it.
LEMMA CandleLineIs ==
  ASSUME NEW acc \in AllFindings, NEW r \in Rows, IsCandle(r), NEW causal \in BOOLEAN
  PROVE  LET v == CandleLine(acc, r, causal)
         IN  /\ v \in AllFindings
             /\ v.received = acc.received /\ v.trades = acc.trades /\ v.books = acc.books
             /\ Clean(v) => Clean(acc)
             /\ Clean(v) /\ causal =>
                  /\ ~ Ambiguous(acc.klines, r) /\ v.klines = ObserveCandle(acc.klines, r) /\ PositionMoves(v, acc, r)
<1>. DEFINE wrong == Ambiguous(acc.klines, r)
            e == ErrorIf(acc, wrong, "ambiguous_kline_revision")
            L == KeepLatest(acc.klines, r)
            u == [e EXCEPT !.klines = L]
            v == Position(u, r, causal)
<1>1. e \in AllFindings /\ SameBut(e, acc) /\ (Clean(e) => Clean(acc) /\ ~wrong)
  <2>. DEFINE code == "ambiguous_kline_revision"
  <2>1. code \in Codes /\ wrong \in BOOLEAN
    BY DEF Codes, Ambiguous
  <2>. HIDE DEF code, wrong
  <2>2. /\ ErrorIf(acc, wrong, code) \in AllFindings /\ SameBut(ErrorIf(acc, wrong, code), acc)
        /\ Clean(ErrorIf(acc, wrong, code)) => Clean(acc) /\ ~wrong
    BY <2>1, MarkedIs
  <2>. QED BY <2>2 DEF code
<1>2. L = ObserveCandle(acc.klines, r) /\ L \in SUBSET Rows
  <2>1. acc.klines \in SUBSET Rows
    BY DEF AllFindings
  <2>2. L = ObserveCandle(acc.klines, r)
    BY DEF KeepLatest, ObserveCandle, ReceivedLater
  <2>3. L \in SUBSET Rows
    BY <2>1 DEF KeepLatest
  <2>. QED BY <2>2, <2>3
<1>. HIDE DEF L, e
<1>3. /\ u \in AllFindings /\ u.errors = e.errors /\ u.warnings = e.warnings /\ u.klines = L
      /\ u.received = e.received /\ u.trades = e.trades /\ u.books = e.books
      /\ u.position = e.position /\ u.missing = e.missing
  BY <1>1, <1>2 DEF AllFindings
<1>. HIDE DEF u
<1>4. /\ v \in AllFindings
      /\ v.received = u.received /\ v.trades = u.trades /\ v.books = u.books /\ v.klines = u.klines
      /\ Clean(v) => Clean(u)
      /\ Clean(v) /\ causal => PositionMoves(v, u, r)
  BY <1>3, PositionIs
<1>5. CandleLine(acc, r, causal) = v
  <2>1. e.klines = acc.klines
    BY <1>1 DEF SameBut
  <2>2. u = [e EXCEPT !.klines = KeepLatest(@, r)]
    BY <2>1 DEF u, L
  <2>. QED BY <2>2 DEF CandleLine, e
<1>6. Clean(u) => Clean(e)
  BY <1>3 DEF Clean
<1>. HIDE DEF v, wrong
<1>7. PositionMoves(v, u, r) => PositionMoves(v, acc, r)
  BY <1>1, <1>3 DEF PositionMoves, SameBut, Skipped
<1>. QED BY <1>1, <1>2, <1>3, <1>4, <1>5, <1>6, <1>7 DEF SameBut, wrong

\* A record more behind the others.
LEMMA OneMore ==
  ASSUME NEW s \in Seq(Rows), NEW r \in Rows
  PROVE  LET t == Append(s, r)
         IN  /\ Len(s) \in Nat /\ DOMAIN s = 1 .. Len(s) /\ DOMAIN t = 1 .. Len(s) + 1
             /\ t[Len(s) + 1] = r /\ t \in Seq(Rows)
             /\ \A i \in 1 .. Len(s) : t[i] = s[i] /\ s[i] \in Range(s)
             /\ Range(t) = Range(s) \cup {r} /\ Range(s) \subseteq Rows
<1>. DEFINE t == Append(s, r)
<1>1. /\ Len(s) \in Nat /\ t \in Seq(Rows) /\ Len(t) = Len(s) + 1 /\ t[Len(s) + 1] = r
      /\ \A i \in 1 .. Len(s) : t[i] = s[i]
  BY LenProperties, AppendProperties
<1>2. Range(t) = Range(s) \cup {r} /\ Range(s) \subseteq Rows
  BY RangeGrows
<1>. HIDE DEF t
<1>3. DOMAIN s = 1 .. Len(s) /\ DOMAIN t = 1 .. Len(s) + 1
  BY <1>1, LenProperties
<1>4. \A i \in 1 .. Len(s) : s[i] \in Range(s)
  BY <1>3 DEF Range
<1>. QED BY <1>1, <1>2, <1>3, <1>4 DEF t

\* What was received last is told for each kind, and the records are in that order.
ReceivedTell(received, s) ==
  /\ \A r \in Range(s) : r.kind # "broken" /\ r.kind \in DOMAIN received /\ r.received <= received[r.kind]
  /\ InReceiveOrder(s)

\* A record that was not received before another of its kind.
LEMMA ReceivedMore ==
  ASSUME NEW s \in Seq(Rows), NEW r \in Rows, r.kind # "broken", NEW acc \in AllFindings,
         ReceivedTell(acc.received, s), Causal(acc, r)
  PROVE  ReceivedTell(WithReceived(acc.received, r), Append(s, r))
<1>. DEFINE t == Append(s, r)
            m == Len(s)
            v == WithReceived(acc.received, r)
<1>1. /\ m \in Nat /\ DOMAIN s = 1 .. m /\ DOMAIN t = 1 .. m + 1 /\ t[m + 1] = r
      /\ \A i \in 1 .. m : t[i] = s[i] /\ s[i] \in Range(s)
      /\ Range(t) = Range(s) \cup {r} /\ Range(s) \subseteq Rows
  BY OneMore
<1>2. /\ DOMAIN v = DOMAIN acc.received \cup {r.kind} /\ v[r.kind] = r.received
      /\ \A k \in DOMAIN acc.received : k # r.kind => v[k] = acc.received[k]
  BY DEF WithReceived
<1>3. ASSUME NEW x \in Range(s), x.kind = r.kind PROVE x.received <= r.received
  <2>1. x.kind \in DOMAIN acc.received /\ x.received <= acc.received[r.kind]
    BY <1>3 DEF ReceivedTell
  <2>2. r.received >= acc.received[r.kind]
    BY <1>3, <2>1 DEF Causal
  <2>3. x.received \in Int /\ r.received \in Int /\ acc.received[r.kind] \in Int
    <3>1. PICK K \in SUBSET RowKinds : acc.received \in [K -> Int]
      BY DEF AllFindings
    <3>2. acc.received[r.kind] \in Int
      BY <1>3, <2>1, <3>1
    <3>. QED BY <1>1, <1>3, <3>2, RowsAre
  <2>. QED BY <2>1, <2>2, <2>3
<1>4. ASSUME NEW x \in Range(t)
      PROVE  x.kind # "broken" /\ x.kind \in DOMAIN v /\ x.received <= v[x.kind]
  <2>1. CASE x.kind = r.kind
    <3>1. r.received \in Int
      BY RowsAre
    <3>. QED BY <1>1, <1>2, <1>3, <2>1, <3>1
  <2>2. CASE x.kind # r.kind
    <3>1. x \in Range(s)
      BY <1>1, <2>2
    <3>. QED BY <1>2, <2>2, <3>1 DEF ReceivedTell
  <2>. QED BY <2>1, <2>2
<1>. HIDE DEF v, t, m
<1>5. ASSUME NEW n \in 1 .. m + 1, NEW i \in 1 .. n - 1, t[i].kind = t[n].kind PROVE t[i].received <= t[n].received
  <2>1. i \in 1 .. m /\ (n \in 1 .. m \/ n = m + 1)
    BY <1>1
  <2>2. CASE n = m + 1
    BY <1>1, <1>3, <1>5, <2>1, <2>2
  <2>3. CASE n \in 1 .. m
    BY <1>1, <1>5, <2>1, <2>3 DEF ReceivedTell, InReceiveOrder, Earlier
  <2>. QED BY <2>1, <2>2, <2>3
<1>6. InReceiveOrder(t)
  BY <1>1, <1>5 DEF InReceiveOrder, Earlier
<1>. QED BY <1>4, <1>6 DEF ReceivedTell, v, t

\* Of each session the book seen last is told, and books advance.
BooksTell(books, s) ==
  /\ \A b \in books : b \in Range(s) /\ b.kind = "orderbook"
  /\ \A r \in Range(s) :
       r.kind = "orderbook" => \E b \in books : b.session = r.session /\ r.sequence <= b.sequence
  /\ BooksAdvance(s)

\* A book that is beyond all of its session, or a record that is none.
LEMMA BooksMore ==
  ASSUME NEW s \in Seq(Rows), NEW r \in Rows, NEW books, BooksTell(books, s), NEW more,
         IF r.kind = "orderbook"
           THEN /\ more = {b \in books : b.session # r.session} \cup {r}
                /\ \A b \in books : b.session = r.session => r.sequence > b.sequence
           ELSE more = books
  PROVE  BooksTell(more, Append(s, r))
<1>. DEFINE t == Append(s, r)
            m == Len(s)
<1>1. /\ m \in Nat /\ DOMAIN s = 1 .. m /\ DOMAIN t = 1 .. m + 1 /\ t[m + 1] = r
      /\ \A i \in 1 .. m : t[i] = s[i] /\ s[i] \in Range(s)
      /\ Range(t) = Range(s) \cup {r} /\ Range(s) \subseteq Rows
  BY OneMore
<1>. HIDE DEF t, m
<1>2. \A x \in Range(t) : x.kind = "orderbook" => x.sequence \in Int
  BY <1>1, RowsAre
<1>3. ASSUME NEW x \in Range(s), x.kind = "orderbook", r.kind = "orderbook", x.session = r.session
      PROVE  x.sequence < r.sequence
  <2>1. PICK b \in books : b.session = x.session /\ x.sequence <= b.sequence
    BY <1>3 DEF BooksTell
  <2>2. b \in Range(s) /\ b.kind = "orderbook" /\ r.sequence > b.sequence
    BY <1>3, <2>1 DEF BooksTell
  <2>3. b.sequence \in Int /\ x.sequence \in Int /\ r.sequence \in Int
    BY <1>1, <1>2, <1>3, <2>2
  <2>. QED BY <2>1, <2>2, <2>3
<1>4. \A b \in more : b \in Range(t) /\ b.kind = "orderbook"
  BY <1>1 DEF BooksTell
<1>5. ASSUME NEW x \in Range(t), x.kind = "orderbook"
      PROVE  \E b \in more : b.session = x.session /\ x.sequence <= b.sequence
  <2>1. CASE x = r
    <3>1. r \in more /\ r.sequence <= r.sequence
      BY <1>2, <1>5, <2>1
    <3>. QED BY <2>1, <3>1
  <2>2. CASE x # r
    <3>1. PICK b \in books : b.session = x.session /\ x.sequence <= b.sequence
      BY <1>1, <1>5, <2>2 DEF BooksTell
    <3>2. CASE b \in more
      BY <3>1, <3>2
    <3>3. CASE b \notin more
      <4>1. r.kind = "orderbook" /\ b.session = r.session /\ r \in more
        BY <3>1, <3>3
      <4>2. x.sequence < r.sequence /\ x.sequence \in Int /\ r.sequence \in Int
        BY <1>1, <1>2, <1>3, <1>5, <2>2, <3>1, <4>1
      <4>3. x.sequence <= r.sequence
        BY <4>2
      <4>. QED BY <3>1, <4>1, <4>3
    <3>. QED BY <3>2, <3>3
  <2>. QED BY <2>1, <2>2
<1>6. ASSUME NEW n \in 1 .. m + 1, NEW i \in 1 .. n - 1, t[i].kind = "orderbook", t[n].kind = "orderbook",
             t[i].session = t[n].session
      PROVE  t[i].sequence < t[n].sequence
  <2>1. i \in 1 .. m /\ (n \in 1 .. m \/ n = m + 1)
    BY <1>1
  <2>2. CASE n = m + 1
    BY <1>1, <1>3, <1>6, <2>1, <2>2
  <2>3. CASE n \in 1 .. m
    BY <1>1, <1>6, <2>1, <2>3 DEF BooksTell, BooksAdvance, Earlier
  <2>. QED BY <2>1, <2>2, <2>3
<1>7. BooksAdvance(t)
  BY <1>1, <1>6 DEF BooksAdvance, Earlier
<1>8. BooksTell(more, t)
  BY <1>4, <1>5, <1>7 DEF BooksTell
<1>. QED BY <1>8 DEF t

\* The revision of each candle is told, and none is ambiguous.
RevisionsTell(klines, s) == KlinesTell(klines, s) /\ RevisionsClear(s)

\* A candle that contradicts no revision received with it, or a record that is none.
LEMMA RevisionsMore ==
  ASSUME NEW s \in Seq(Rows), NEW r \in Rows, NEW klines, RevisionsTell(klines, s), NEW more,
         IF IsCandle(r) THEN ~ Ambiguous(klines, r) /\ more = ObserveCandle(klines, r) ELSE more = klines,
         InReceiveOrder(Append(s, r))
  PROVE  RevisionsTell(more, Append(s, r))
<1>. DEFINE t == Append(s, r)
            m == Len(s)
<1>1. /\ m \in Nat /\ DOMAIN s = 1 .. m /\ DOMAIN t = 1 .. m + 1 /\ t[m + 1] = r
      /\ \A i \in 1 .. m : t[i] = s[i] /\ s[i] \in Range(s)
      /\ Range(t) = Range(s) \cup {r} /\ Range(s) \subseteq Rows
  BY OneMore
<1>2. KlinesTell(more, t)
  <2>1. CASE IsCandle(r)
    BY <2>1, CandleObserved DEF RevisionsTell
  <2>2. CASE ~ IsCandle(r)
    <3>1. CandlesIn(t) = CandlesIn(s)
      <4>. HIDE DEF t
      <4>. QED BY <1>1, <2>2 DEF CandlesIn
    <3>. HIDE DEF t
    <3>. QED BY <2>2, <3>1 DEF RevisionsTell, KlinesTell
  <2>. QED BY <2>1, <2>2
<1>3. InReceiveOrder(t)
  OBVIOUS
<1>. HIDE DEF t, m
<1>4. ASSUME NEW i \in 1 .. m, IsCandle(s[i]) PROVE s[i].received \in Int
  BY <1>1, <1>4, RowsAre
<1>5. ASSUME NEW i \in 1 .. m, IsCandle(s[i]), IsCandle(r), s[i].start = r.start
      PROVE  s[i].received < r.received \/ s[i].payload = r.payload
  <2>1. ASSUME NEW x \in Range(s), IsCandle(x) PROVE x.received <= r.received
    <3>1. PICK j \in 1 .. m : s[j] = x
      BY <1>1 DEF Range
    <3>2. m + 1 \in 1 .. m + 1 /\ j \in 1 .. (m + 1) - 1
      BY <1>1, <3>1
    <3>3. t[j] = x /\ x.kind = r.kind
      BY <1>1, <1>5, <2>1, <3>1 DEF IsCandle
    <3>. QED BY <1>1, <1>3, <3>2, <3>3 DEF InReceiveOrder, Earlier
  <2>. DEFINE c == s[i]
  <2>2. c \in CandlesIn(s)
    BY <1>1, <1>5 DEF CandlesIn
  <2>3. PICK k \in klines : k.start = c.start
    BY <2>2 DEF RevisionsTell, KlinesTell
  <2>4. k \in Range(s) /\ IsCandle(k) /\ Over(k, c)
    BY <2>2, <2>3 DEF RevisionsTell, KlinesTell, CandlesIn
  <2>5. k.received = r.received => k.payload = r.payload
    BY <1>5, <2>3 DEF Ambiguous, SameStart
  <2>6. k.received \in Int /\ c.received \in Int /\ r.received \in Int
    BY <1>1, <1>4, <1>5, <2>4, RowsAre
  <2>7. k.received <= r.received /\ c.received <= r.received
    BY <1>1, <1>5, <2>1, <2>4
  <2>. HIDE DEF c
  <2>8. c.received < r.received \/ c.payload = r.payload
    BY <2>4, <2>5, <2>6, <2>7 DEF Over
  <2>. QED BY <2>8 DEF c
<1>6. ASSUME NEW n \in 1 .. m + 1, NEW i \in 1 .. n - 1, IsCandle(t[i]), IsCandle(t[n]), t[i].start = t[n].start
      PROVE  t[i].received < t[n].received \/ t[i].payload = t[n].payload
  <2>1. i \in 1 .. m /\ (n \in 1 .. m \/ n = m + 1)
    BY <1>1
  <2>2. CASE n = m + 1
    BY <1>1, <1>5, <1>6, <2>1, <2>2
  <2>3. CASE n \in 1 .. m
    BY <1>1, <1>6, <2>1, <2>3 DEF RevisionsTell, RevisionsClear, Earlier
  <2>. QED BY <2>1, <2>2, <2>3
<1>7. RevisionsClear(t)
  BY <1>1, <1>6 DEF RevisionsClear, Earlier
<1>8. RevisionsTell(more, t)
  BY <1>2, <1>7 DEF RevisionsTell
<1>. QED BY <1>8 DEF t

\* The trades of a record.
IdsOf(r) == IF r.kind = "trades" THEN r.ids ELSE <<>>

TradesOf == [r \in Rows |-> IdsOf(r)]

\* What trades have is no record of another kind.
LEMMA TradesOfAre == TradesOf \in [Rows -> Seq(TradeIds)]
<1>1. ASSUME NEW r \in Rows PROVE IdsOf(r) \in Seq(TradeIds)
  <2>1. CASE r.kind = "trades"
    <3>1. r.ids \in Seq(Range(r.ids))
      BY <2>1, RowsAre
    <3>2. Range(r.ids) \subseteq TradeIds
      BY <2>1 DEF TradeIds
    <3>3. r.ids \in Seq(TradeIds)
      <4>. DEFINE ids == r.ids
                  T == Range(ids)
      <4>1. ids \in Seq(T) /\ T \subseteq TradeIds
        BY <3>1, <3>2
      <4>. HIDE DEF ids, T
      <4>2. ids \in Seq(TradeIds)
        BY <4>1, SeqMonotonic
      <4>. QED BY <4>2 DEF ids
    <3>. QED BY <2>1, <3>3 DEF IdsOf
  <2>2. CASE r.kind # "trades"
    <3>1. <<>> \in Seq(TradeIds)
      BY EmptySeq
    <3>. QED BY <2>2, <3>1 DEF IdsOf
  <2>. QED BY <2>1, <2>2
<1>. QED BY <1>1 DEF TradesOf

\* The trades that were seen are told, none twice.
TradesTell(trades, s) == IsInjective(ToldBy(TradesOf, s)) /\ Range(ToldBy(TradesOf, s)) = trades

\* Then no trade is there twice.
LEMMA TradesToldUnique ==
  ASSUME NEW s \in Seq(Rows), IsInjective(ToldBy(TradesOf, s))
  PROVE  TradesUnique(s)
<1>1. \A n \in DOMAIN s : s[n] \in Rows
  BY LenProperties, ElementOfSeq
<1>2. [n \in DOMAIN s |-> TradesOf[s[n]]] = [n \in DOMAIN s |-> IF s[n].kind = "trades" THEN s[n].ids ELSE <<>>]
  BY <1>1 DEF TradesOf, IdsOf
<1>3. ToldBy(TradesOf, s) = FlattenSeq([n \in DOMAIN s |-> IF s[n].kind = "trades" THEN s[n].ids ELSE <<>>])
  BY <1>2 DEF ToldBy
<1>. QED BY <1>3 DEF TradesUnique

\* Trades that are not there yet and not twice in their message, or a record of
\* another kind.
LEMMA TradesMore ==
  ASSUME NEW s \in Seq(Rows), NEW r \in Rows, NEW trades, TradesTell(trades, s), NEW more,
         IF r.kind = "trades"
           THEN /\ more = trades \cup Range(r.ids) /\ Range(r.ids) \cap trades = {}
                /\ ~ (Cardinality(Range(r.ids)) < Len(r.ids))
           ELSE more = trades
  PROVE  TradesTell(more, Append(s, r))
<1>. DEFINE ids == IdsOf(r)
            a == ToldBy(TradesOf, s)
            b == ToldBy(TradesOf, Append(s, r))
<1>1. a \in Seq(TradeIds) /\ b = Join(a, ids) /\ ids \in Seq(TradeIds)
  <2>1. TradesOf[r] = ids
    BY DEF TradesOf
  <2>. HIDE DEF ids
  <2>2. a \in Seq(TradeIds) /\ b = Join(a, TradesOf[r])
    BY TradesOfAre, ToldMore
  <2>. QED BY <2>1, <2>2, TradesOfAre
<1>2. IsInjective(a) /\ Range(a) = trades
  BY DEF TradesTell
<1>3. IsInjective(ids) /\ Range(a) \cap Range(ids) = {} /\ more = Range(a) \cup Range(ids)
  <2>1. CASE r.kind = "trades"
    <3>1. ids = r.ids
      BY <2>1 DEF IdsOf
    <3>2. ~ (Cardinality(Range(ids)) < Len(ids)) /\ Range(ids) \cap trades = {} /\ more = trades \cup Range(ids)
      BY <2>1, <3>1
    <3>. HIDE DEF ids, a
    <3>3. IsInjective(ids)
      BY <1>1, <3>2, CountedInjective
    <3>. QED BY <1>2, <3>2, <3>3
  <2>2. CASE r.kind # "trades"
    <3>1. ids = <<>>
      BY <2>2 DEF IdsOf
    <3>2. IsInjective(<<>>) /\ Range(<<>>) = {}
      BY DEF IsInjective, Range
    <3>. HIDE DEF ids, a
    <3>. QED BY <1>2, <2>2, <3>1, <3>2
  <2>. QED BY <2>1, <2>2
<1>. HIDE DEF ids, a, b
<1>4. IsInjective(a \o ids) /\ Range(a \o ids) = Range(a) \cup Range(ids)
  BY <1>1, <1>2, <1>3, JoinedInjective
<1>5. IsInjective(b) /\ Range(b) = more
  BY <1>1, <1>3, <1>4 DEF Join
<1>. QED BY <1>5 DEF TradesTell, b

StartsIn(s) == {c.start : c \in CandlesIn(s)}

\* The position is the candle that is furthest, and the missing ones are the intervals
\* up to it that no candle has.
PositionTells(position, missing, s) ==
  IF position = None
  THEN CandlesIn(s) = {} /\ missing = 0
  ELSE /\ position \in CandlesIn(s)
       /\ \E lo \in StartsIn(s) :
            /\ \A x \in StartsIn(s) : lo <= x /\ x <= position.start
            /\ missing = Cardinality((lo .. position.start) \ StartsIn(s))

\* A candle that moves the position, or a record that is none.
LEMMA PositionMore ==
  ASSUME NEW s \in Seq(Rows), NEW r \in Rows, NEW acc, PositionTells(acc.position, acc.missing, s), NEW v,
         IF IsCandle(r) THEN PositionMoves(v, acc, r)
         ELSE v.position = acc.position /\ v.missing = acc.missing,
         InReceiveOrder(Append(s, r))
  PROVE  PositionTells(v.position, v.missing, Append(s, r))
<1>. DEFINE t == Append(s, r)
            m == Len(s)
            p == acc.position
<1>1. /\ m \in Nat /\ DOMAIN s = 1 .. m /\ DOMAIN t = 1 .. m + 1 /\ t[m + 1] = r
      /\ \A i \in 1 .. m : t[i] = s[i] /\ s[i] \in Range(s)
      /\ Range(t) = Range(s) \cup {r} /\ Range(s) \subseteq Rows
  BY OneMore
<1>2. InReceiveOrder(t)
  OBVIOUS
<1>. HIDE DEF t, m
<1>3. CandlesIn(t) = IF IsCandle(r) THEN CandlesIn(s) \cup {r} ELSE CandlesIn(s)
  BY <1>1 DEF CandlesIn
<1>4. StartsIn(t) = IF IsCandle(r) THEN StartsIn(s) \cup {r.start} ELSE StartsIn(s)
  BY <1>3 DEF StartsIn
<1>5. \A c \in CandlesIn(t) : c \in Rows /\ c # None /\ c.start \in Int /\ c.received \in Int
  BY <1>1, RowsAre DEF CandlesIn
<1>6. CASE ~ IsCandle(r)
  <2>1. CandlesIn(t) = CandlesIn(s) /\ StartsIn(t) = StartsIn(s)
    BY <1>3, <1>4, <1>6
  <2>2. v.position = acc.position /\ v.missing = acc.missing
    BY <1>6
  <2>3. PositionTells(v.position, v.missing, t)
    BY <2>1, <2>2 DEF PositionTells
  <2>. QED BY <2>3 DEF t
<1>7. CASE IsCandle(r) /\ p = None
  <2>1. CandlesIn(s) = {} /\ acc.missing = 0 /\ v.position = r /\ v.missing = 0
    BY <1>7 DEF PositionTells, PositionMoves
  <2>2. CandlesIn(t) = {r} /\ StartsIn(t) = {r.start} /\ r.start \in Int /\ r # None
    <3>1. StartsIn(s) = {}
      BY <2>1 DEF StartsIn
    <3>. QED BY <1>3, <1>4, <1>5, <1>7, <2>1, <3>1
  <2>3. (r.start .. r.start) \ {r.start} = {}
    BY <2>2
  <2>4. 0 = Cardinality((r.start .. r.start) \ StartsIn(t))
    BY <2>2, <2>3, FS_EmptySet
  <2>5. \A x \in StartsIn(t) : r.start <= x /\ x <= r.start
    BY <2>2
  <2>6. PositionTells(v.position, v.missing, t)
    BY <2>1, <2>2, <2>4, <2>5 DEF PositionTells
  <2>. QED BY <2>6 DEF t
<1>8. CASE IsCandle(r) /\ p # None
  <2>1. p \in CandlesIn(s)
    BY <1>8 DEF PositionTells
  <2>2. PICK lo \in StartsIn(s) : /\ \A x \in StartsIn(s) : lo <= x /\ x <= p.start
                                  /\ acc.missing = Cardinality((lo .. p.start) \ StartsIn(s))
    BY <1>8 DEF PositionTells
  <2>3. r.received >= p.received
    <3>1. p \in Range(s) /\ p.kind = r.kind
      BY <1>8, <2>1 DEF CandlesIn, IsCandle
    <3>2. PICK j \in 1 .. m : s[j] = p
      BY <1>1, <3>1 DEF Range
    <3>3. m + 1 \in 1 .. m + 1 /\ j \in 1 .. (m + 1) - 1
      BY <1>1, <3>2
    <3>4. p.received <= r.received
      BY <1>1, <1>2, <3>1, <3>2, <3>3 DEF InReceiveOrder, Earlier
    <3>. QED BY <1>3, <1>5, <1>8, <2>1, <3>4
  <2>4. r.start >= p.start /\ v.position = r
    BY <1>8, <2>3 DEF PositionMoves
  <2>5. v.missing = IF r.start - p.start - 1 > 0 THEN acc.missing + (r.start - p.start - 1) ELSE acc.missing
    BY <1>8, <2>3 DEF PositionMoves, Skipped
  <2>6. /\ StartsIn(s) \in SUBSET Int /\ p.start \in StartsIn(s) /\ r.start \in Int /\ r # None
        /\ StartsIn(t) = StartsIn(s) \cup {r.start} /\ r \in CandlesIn(t)
    <3>1. StartsIn(t) = StartsIn(s) \cup {r.start} /\ r \in CandlesIn(t) /\ p.start \in StartsIn(s)
      BY <1>3, <1>4, <1>8, <2>1 DEF StartsIn
    <3>2. \A x \in StartsIn(s) : x \in Int
      BY <1>3, <1>5, <1>8 DEF StartsIn
    <3>. QED BY <1>5, <3>1, <3>2
  <2>. HIDE DEF p
  <2>7. Cardinality((lo .. r.start) \ (StartsIn(s) \cup {r.start})) =
          IF r.start - p.start - 1 > 0 THEN Cardinality((lo .. p.start) \ StartsIn(s)) + (r.start - p.start - 1)
          ELSE Cardinality((lo .. p.start) \ StartsIn(s))
    <3>. DEFINE S == StartsIn(s)
                hi == p.start
                new == r.start
    <3>1. S \in SUBSET Int /\ lo \in S /\ hi \in S /\ new \in Int /\ new >= hi /\ \A x \in S : lo <= x /\ x <= hi
      BY <2>2, <2>4, <2>6
    <3>. HIDE DEF S, hi, new
    <3>2. Cardinality((lo .. new) \ (S \cup {new})) =
            IF new - hi - 1 > 0 THEN Cardinality((lo .. hi) \ S) + (new - hi - 1)
            ELSE Cardinality((lo .. hi) \ S)
      BY <3>1, GapCounted
    <3>. QED BY <3>2 DEF S, hi, new
  <2>8. v.missing = Cardinality((lo .. r.start) \ StartsIn(t))
    BY <2>2, <2>5, <2>6, <2>7
  <2>9. lo \in StartsIn(t) /\ \A x \in StartsIn(t) : lo <= x /\ x <= r.start
    <3>1. lo \in Int /\ p.start \in Int
      BY <2>2, <2>6
    <3>. QED BY <2>2, <2>4, <2>6, <3>1
  <2>10. PositionTells(v.position, v.missing, t)
    BY <2>4, <2>6, <2>8, <2>9 DEF PositionTells
  <2>. QED BY <2>10 DEF t
<1>. QED BY <1>6, <1>7, <1>8

\* What a record adds to findings that stay clean.
Gathers(v, acc, r) ==
  /\ r.kind # "broken" /\ Causal(acc, r) /\ v.received = WithReceived(acc.received, r)
  /\ IF r.kind = "orderbook"
       THEN /\ v.books = {b \in acc.books : b.session # r.session} \cup {r}
            /\ \A b \in acc.books : b.session = r.session => r.sequence > b.sequence
       ELSE v.books = acc.books
  /\ IF r.kind = "trades"
       THEN /\ v.trades = acc.trades \cup Range(r.ids) /\ Range(r.ids) \cap acc.trades = {}
            /\ ~ (Cardinality(Range(r.ids)) < Len(r.ids))
       ELSE v.trades = acc.trades
  /\ IF IsCandle(r)
       THEN ~ Ambiguous(acc.klines, r) /\ v.klines = ObserveCandle(acc.klines, r)
       ELSE v.klines = acc.klines
  /\ IF IsCandle(r)
       THEN PositionMoves(v, acc, r)
       ELSE v.position = acc.position /\ v.missing = acc.missing

\* A record of the file, when nothing of it is wrong (process_record).
LEMMA LineIs ==
  ASSUME NEW acc \in AllFindings, NEW r \in Rows, NEW file
  PROVE  LET v == Line(acc, r, file)
         IN  /\ v \in AllFindings
             /\ Clean(v) => Clean(acc) /\ InPlace(r, file) /\ Gathers(v, acc, r)
<1>. DEFINE v == Line(acc, r, file)
            causal == Causal(acc, r)
            timed == Timed(acc, r, file)
<1>1. CASE r.kind = "broken"
  <2>. DEFINE code == "invalid_json"
  <2>1. code \in Codes /\ TRUE \in BOOLEAN /\ v = Error(acc, code)
    BY <1>1 DEF Codes, Line
  <2>. HIDE DEF code, v
  <2>2. v \in AllFindings /\ ~ Clean(v)
    BY <2>1, MarkedIs
  <2>. QED BY <2>2 DEF v
<1>2. CASE r.kind # "broken"
  <2>1. /\ timed \in AllFindings
        /\ timed.trades = acc.trades /\ timed.books = acc.books /\ timed.klines = acc.klines
        /\ timed.position = acc.position /\ timed.missing = acc.missing
        /\ Clean(timed) => /\ Clean(acc) /\ causal /\ InPlace(r, file)
                           /\ timed.received = WithReceived(acc.received, r)
    <3>1. TimedTells(timed, acc, r, file)
      BY <1>2, TimedIs
    <3>. HIDE DEF timed
    <3>. QED BY <3>1 DEF TimedTells
  <2>2. v = CASE r.kind = "orderbook" -> BookLine(timed, r, causal)
              [] r.kind = "trades" -> TradesLine(timed, r)
              [] r.kind = "kline" -> CandleLine(timed, r, causal)
              [] OTHER -> timed
    BY <1>2 DEF Line, Timed
  <2>3. causal \in BOOLEAN /\ "orderbook" # "trades" /\ "orderbook" # "kline" /\ "trades" # "kline"
    BY DEF Causal
  <2>. HIDE DEF timed, causal, v
  <2>4. CASE r.kind = "orderbook"
    <3>1. v = BookLine(timed, r, causal)
      BY <2>2, <2>4
    <3>2. /\ v \in AllFindings
          /\ v.received = timed.received /\ v.trades = timed.trades /\ v.klines = timed.klines
          /\ v.position = timed.position /\ v.missing = timed.missing
          /\ Clean(v) => Clean(timed)
          /\ Clean(v) /\ causal =>
               /\ v.books = {b \in timed.books : b.session # r.session} \cup {r}
               /\ \A b \in timed.books : b.session = r.session => r.sequence > b.sequence
      BY <2>1, <2>3, <3>1, BookLineIs
    <3>3. ~ IsCandle(r) /\ r.kind # "trades"
      BY <2>4 DEF IsCandle
    <3>4. Clean(v) => Clean(acc) /\ InPlace(r, file) /\ Gathers(v, acc, r)
      BY <1>2, <2>1, <2>4, <3>2, <3>3 DEF Gathers, causal
    <3>. QED BY <3>2, <3>4 DEF v
  <2>5. CASE r.kind = "trades"
    <3>1. v = TradesLine(timed, r)
      BY <2>2, <2>5
    <3>2. /\ v \in AllFindings
          /\ v.received = timed.received /\ v.books = timed.books /\ v.klines = timed.klines
          /\ v.position = timed.position /\ v.missing = timed.missing
          /\ Clean(v) => /\ Clean(timed) /\ v.trades = timed.trades \cup Range(r.ids)
                         /\ Range(r.ids) \cap timed.trades = {}
                         /\ ~ (Cardinality(Range(r.ids)) < Len(r.ids))
      BY <2>1, <2>5, <3>1, TradesLineIs
    <3>3. ~ IsCandle(r) /\ r.kind # "orderbook"
      BY <2>5 DEF IsCandle
    <3>4. Clean(v) => Clean(acc) /\ InPlace(r, file) /\ Gathers(v, acc, r)
      BY <1>2, <2>1, <2>5, <3>2, <3>3 DEF Gathers, causal
    <3>. QED BY <3>2, <3>4 DEF v
  <2>6. CASE r.kind = "kline"
    <3>0. IsCandle(r) /\ r.kind # "orderbook" /\ r.kind # "trades"
      BY <2>6 DEF IsCandle
    <3>1. v = CandleLine(timed, r, causal)
      BY <2>2, <2>6
    <3>2. /\ v \in AllFindings
          /\ v.received = timed.received /\ v.trades = timed.trades /\ v.books = timed.books
          /\ Clean(v) => Clean(timed)
          /\ Clean(v) /\ causal =>
               /\ ~ Ambiguous(timed.klines, r) /\ v.klines = ObserveCandle(timed.klines, r)
               /\ PositionMoves(v, timed, r)
      BY <2>1, <2>3, <3>0, <3>1, CandleLineIs
    <3>3. PositionMoves(v, timed, r) => PositionMoves(v, acc, r)
      BY <2>1 DEF PositionMoves, Skipped
    <3>4. Clean(v) => Clean(acc) /\ InPlace(r, file) /\ Gathers(v, acc, r)
      BY <1>2, <2>1, <3>0, <3>2, <3>3 DEF Gathers, causal
    <3>. QED BY <3>2, <3>4 DEF v
  <2>7. CASE r.kind \notin {"orderbook", "trades", "kline"}
    <3>1. v = timed /\ ~ IsCandle(r) /\ r.kind # "orderbook" /\ r.kind # "trades"
      BY <2>2, <2>7 DEF IsCandle
    <3>2. Clean(v) => Clean(acc) /\ InPlace(r, file) /\ Gathers(v, acc, r)
      BY <1>2, <2>1, <3>1 DEF Gathers, causal
    <3>. QED BY <2>1, <3>1, <3>2 DEF v
  <2>. QED BY <2>4, <2>5, <2>6, <2>7
<1>. QED BY <1>1, <1>2

\* Findings that tell of the records s all that acceptance asks of them.
AuditTells(acc, s) ==
  /\ ReceivedTell(acc.received, s) /\ BooksTell(acc.books, s) /\ TradesTell(acc.trades, s)
  /\ RevisionsTell(acc.klines, s) /\ PositionTells(acc.position, acc.missing, s)

\* They tell of a record more (process_record).
LEMMA TellsMore ==
  ASSUME NEW acc \in AllFindings, NEW s \in Seq(Rows), AuditTells(acc, s), NEW r \in Rows,
         NEW v, Gathers(v, acc, r)
  PROVE  AuditTells(v, Append(s, r))
<1>. DEFINE t == Append(s, r)
<1>1. ReceivedTell(v.received, t)
  <2>1. r.kind # "broken" /\ Causal(acc, r) /\ v.received = WithReceived(acc.received, r)
    BY DEF Gathers
  <2>2. ReceivedTell(acc.received, s)
    BY DEF AuditTells
  <2>. QED BY <2>1, <2>2, ReceivedMore
<1>2. InReceiveOrder(t)
  BY <1>1 DEF ReceivedTell
<1>3. BooksTell(v.books, t)
  <2>. DEFINE more == v.books
              books == acc.books
  <2>1. /\ BooksTell(books, s)
        /\ IF r.kind = "orderbook"
             THEN /\ more = {b \in books : b.session # r.session} \cup {r}
                  /\ \A b \in books : b.session = r.session => r.sequence > b.sequence
             ELSE more = books
    BY DEF AuditTells, Gathers
  <2>. HIDE DEF more, books
  <2>2. BooksTell(more, t)
    BY <2>1, BooksMore
  <2>. QED BY <2>2 DEF more
<1>4. TradesTell(v.trades, t)
  <2>. DEFINE more == v.trades
              trades == acc.trades
  <2>1. /\ TradesTell(trades, s)
        /\ IF r.kind = "trades"
             THEN /\ more = trades \cup Range(r.ids) /\ Range(r.ids) \cap trades = {}
                  /\ ~ (Cardinality(Range(r.ids)) < Len(r.ids))
             ELSE more = trades
    BY DEF AuditTells, Gathers
  <2>. HIDE DEF more, trades
  <2>2. TradesTell(more, t)
    BY <2>1, TradesMore
  <2>. QED BY <2>2 DEF more
<1>5. RevisionsTell(v.klines, t)
  <2>. DEFINE more == v.klines
              klines == acc.klines
  <2>1. /\ RevisionsTell(klines, s)
        /\ IF IsCandle(r) THEN ~ Ambiguous(klines, r) /\ more = ObserveCandle(klines, r) ELSE more = klines
    BY DEF AuditTells, Gathers
  <2>. HIDE DEF more, klines
  <2>2. RevisionsTell(more, t)
    BY <1>2, <2>1, RevisionsMore
  <2>. QED BY <2>2 DEF more
<1>6. PositionTells(v.position, v.missing, t)
  <2>1. /\ PositionTells(acc.position, acc.missing, s)
        /\ IF IsCandle(r) THEN PositionMoves(v, acc, r)
           ELSE v.position = acc.position /\ v.missing = acc.missing
    BY DEF AuditTells, Gathers
  <2>. QED BY <1>2, <2>1, PositionMore
<1>. QED BY <1>1, <1>3, <1>4, <1>5, <1>6 DEF AuditTells

\* The lines of a file, one after the other (AuditFile).
LinesAudited(acc, lines, file) == FoldLeft(LAMBDA a, r : Line(a, r, file), acc, lines)

\* f has the findings after each line.
LineByLine(f, acc, lines, file) ==
  /\ f \in [0 .. Len(lines) -> AllFindings]
  /\ f[0] = acc /\ LinesAudited(acc, lines, file) = f[Len(lines)]
  /\ \A i \in 1 .. Len(lines) : f[i] = Line(f[i - 1], lines[i], file)

\* What one line after the other makes of findings.
LEMMA LinesRun ==
  ASSUME NEW acc \in AllFindings, NEW lines \in Seq(Rows), NEW file
  PROVE  \E f : LineByLine(f, acc, lines, file)
<1>. DEFINE n == Len(lines)
            V == AllFindings
            G == [p \in (1 .. n) \X V |-> Line(p[2], lines[p[1]], file)]
            Def(f) == [t \in SUBSET (1 .. n) |-> IF t = {} THEN acc
                                                 ELSE Line(f[t \ {Max(t)}], lines[Max(t)], file)]
            iter == CHOOSE f : f = Def(f)
<1>1. n \in Nat /\ DOMAIN lines = 1 .. n /\ acc \in V
  BY LenProperties
<1>2. ASSUME NEW i \in 1 .. n, NEW x \in V PROVE Line(x, lines[i], file) \in V
  <2>1. lines[i] \in Rows
    BY ElementOfSeq
  <2>. QED BY <2>1, LineIs
<1>. HIDE DEF V
<1>3. \A i \in 1 .. n, x \in V : G[<<i, x>>] = Line(x, lines[i], file) /\ G[<<i, x>>] \in V
  BY <1>2
<1>4. LinesAudited(acc, lines, file) = iter[1 .. n]
  BY <1>1 DEF LinesAudited, FoldLeft, MapThenFoldSet
<1>. HIDE DEF n, G
<1>5. Closed(G, 1 .. n, V)
  BY <1>3 DEF Closed
<1>6. PICK h : MaxFold(h, n, V, acc, G)
  BY <1>1, <1>5, FoldLeftExists
<1>7. h = Def(h) /\ \A t \in SUBSET (1 .. n) : t # {} => Max(t) \in 1 .. n
  BY <1>3, <1>6 DEF MaxFold
<1>8. iter = Def(iter)
  <2>. HIDE DEF Def
  <2>. QED BY <1>7
<1>. HIDE DEF iter
<1>9. iter[{}] = acc
  BY <1>8
<1>10. ASSUME NEW t \in SUBSET (1 .. n), t # {}, iter[t \ {Max(t)}] \in V
       PROVE  iter[t] = G[<<Max(t), iter[t \ {Max(t)}]>>]
  BY <1>3, <1>7, <1>8, <1>10
<1>11. PICK f : Recursion(f, n, V, acc, G) /\ f[n] = iter[1 .. n]
  <2>1. Unfolds(iter, n, V, acc, G)
    BY <1>9, <1>10 DEF Unfolds
  <2>. QED BY <1>1, <1>5, <2>1, FoldLeftRuns
<1>12. f \in [0 .. n -> V] /\ f[0] = acc
  BY <1>11 DEF Recursion
<1>13. ASSUME NEW i \in 1 .. n PROVE f[i] = Line(f[i - 1], lines[i], file)
  <2>1. f[i - 1] \in V /\ f[i] = G[<<i, f[i - 1]>>]
    <3>1. i - 1 \in 0 .. n
      BY <1>1
    <3>. QED BY <1>11, <3>1 DEF Recursion
  <2>. QED BY <1>3, <2>1
<1>14. LineByLine(f, acc, lines, file)
  BY <1>4, <1>11, <1>12, <1>13 DEF LineByLine, n, V
<1>. QED BY <1>14

\* Of findings that are still clean, that they were, and what they tell.
Passed(v, acc, s, lines, file) ==
  Clean(v) => /\ Clean(acc) /\ \A i \in 1 .. Len(lines) : InPlace(lines[i], file)
              /\ AuditTells(acc, s) => AuditTells(v, s \o lines)

\* The lines of a file after the records s.
LEMMA LinesTold ==
  ASSUME NEW acc \in AllFindings, NEW s \in Seq(Rows), NEW lines \in Seq(Rows), NEW file
  PROVE  LET v == LinesAudited(acc, lines, file)
         IN  v \in AllFindings /\ Passed(v, acc, s, lines, file)
<1>. DEFINE n == Len(lines)
<1>1. n \in Nat /\ \A i \in 1 .. n : lines[i] \in Rows
  BY LenProperties, ElementOfSeq
<1>10. PICK f : LineByLine(f, acc, lines, file)
  BY LinesRun
<1>2. /\ f \in [0 .. n -> AllFindings] /\ f[0] = acc /\ LinesAudited(acc, lines, file) = f[n]
      /\ \A i \in 1 .. n : f[i] = Line(f[i - 1], lines[i], file)
  BY <1>10 DEF LineByLine
<1>. DEFINE ToldAt(i) == Clean(f[i]) => /\ Clean(acc) /\ \A j \in 1 .. i : InPlace(lines[j], file)
                                        /\ AuditTells(acc, s) => AuditTells(f[i], s \o SubSeq(lines, 1, i))
            T == {i \in 0 .. n : ToldAt(i)}
<1>3. 0 \in T
  <2>1. SubSeq(lines, 1, 0) = <<>> /\ s \o <<>> = s
    BY PrefixGrows, ConcatEmptySeq
  <2>2. s \o SubSeq(lines, 1, 0) = s
    BY <2>1
  <2>3. \A j \in 1 .. 0 : InPlace(lines[j], file)
    OBVIOUS
  <2>4. AuditTells(acc, s) => AuditTells(f[0], s \o SubSeq(lines, 1, 0))
    BY <1>2, <2>2
  <2>5. ToldAt(0)
    BY <1>2, <2>3, <2>4
  <2>. HIDE DEF ToldAt
  <2>. QED BY <1>1, <2>5
<1>4. ASSUME NEW i \in 0 .. n - 1, i \in T PROVE i + 1 \in T
  <2>1. /\ i + 1 \in 1 .. n /\ (i + 1) - 1 = i /\ i + 1 \in 0 .. n /\ i \in 0 .. n
    BY <1>1
  <2>. DEFINE r == lines[i + 1]
              a == s \o SubSeq(lines, 1, i)
              x == f[i]
              y == f[i + 1]
              b == SubSeq(lines, 1, i)
  <2>2. r \in Rows /\ x \in AllFindings /\ y = Line(x, r, file)
    BY <1>1, <1>2, <2>1
  <2>3. b \in Seq(Rows) /\ a \in Seq(Rows) /\ SubSeq(lines, 1, i + 1) = Append(b, r)
    <3>1. b \in Seq(Rows) /\ SubSeq(lines, 1, i + 1) = Append(b, r)
      BY <2>1, PrefixGrows
    <3>2. s \o b \in Seq(Rows)
      <4>. HIDE DEF b
      <4>. QED BY <3>1, ConcatProperties
    <3>. QED BY <3>1, <3>2
  <2>4. Append(a, r) = s \o SubSeq(lines, 1, i + 1)
    <3>. HIDE DEF b, r
    <3>1. LastOfBoth(s, b, r)
      BY <2>2, <2>3, AppendBehindBoth
    <3>2. Append(s \o b, r) = s \o Append(b, r)
      BY <3>1 DEF LastOfBoth
    <3>. QED BY <2>3, <3>2 DEF b
  <2>5. Clean(x) => /\ Clean(acc) /\ \A j \in 1 .. i : InPlace(lines[j], file)
                    /\ AuditTells(acc, s) => AuditTells(x, a)
    BY <1>4
  <2>6. \A j \in 1 .. i + 1 : j \in 1 .. i \/ j = i + 1
    BY <2>1
  <2>. HIDE DEF a, x, b
  <2>7. Clean(y) => Clean(x) /\ InPlace(r, file) /\ Gathers(y, x, r)
    <3>. HIDE DEF r
    <3>. QED BY <2>2, LineIs
  <2>8. AuditTells(x, a) /\ Gathers(y, x, r) => AuditTells(y, Append(a, r))
    <3>. HIDE DEF r, y
    <3>. QED BY <2>2, <2>3, TellsMore
  <2>9. ToldAt(i + 1)
    <3>1. ASSUME Clean(y) PROVE \A j \in 1 .. i + 1 : InPlace(lines[j], file)
      BY <2>5, <2>6, <2>7, <3>1
    <3>2. ASSUME Clean(y), AuditTells(acc, s) PROVE AuditTells(y, s \o SubSeq(lines, 1, i + 1))
      BY <2>4, <2>5, <2>7, <2>8, <3>2
    <3>. QED BY <2>5, <2>7, <3>1, <3>2
  <2>. HIDE DEF ToldAt
  <2>. QED BY <2>1, <2>9
<1>5. \A i \in 0 .. n : i \in T
  <2>1. \A i \in 0 .. n - 1 : i \in T => i + 1 \in T
    BY <1>4
  <2>. HIDE DEF T, n
  <2>. QED BY <1>1, <1>3, <2>1, UpTo
<1>6. ToldAt(n)
  <2>1. n \in 0 .. n
    BY <1>1
  <2>2. n \in T
    BY <1>5, <2>1
  <2>. HIDE DEF ToldAt
  <2>. QED BY <2>2
<1>7. f[n] \in AllFindings /\ SubSeq(lines, 1, n) = lines
  <2>1. n \in 0 .. n
    BY <1>1
  <2>2. f[n] \in AllFindings
    BY <1>2, <2>1
  <2>3. SubSeq(lines, 1, n) = lines
    BY PrefixGrows
  <2>. QED BY <2>2, <2>3
<1>8. Passed(f[n], acc, s, lines, file)
  BY <1>6, <1>7 DEF Passed
<1>. QED BY <1>2, <1>7, <1>8

\* A file after those before it (AuditFile).
LEMMA FileTold ==
  ASSUME NEW acc \in AllFindings, NEW s \in Seq(Rows), NEW file, file.lines \in Seq(Rows)
  PROVE  LET v == AuditFile(acc, file)
         IN  v \in AllFindings /\ Passed(v, acc, s, file.lines, file)
<1>. DEFINE lines == file.lines
            u == LinesAudited(acc, lines, file)
            wrong == lines = <<>>
            seen == ErrorIf(u, wrong, "empty_file")
            v == AuditFile(acc, file)
<1>1. u \in AllFindings /\ Passed(u, acc, s, lines, file)
  BY LinesTold
<1>2. v = IF file.recovered THEN Warning(seen, "recovered_segments_present") ELSE seen
  BY DEF AuditFile, LinesAudited
<1>. HIDE DEF u, v
<1>3. seen \in AllFindings /\ SameBut(seen, u) /\ (Clean(seen) => Clean(u))
  <2>. DEFINE code == "empty_file"
  <2>1. code \in Codes /\ wrong \in BOOLEAN
    BY DEF Codes
  <2>. HIDE DEF code, wrong
  <2>2. /\ ErrorIf(u, wrong, code) \in AllFindings /\ SameBut(ErrorIf(u, wrong, code), u)
        /\ Clean(ErrorIf(u, wrong, code)) => Clean(u)
    BY <1>1, <2>1, MarkedIs
  <2>. QED BY <2>2 DEF code
<1>. HIDE DEF seen
<1>4. v \in AllFindings /\ SameBut(v, u) /\ (Clean(v) => Clean(u))
  <2>1. CASE v = seen
    BY <1>3, <2>1
  <2>2. CASE v = Warning(seen, "recovered_segments_present")
    <3>. DEFINE code == "recovered_segments_present"
    <3>1. code \in Codes /\ TRUE \in BOOLEAN
      BY DEF Codes
    <3>. HIDE DEF code
    <3>2. /\ Warning(seen, code) \in AllFindings /\ SameBut(Warning(seen, code), seen)
          /\ Clean(Warning(seen, code)) => Clean(seen)
      BY <1>3, <3>1, MarkedIs
    <3>. QED BY <1>3, <2>2, <3>2 DEF code, SameBut
  <2>. QED BY <1>2, <2>1, <2>2
<1>5. \A t : AuditTells(u, t) => AuditTells(v, t)
  BY <1>4 DEF AuditTells, SameBut
<1>6. Passed(v, acc, s, lines, file)
  BY <1>1, <1>4, <1>5 DEF Passed
<1>. QED BY <1>4, <1>6 DEF v

\* What one file after the other makes of no findings (audit_dataset).
LEMMA FilesRun ==
  ASSUME NEW files \in Audits
  PROVE  \E f \in [0 .. Len(files) -> AllFindings] :
            /\ f[0] = NoFindings /\ Findings(files) = f[Len(files)]
            /\ \A i \in 1 .. Len(files) : f[i] = AuditFile(f[i - 1], files[i])
<1>. DEFINE n == Len(files)
            V == AllFindings
            G == [p \in (1 .. n) \X V |-> AuditFile(p[2], files[p[1]])]
            Def(f) == [t \in SUBSET (1 .. n) |-> IF t = {} THEN NoFindings
                                                 ELSE AuditFile(f[t \ {Max(t)}], files[Max(t)])]
            iter == CHOOSE f : f = Def(f)
<1>1. n \in Nat /\ DOMAIN files = 1 .. n
  BY SeenGrows
<1>2. NoFindings \in V
  <2>1. <<>> \in [{} -> Int] /\ {} \in SUBSET RowKinds
    OBVIOUS
  <2>2. <<>> \in UNION {[K -> Int] : K \in SUBSET RowKinds}
    BY <2>1
  <2>. QED BY <2>2 DEF AllFindings, NoFindings
<1>3. ASSUME NEW i \in 1 .. n, NEW x \in V PROVE AuditFile(x, files[i]) \in V
  <2>1. files[i].lines \in Seq(Rows) /\ <<>> \in Seq(Rows)
    BY <1>1, RowsAre, EmptySeq
  <2>. QED BY <2>1, FileTold
<1>. HIDE DEF V
<1>4. \A i \in 1 .. n, x \in V : G[<<i, x>>] = AuditFile(x, files[i]) /\ G[<<i, x>>] \in V
  BY <1>3
<1>5. Findings(files) = iter[1 .. n]
  BY <1>1 DEF Findings, FoldLeft, MapThenFoldSet
<1>. DEFINE c == NoFindings
<1>6. c \in V
  BY <1>2
<1>. HIDE DEF n, G, c
<1>7. Closed(G, 1 .. n, V)
  BY <1>4 DEF Closed
<1>8. PICK h : MaxFold(h, n, V, c, G)
  BY <1>1, <1>6, <1>7, FoldLeftExists
<1>9. h = Def(h) /\ \A t \in SUBSET (1 .. n) : t # {} => Max(t) \in 1 .. n
  BY <1>4, <1>8 DEF MaxFold, c
<1>10. iter = Def(iter)
  <2>. HIDE DEF Def
  <2>. QED BY <1>9
<1>. HIDE DEF iter
<1>11. iter[{}] = c
  BY <1>10 DEF c
<1>12. ASSUME NEW t \in SUBSET (1 .. n), t # {}, iter[t \ {Max(t)}] \in V
       PROVE  iter[t] = G[<<Max(t), iter[t \ {Max(t)}]>>]
  BY <1>4, <1>9, <1>10, <1>12
<1>13. PICK f : Recursion(f, n, V, c, G) /\ f[n] = iter[1 .. n]
  <2>1. Unfolds(iter, n, V, c, G)
    BY <1>11, <1>12 DEF Unfolds
  <2>. QED BY <1>1, <1>6, <1>7, <2>1, FoldLeftRuns
<1>14. f \in [0 .. n -> V] /\ f[0] = c
  BY <1>13 DEF Recursion
<1>15. ASSUME NEW i \in 1 .. n PROVE f[i] = AuditFile(f[i - 1], files[i])
  <2>1. f[i - 1] \in V /\ f[i] = G[<<i, f[i - 1]>>]
    <3>1. i - 1 \in 0 .. n
      BY <1>1
    <3>. QED BY <1>13, <3>1 DEF Recursion
  <2>. QED BY <1>4, <2>1
<1>. QED BY <1>5, <1>13, <1>14, <1>15 DEF n, V, c

\* No findings tell of no records.
LEMMA NothingTold == AuditTells(NoFindings, <<>>)
<1>1. /\ NoFindings.received = <<>> /\ NoFindings.books = {} /\ NoFindings.trades = {}
      /\ NoFindings.klines = {} /\ NoFindings.position = None /\ NoFindings.missing = 0
  BY DEF NoFindings
<1>2. DOMAIN <<>> = {} /\ Range(<<>>) = {} /\ CandlesIn(<<>>) = {} /\ IsInjective(<<>>)
  BY DEF Range, CandlesIn, IsInjective
<1>3. ReceivedTell(<<>>, <<>>)
  BY <1>2 DEF ReceivedTell, InReceiveOrder, Earlier
<1>4. BooksTell({}, <<>>)
  BY <1>2 DEF BooksTell, BooksAdvance, Earlier
<1>5. TradesTell({}, <<>>)
  <2>1. [n \in DOMAIN <<>> |-> TradesOf[<<>>[n]]] = <<>>
    BY <1>2
  <2>2. FlattenSeq(<<>>) = <<>>
    BY EmptySeq DEF FlattenSeq
  <2>3. ToldBy(TradesOf, <<>>) = <<>>
    BY <2>1, <2>2 DEF ToldBy
  <2>. QED BY <1>2, <2>3 DEF TradesTell
<1>6. RevisionsTell({}, <<>>)
  BY <1>2, FS_EmptySet DEF RevisionsTell, KlinesTell, RevisionsClear, Earlier
<1>7. PositionTells(None, 0, <<>>)
  BY <1>2 DEF PositionTells
<1>. QED BY <1>1, <1>3, <1>4, <1>5, <1>6, <1>7 DEF AuditTells

\* Of all files, when nothing is wrong but gaps, that their records are in place and
\* what the findings tell (audit_dataset).
LEMMA FilesTold ==
  ASSUME NEW files \in Audits, Clean(Findings(files))
  PROVE  /\ \A i \in DOMAIN files : \A r \in Range(files[i].lines) : InPlace(r, files[i])
         /\ AuditTells(Findings(files), Records(files))
<1>. DEFINE n == Len(files)
<1>1. /\ n \in Nat /\ DOMAIN files = 1 .. n
      /\ LinesOf(files, 0) = <<>> /\ LinesOf(files, n) = Records(files)
  BY SeenGrows
<1>2. PICK f \in [0 .. n -> AllFindings] :
         /\ f[0] = NoFindings /\ Findings(files) = f[n]
         /\ \A i \in 1 .. n : f[i] = AuditFile(f[i - 1], files[i])
  BY FilesRun
<1>. DEFINE PlacedIn(i) == \A j \in 1 .. Len(files[i].lines) : InPlace(files[i].lines[j], files[i])
            ToldAt(i) == Clean(f[i]) => (\A j \in 1 .. i : PlacedIn(j)) /\ AuditTells(f[i], LinesOf(files, i))
            T == {i \in 0 .. n : ToldAt(i)}
<1>3. 0 \in T
  <2>1. ToldAt(0)
    BY <1>1, <1>2, NothingTold
  <2>. HIDE DEF ToldAt
  <2>. QED BY <1>1, <2>1
<1>4. ASSUME NEW i \in 0 .. n - 1, i \in T PROVE i + 1 \in T
  <2>1. /\ i + 1 \in 1 .. n /\ (i + 1) - 1 = i /\ i + 1 \in 0 .. n /\ i \in 0 .. n
    BY <1>1
  <2>. DEFINE file == files[i + 1]
              s == LinesOf(files, i)
              x == f[i]
              y == f[i + 1]
  <2>2. /\ x \in AllFindings /\ y = AuditFile(x, file)
        /\ s \in Seq(Rows) /\ file.lines \in Seq(Rows) /\ LinesOf(files, i + 1) = s \o file.lines
    BY <1>2, <2>1, SeenGrows
  <2>3. ToldAt(i)
    <3>. HIDE DEF ToldAt
    <3>. QED BY <1>4
  <2>4. Passed(y, x, s, file.lines, file)
    <3>. HIDE DEF x, y, s, file
    <3>. QED BY <2>2, FileTold
  <2>5. \A j \in 1 .. i + 1 : j \in 1 .. i \/ j = i + 1
    BY <2>1
  <2>6. Clean(y) => Clean(x) /\ PlacedIn(i + 1) /\ (AuditTells(x, s) => AuditTells(y, LinesOf(files, i + 1)))
    BY <2>2, <2>4 DEF Passed
  <2>. HIDE DEF PlacedIn, file
  <2>7. ToldAt(i + 1)
    BY <2>3, <2>5, <2>6
  <2>. HIDE DEF ToldAt
  <2>. QED BY <2>1, <2>7
<1>5. \A i \in 0 .. n : i \in T
  <2>1. \A i \in 0 .. n - 1 : i \in T => i + 1 \in T
    BY <1>4
  <2>. HIDE DEF T, n
  <2>. QED BY <1>1, <1>3, <2>1, UpTo
<1>6. ToldAt(n)
  <2>1. n \in 0 .. n
    BY <1>1
  <2>2. n \in T
    BY <1>5, <2>1
  <2>. HIDE DEF ToldAt
  <2>. QED BY <2>2
<1>. HIDE DEF n
<1>7. ASSUME NEW i \in DOMAIN files, NEW r \in Range(files[i].lines) PROVE InPlace(r, files[i])
  <2>1. files[i].lines \in Seq(Rows)
    BY RowsAre
  <2>. DEFINE lines == files[i].lines
  <2>2. DOMAIN lines = 1 .. Len(lines)
    <3>. HIDE DEF lines
    <3>1. lines \in Seq(Rows)
      BY <2>1 DEF lines
    <3>. QED BY <3>1, LenProperties
  <2>3. PICK j \in 1 .. Len(lines) : lines[j] = r
    BY <2>2 DEF Range
  <2>4. PlacedIn(i)
    <3>. HIDE DEF PlacedIn
    <3>. QED BY <1>1, <1>2, <1>6
  <2>. QED BY <2>3, <2>4
<1>. QED BY <1>1, <1>2, <1>6, <1>7

\* An accepted audit means what it says, for any files (audit_dataset,
\* assess_archive_payload).
LEMMA AcceptanceHolds ==
  ASSUME NEW files \in Audits
  PROVE  AcceptanceMeans(files) /\ (Accepted(files) => RevisionsClear(Records(files)))
<1>. DEFINE s == Records(files)
            found == Findings(files)
            starts == {r.start : r \in {c \in Range(s) : IsCandle(c)}}
            InOrder == InReceiveOrder(s) /\ BooksAdvance(s) /\ TradesUnique(s) /\ RevisionsClear(s)
<1>1. ASSUME Accepted(files) PROVE Clean(found)
  BY <1>1 DEF Accepted, Clean
<1>2. s \in Seq(Rows)
  <2>1. Len(files) \in 0 .. Len(files)
    BY SeenGrows
  <2>. QED BY <2>1, SeenGrows
<1>3. starts = StartsIn(s)
  BY DEF StartsIn, CandlesIn
<1>. HIDE DEF found, s, starts
<1>4. ASSUME Accepted(files)
      PROVE  /\ \A i \in DOMAIN files : \A r \in Range(files[i].lines) : InPlace(r, files[i])
             /\ AuditTells(found, s)
  BY <1>1, <1>4, FilesTold DEF found, s
<1>5. ASSUME Accepted(files) PROVE InOrder
  <2>1. IsInjective(ToldBy(TradesOf, s))
    BY <1>4, <1>5 DEF AuditTells, TradesTell
  <2>2. TradesUnique(s)
    BY <1>2, <2>1, TradesToldUnique
  <2>. QED BY <1>4, <1>5, <2>2 DEF AuditTells, ReceivedTell, BooksTell, RevisionsTell
<1>6. ASSUME Accepted(files), starts # {}
      PROVE  found.missing = Cardinality((Min(starts) .. Max(starts)) \ starts)
  <2>1. PositionTells(found.position, found.missing, s)
    BY <1>4, <1>6 DEF AuditTells
  <2>2. CandlesIn(s) # {}
    BY <1>3, <1>6 DEF StartsIn
  <2>. DEFINE hi == found.position.start
  <2>3. /\ found.position \in CandlesIn(s)
        /\ \E lo \in starts : /\ \A x \in starts : lo <= x /\ x <= hi
                              /\ found.missing = Cardinality((lo .. hi) \ starts)
    BY <1>3, <2>1, <2>2 DEF PositionTells
  <2>4. hi \in starts
    BY <1>3, <2>3 DEF StartsIn
  <2>5. \A x \in starts : x \in Int
    <3>1. Range(s) \subseteq Rows
      BY <1>2, LenProperties, ElementOfSeq DEF Range
    <3>. QED BY <1>3, <3>1, RowsAre DEF StartsIn, CandlesIn
  <2>. HIDE DEF hi
  <2>6. PICK lo \in starts : /\ \A x \in starts : lo <= x /\ x <= hi
                             /\ found.missing = Cardinality((lo .. hi) \ starts)
    BY <2>3
  <2>7. Least(starts, lo) /\ Greatest(starts, hi)
    BY <2>4, <2>5, <2>6 DEF Least, Greatest
  <2>8. Least(starts, Min(starts)) /\ Greatest(starts, Max(starts))
    BY <2>7 DEF Min, Max, Least, Greatest
  <2>9. Min(starts) = lo /\ Max(starts) = hi
    BY <2>5, <2>7, <2>8 DEF Least, Greatest
  <2>. QED BY <2>6, <2>9
<1>7. AcceptanceMeans(files) <=>
        (Accepted(files) => /\ \A i \in DOMAIN files : \A r \in Range(files[i].lines) : InPlace(r, files[i])
                            /\ InOrder
                            /\ starts # {} =>
                                 found.missing = Cardinality((Min(starts) .. Max(starts)) \ starts))
  BY DEF AcceptanceMeans, InPlace, s, found, starts
<1>8. Accepted(files) => RevisionsClear(s)
  BY <1>5
<1>. HIDE DEF InOrder
<1>. QED BY <1>4, <1>5, <1>6, <1>7, <1>8 DEF s

\* A build of records that fit their columns and whose revisions are clear never
\* refuses one (_CanonicalKlines.observe).
LEMMA ClearBuilds ==
  ASSUME NEW s \in Seq(Rows), RevisionsClear(s), \A r \in Range(s) : r.fits
  PROVE  ~ FoldLeft(Keep, EmptyBuild, s).failed
<1>. DEFINE n == Len(s)
<1>1. n \in Nat /\ DOMAIN s = 1 .. n /\ \A i \in 1 .. n : s[i] \in Rows /\ s[i].fits
  BY LenProperties, ElementOfSeq DEF Range
<1>2. PICK f \in [0 .. n -> Works] :
         /\ f[0] = EmptyBuild /\ FoldLeft(Keep, EmptyBuild, s) = f[n]
         /\ \A i \in 1 .. n : f[i] = Keep(f[i - 1], s[i])
  BY NothingKept, KeepRun DEF WorkTells
<1>. DEFINE T == {i \in 0 .. n : WorkTells(f[i], SubSeq(s, 1, i))}
<1>3. 0 \in T
  <2>1. WorkTells(f[0], SubSeq(s, 1, 0))
    BY <1>2, NothingKept, PrefixGrows
  <2>. QED BY <1>1, <2>1
<1>4. ASSUME NEW i \in 0 .. n - 1, i \in T PROVE i + 1 \in T
  <2>1. /\ i + 1 \in 1 .. n /\ (i + 1) - 1 = i /\ i + 1 \in 0 .. n /\ i \in 0 .. n
    BY <1>1
  <2>. DEFINE r == s[i + 1]
              a == SubSeq(s, 1, i)
              x == f[i]
  <2>2. r \in Rows /\ r.fits /\ x \in Works /\ f[i + 1] = Keep(x, r) /\ WorkTells(x, a)
    BY <1>1, <1>2, <1>4, <2>1
  <2>3. a \in Seq(Rows) /\ SubSeq(s, 1, i + 1) = Append(a, r)
    BY <2>1, PrefixGrows
  <2>4. ASSUME NEW k \in Range(a) PROVE \E j \in 1 .. i : s[j] = k
    <3>1. Len(a) = i /\ \A j \in 1 .. i : a[j] = s[j]
      BY <1>1, <2>1, SubSeqProperties
    <3>2. DOMAIN a = 1 .. i
      <4>. HIDE DEF a
      <4>. QED BY <2>3, <3>1, LenProperties
    <3>. HIDE DEF a
    <3>. QED BY <2>4, <3>1, <3>2 DEF Range
  <2>5. ASSUME IsCandle(r) PROVE ~ Ambiguous(x.klines, r)
    <3>1. ASSUME NEW k \in x.klines, k.start = r.start, k.received = r.received PROVE k.payload = r.payload
      <4>1. k \in Range(a) /\ IsCandle(k)
        <5>. HIDE DEF a, x
        <5>. QED BY <2>2, <3>1 DEF WorkTells, KlinesTell, CandlesIn
      <4>2. PICK j \in 1 .. i : s[j] = k
        BY <2>4, <4>1
      <4>3. i + 1 \in 1 .. n /\ j \in 1 .. (i + 1) - 1
        BY <2>1, <4>2
      <4>4. k.received < r.received \/ k.payload = r.payload
        BY <1>1, <2>5, <3>1, <4>1, <4>2, <4>3 DEF RevisionsClear, Earlier
      <4>5. r.received \in Int
        BY <2>2, <2>5, RowsAre
      <4>. QED BY <3>1, <4>4, <4>5
    <3>. QED BY <3>1 DEF Ambiguous, SameStart
  <2>. HIDE DEF r, a, x
  <2>6. x.failed = FALSE
    BY <2>2 DEF WorkTells
  <2>7. ~ Keep(x, r).failed
    <3>1. CASE IsCandle(r)
      <4>1. Keep(x, r).failed = (x.failed \/ ~ r.fits \/ Ambiguous(x.klines, r))
        BY <2>2, <3>1, KeepTyped
      <4>. QED BY <2>2, <2>5, <2>6, <3>1, <4>1
    <3>2. CASE ~ IsCandle(r)
      <4>1. Keep(x, r).failed = (x.failed \/ ~ r.fits)
        BY <2>2, <3>2, KeepTyped
      <4>. QED BY <2>2, <2>6, <4>1
    <3>. QED BY <3>1, <3>2
  <2>8. WorkTells(f[i + 1], SubSeq(s, 1, i + 1))
    BY <2>2, <2>3, <2>7, KeepTells
  <2>. QED BY <2>1, <2>8
<1>5. \A i \in 0 .. n : i \in T
  <2>1. \A i \in 0 .. n - 1 : i \in T => i + 1 \in T
    BY <1>4
  <2>. HIDE DEF T, n
  <2>. QED BY <1>1, <1>3, <2>1, UpTo
<1>6. n \in T
  <2>1. n \in 0 .. n
    BY <1>1
  <2>. HIDE DEF T
  <2>. QED BY <1>5, <2>1
<1>7. f[n].failed = FALSE
  BY <1>6 DEF WorkTells
<1>. QED BY <1>2, <1>7

\* An audit that is accepted means what it should, and can be built, whatever its
\* files are, but for a field that only the build looks at.
LEMMA AcceptedAreBuilt ==
  ASSUME NEW files \in Audits
  PROVE  AcceptanceMeans(files) /\ AcceptedBuilds(files)
<1>1. Records(files) \in Seq(Rows)
  <2>1. Len(files) \in 0 .. Len(files)
    BY SeenGrows
  <2>. QED BY <2>1, SeenGrows
<1>. QED BY <1>1, AcceptanceHolds, ClearBuilds DEF AcceptedBuilds

\* What an audit accepts is in place, in order and without contradictions, and the
\* canonical dataset can be built of it unless a field that only the build looks at
\* does not fit, for all audits (audit_dataset, assess_archive_payload,
\* build_canonical_dataset).
THEOREM AcceptedAuditsHold == CanonicalSpec => [](AcceptanceMeans(audited) /\ AcceptedBuilds(audited))
<1>1. CanonicalInv => AcceptanceMeans(audited) /\ AcceptedBuilds(audited)
  BY AcceptedAreBuilt DEF CanonicalInv
<1>. QED BY <1>1, CanonicalStarts, CanonicalKept, PTL DEF CanonicalSpec

-----------------------------------------------------------------------------
(* The systems of MCPipeline.  Each keeps its invariant while it runs, and the others
   leave its variables alone. *)

Idle == dataset = None

\* An order as ChooseSystem gives one.
Ordering(o) ==
  \E side \in {"LONG", "SHORT"}, change \in {3, 5}, n \in 0 .. 2 :
     \E trades \in [1 .. n -> OrderTrades(side)] : o = Order(side, change, trades)

PipelineInv ==
  /\ BookInv
  /\ system = "canonical" => CanonicalInv
  /\ system # "canonical" => Idle
  /\ system = "splits" => input \in LabelEnds
  /\ system = "backtest" => input \in Predictions
  /\ system = "labels" => Ordering(input)
  /\ system = "features" => input \in Markets
  /\ system = "bars" => \E n \in 0 .. 3 : input \in [1 .. n -> SomeTrades]
  /\ system = "price" => input \in Ranges

\* Each system starts as its own first states say (ChooseSystem).
LEMMA PipelineStarts == PipelineInit => PipelineInv
<1>. SUFFICES ASSUME PipelineInit PROVE PipelineInv
  OBVIOUS
<1>1. BookInv
  BY BookInit DEF PipelineInit
<1>2. system = "canonical" => CanonicalInv
  BY CanonicalStarts DEF PipelineInit
<1>3. system # "canonical" => Idle
  BY DEF PipelineInit, NothingAudited, Idle
<1>4. system = "splits" => input \in LabelEnds
  BY DEF PipelineInit, ChooseSystem, Components
<1>5. system = "backtest" => input \in Predictions
  BY DEF PipelineInit, ChooseSystem, Components
<1>6. system = "labels" => Ordering(input)
  BY DEF PipelineInit, ChooseSystem, Components, Ordering
<1>7. system = "features" => input \in Markets
  BY DEF PipelineInit, ChooseSystem, Components
<1>8. system = "bars" => \E n \in 0 .. 3 : input \in [1 .. n -> SomeTrades]
  BY DEF PipelineInit, ChooseSystem, Components
<1>9. system = "price" => input \in Ranges
  BY DEF PipelineInit, ChooseSystem, Components
<1>. QED BY <1>1, <1>2, <1>3, <1>4, <1>5, <1>6, <1>7, <1>8, <1>9 DEF PipelineInv

\* A step is one of the system that was chosen.
LEMMA PipelineKept == PipelineInv /\ [PipelineNext]_pipelineVars => PipelineInv'
<1>. SUFFICES ASSUME PipelineInv, [PipelineNext]_pipelineVars PROVE PipelineInv'
  OBVIOUS
<1>1. system' = system /\ input' = input
  BY DEF PipelineNext, Answered, BookStep, HistoryStep, CanonicalStep, ArtifactsStep, pipelineVars
<1>2. BookInv'
  <2>1. [Next]_vars
    BY DEF PipelineNext, Answered, BookStep, HistoryStep, CanonicalStep, ArtifactsStep, pipelineVars
  <2>. QED BY <2>1, StepNext DEF PipelineInv
<1>3. (system = "canonical" => CanonicalInv') /\ (system # "canonical" => Idle')
  <2>1. (system = "canonical" /\ CanonicalNext) \/ UNCHANGED canonicalVars
    BY DEF PipelineNext, Answered, BookStep, HistoryStep, CanonicalStep, ArtifactsStep, pipelineVars
  <2>2. dataset' = dataset \/ system = "canonical"
    BY <2>1 DEF canonicalVars
  <2>. QED BY <2>1, <2>2, CanonicalKept DEF PipelineInv, Idle
<1>. QED BY <1>1, <1>2, <1>3 DEF PipelineInv

\* Whatever runs, the order book and its connection keep to their values.
THEOREM PipelineBookTyped == PipelineSpec => []BookTypeOK
<1>1. PipelineInv => BookTypeOK
  BY BookInvTyped DEF PipelineInv, BookTypeOK
<1>. QED BY <1>1, PipelineStarts, PipelineKept, PTL DEF PipelineSpec

\* Whatever runs, a dataset that is there holds what the audit lists.
THEOREM PipelineDataset == PipelineSpec => []DatasetFaithful
<1>1. PipelineInv => DatasetFaithful
  BY WholeIsFaithful DEF PipelineInv, CanonicalInv, Idle, DatasetFaithful
<1>. QED BY <1>1, PipelineStarts, PipelineKept, PTL DEF PipelineSpec

\* A row for each element of a finite set makes a finite set.
LEMMA ImageFinite ==
  ASSUME NEW D, IsFiniteSet(D), NEW g, g = [d \in D |-> g[d]]
  PROVE  IsFiniteSet({g[d] : d \in D})
<1>. DEFINE T == {g[d] : d \in D}
<1>1. g \in [D -> T] /\ \A x \in T : \E d \in D : g[d] = x
  OBVIOUS
<1>. HIDE DEF T
<1>2. g \in Surjection(D, T)
  BY <1>1 DEF Surjection
<1>3. IsFiniteSet(T)
  BY <1>2, FS_Surjection
<1>. QED BY <1>3 DEF T

\* The rows of decisions with labels are finitely many and dated.
LEMMA LabelledDated ==
  ASSUME NEW f \in LabelEnds
  PROVE  Dated(Labelled(f))
<1>. DEFINE D == {d \in DOMAIN f : f[d] # 0}
            g == [d \in D |-> [decision |-> d, end |-> d + f[d], class |-> "SL"]]
            h == [d \in D |-> [decision |-> d, end |-> d + 1, class |-> "TP"]]
<1>1. DOMAIN f = 0 .. 6 \/ DOMAIN f = 0 .. 11
  BY DEF LabelEnds
<1>2. \A d \in DOMAIN f : f[d] \in Nat /\ d \in Nat
  BY <1>1 DEF LabelEnds
<1>3. IsFiniteSet(D)
  <2>1. \A last \in Int : IsFiniteSet(0 .. last)
    BY FS_Interval
  <2>2. PICK last \in Int : DOMAIN f = 0 .. last
    <3>1. 6 \in Int /\ 11 \in Int
      OBVIOUS
    <3>. QED BY <1>1, <3>1
  <2>3. IsFiniteSet(DOMAIN f)
    BY <2>1, <2>2
  <2>4. D \subseteq DOMAIN f
    OBVIOUS
  <2>. HIDE DEF D
  <2>. QED BY <2>3, <2>4, FS_Subset
<1>4. Labelled(f) = {g[d] : d \in D} \cup {h[d] : d \in D}
  BY DEF Labelled
<1>5. \A d \in D : /\ g[d].decision = d /\ g[d].end = d + f[d] /\ h[d].decision = d /\ h[d].end = d + 1
                   /\ d \in Nat /\ f[d] \in Nat
  BY <1>2
<1>6. g = [d \in D |-> g[d]] /\ h = [d \in D |-> h[d]]
  OBVIOUS
<1>. HIDE DEF D, g, h
<1>7. IsFiniteSet({g[d] : d \in D}) /\ IsFiniteSet({h[d] : d \in D})
  BY <1>3, <1>6, ImageFinite
<1>8. IsFiniteSet(Labelled(f))
  BY <1>4, <1>7, FS_Union
<1>9. \A r \in Labelled(f) : r.decision \in Nat /\ r.end \in Nat
  BY <1>4, <1>5
<1>. QED BY <1>8, <1>9 DEF Dated

\* No row that a model learns from had a label that was not yet known: what holds of
\* the splits of any rows holds of those that MCPipeline chooses.
THEOREM PipelineSplits == PipelineSpec => []NothingLeaks
<1>1. PipelineInv => NothingLeaks
  BY LabelledDated, SplitsPurged DEF PipelineInv, NothingLeaks, Result
<1>. QED BY <1>1, PipelineStarts, PipelineKept, PTL DEF PipelineSpec

\* The candidates of one decision, as the replay expects them.
LEMMA GroupsReplayed ==
  ASSUME NEW d \in Nat, NEW i \in 1 .. 7, NEW S, S = Groups(d)[i]
  PROVE  /\ IsFiniteSet(S)
         /\ \A r \in S : /\ r.decision = d /\ r.expected \in Int /\ r.return \in Int
                         /\ r.symbol = 1 /\ r.side \in {"LONG", "SHORT"} /\ ExitOf(r) \in Int /\ ExitOf(r) > d
         /\ \A r, o \in S : r.side = o.side => r = o
<1>. DEFINE Apt(r) == /\ r.decision = d /\ r.expected \in Int /\ r.return \in Int
                        /\ r.symbol = 1 /\ r.side \in {"LONG", "SHORT"} /\ ExitOf(r) \in Int /\ ExitOf(r) > d
<1>1. ASSUME NEW side \in {"LONG", "SHORT"}, NEW expected \in Int, NEW return \in Int,
             NEW status, NEW hit \in {-1, d + 1, d + 2}
      PROVE  LET r == Candidate(d, side, expected, status, hit, return) IN Apt(r) /\ r.side = side
  BY DEF Candidate, ExitOf
<1>2. \A r : IsFiniteSet({r})
  BY FS_Singleton
<1>3. ASSUME NEW r, NEW o PROVE IsFiniteSet({r, o})
  <2>. DEFINE A == {r}
  <2>1. {r, o} = A \cup {o} /\ IsFiniteSet(A)
    BY <1>2
  <2>. HIDE DEF A
  <2>2. IsFiniteSet(A \cup {o})
    BY <2>1, FS_AddElement
  <2>. QED BY <2>1, <2>2
<1>4. CASE i = 1
  <2>1. S = {}
    BY <1>4 DEF Groups
  <2>. QED BY <2>1, FS_EmptySet
<1>5. CASE i \in 2 .. 5
  <2>1. PICK r : S = {r} /\ Apt(r)
    <3>1. CASE i = 2
      <4>1. S = {Candidate(d, "LONG", 2, "FULL_FILL", d + 1, -1)}
        BY <3>1 DEF Groups
      <4>. QED BY <1>1, <4>1
    <3>2. CASE i = 3
      <4>1. S = {Candidate(d, "LONG", 2, "FULL_FILL", -1, 1)}
        BY <3>2 DEF Groups
      <4>. QED BY <1>1, <4>1
    <3>3. CASE i = 4
      <4>1. S = {Candidate(d, "LONG", 2, "NO_FILL", -1, 1)}
        BY <3>3 DEF Groups
      <4>. QED BY <1>1, <4>1
    <3>4. CASE i = 5
      <4>1. S = {Candidate(d, "LONG", 0, "FULL_FILL", d + 1, -1)}
        BY <3>4 DEF Groups
      <4>. QED BY <1>1, <4>1
    <3>. QED BY <1>5, <3>1, <3>2, <3>3, <3>4
  <2>. HIDE DEF Apt
  <2>2. IsFiniteSet(S) /\ (\A x \in S : Apt(x)) /\ \A x, o \in S : x = o
    BY <1>2, <2>1
  <2>. QED BY <2>2 DEF Apt
<1>6. CASE i \in 6 .. 7
  <2>1. PICK r, o : S = {r, o} /\ Apt(r) /\ Apt(o) /\ r.side = "LONG" /\ o.side = "SHORT"
    <3>1. CASE i = 6
      <4>1. S = {Candidate(d, "LONG", 2, "PARTIAL_FILL", -1, -1), Candidate(d, "SHORT", 2, "FULL_FILL", d + 2, 1)}
        BY <3>1 DEF Groups
      <4>. QED BY <1>1, <4>1
    <3>2. CASE i = 7
      <4>1. S = {Candidate(d, "LONG", 1, "FULL_FILL", d + 1, 1), Candidate(d, "SHORT", 2, "FULL_FILL", d + 1, -1)}
        BY <3>2 DEF Groups
      <4>. QED BY <1>1, <4>1
    <3>. QED BY <1>6, <3>1, <3>2
  <2>. HIDE DEF Apt
  <2>2. IsFiniteSet(S) /\ (\A x \in S : Apt(x)) /\ \A x, y \in S : x.side = y.side => x = y
    BY <1>3, <2>1
  <2>. QED BY <2>2 DEF Apt
<1>. QED BY <1>4, <1>5, <1>6

\* The rows of up to five decisions are predicted as the replay expects them.
LEMMA PredictedReplayed ==
  ASSUME NEW f \in Predictions
  PROVE  Replayed(Predicted(f))
<1>. DEFINE g(d) == Groups(d)[f[d]]
            Ds == {0, 1, 2, 4, 5}
            rows == Predicted(f)
<1>1. \A d \in Ds : d \in Nat /\ f[d] \in 1 .. 7
  BY DEF Predictions
<1>2. ASSUME NEW d \in Ds
      PROVE  /\ IsFiniteSet(g(d))
             /\ \A r \in g(d) : /\ r.decision = d /\ r.expected \in Int /\ r.return \in Int
                                /\ r.symbol = 1 /\ r.side \in {"LONG", "SHORT"}
                                /\ ExitOf(r) \in Int /\ ExitOf(r) > d
             /\ \A r, o \in g(d) : r.side = o.side => r = o
  BY <1>1, GroupsReplayed
<1>3. DOMAIN f = Ds
  BY DEF Predictions
<1>4. \A r : r \in rows <=> \E d \in Ds : r \in g(d)
  BY <1>3 DEF Predicted
<1>. HIDE DEF g, rows
<1>5. IsFiniteSet(rows)
  <2>1. rows = (((g(0) \cup g(1)) \cup g(2)) \cup g(4)) \cup g(5)
    BY <1>4
  <2>2. IsFiniteSet(g(0)) /\ IsFiniteSet(g(1)) /\ IsFiniteSet(g(2)) /\ IsFiniteSet(g(4)) /\ IsFiniteSet(g(5))
    BY <1>2
  <2>3. IsFiniteSet((g(0) \cup g(1)) \cup g(2))
    BY <2>2, FS_Union
  <2>. QED BY <2>1, <2>2, <2>3, FS_Union
<1>6. ASSUME NEW r \in rows
      PROVE  /\ r.decision \in Nat /\ r.expected \in Int /\ r.return \in Int
             /\ r.symbol \in Int /\ r.side \in {"LONG", "SHORT"}
             /\ ExitOf(r) \in Int /\ ExitOf(r) > r.decision
  <2>1. PICK d \in Ds : r \in g(d)
    BY <1>4
  <2>. QED BY <1>1, <1>2, <2>1
<1>7. ASSUME NEW r \in rows, NEW o \in rows, r.decision = o.decision, r.side = o.side PROVE r = o
  <2>1. PICK d \in Ds : r \in g(d)
    BY <1>4
  <2>2. PICK e \in Ds : o \in g(e)
    BY <1>4
  <2>3. d = e
    BY <1>2, <1>7, <2>1, <2>2
  <2>. QED BY <1>2, <1>7, <2>1, <2>2, <2>3
<1>8. Replayed(rows)
  BY <1>5, <1>6, <1>7 DEF Replayed
<1>. QED BY <1>8 DEF rows

\* The report of every replay that answers can be told from its rows.
THEOREM PipelineBacktests == PipelineSpec => []BacktestTrue
<1>1. PipelineInv => BacktestTrue
  BY PredictedReplayed, ReplayHonest DEF PipelineInv, BacktestTrue, Result
<1>. QED BY <1>1, PipelineStarts, PipelineKept, PTL DEF PipelineSpec

\* Whatever runs, an accepted audit means what it says and can be built.
THEOREM PipelineAcceptance == PipelineSpec => []AcceptanceHonest
<1>1. PipelineInv => AcceptanceHonest
  BY AcceptedAreBuilt DEF PipelineInv, CanonicalInv, AcceptanceHonest
<1>. QED BY <1>1, PipelineStarts, PipelineKept, PTL DEF PipelineSpec

\* The orders of the run are orders in markets as they are read.
LEMMA OrdersRead ==
  ASSUME NEW o, Ordering(o)
  PROVE  MarketRead(o.market, 2) /\ o.side \in {"LONG", "SHORT"}
<1>1. PICK side \in {"LONG", "SHORT"}, change \in {3, 5}, n \in 0 .. 2 :
         \E trades \in [1 .. n -> OrderTrades(side)] : o = Order(side, change, trades)
  BY DEF Ordering
<1>2. PICK trades \in [1 .. n -> OrderTrades(side)] : o = Order(side, change, trades)
  BY <1>1
<1>. DEFINE books == OrderBooks(side, change)
            all == Append(trades, ClosingTrade)
            Printed == {t \in OrderTrades(side) \cup {ClosingTrade} : TRUE}
<1>3. o.side = side /\ o.market.books = books /\ o.market.trades = all
  BY <1>2 DEF Order
<1>4. \A t \in Printed : t.at \in Int /\ t.order \in Int /\ t.price \in Int /\ t.size \in Nat
  <2>1. \A k \in SomeKinds : k[1] \in Int /\ k[2] \in Nat
    <3>1. SUFFICES ASSUME NEW k \in SomeKinds PROVE k[1] \in Int /\ k[2] \in Nat
      OBVIOUS
    <3>2. CASE k = <<2, 1, FALSE, TRUE>>
      BY <3>2
    <3>3. CASE k = <<2, 2, FALSE, TRUE>>
      BY <3>3
    <3>4. CASE k = <<1, 1, FALSE, TRUE>>
      BY <3>4
    <3>5. CASE k = <<0, 1, FALSE, TRUE>>
      BY <3>5
    <3>6. CASE k = <<3, 1, TRUE, TRUE>>
      BY <3>6
    <3>7. CASE k = <<0, 1, FALSE, FALSE>>
      BY <3>7
    <3>. QED BY <3>2, <3>3, <3>4, <3>5, <3>6, <3>7 DEF SomeKinds
  <2>2. \A k \in SomeKinds : Mirrored(side, k[1]) \in Int
    BY <2>1 DEF Mirrored
  <2>. QED BY <2>1, <2>2 DEF OrderTrades, ClosingTrade
<1>5. all \in Seq(Printed)
  <2>1. trades \in Seq(Printed) /\ ClosingTrade \in Printed
    BY SeqDef
  <2>. HIDE DEF Printed
  <2>. QED BY <2>1, AppendProperties
<1>. HIDE DEF Printed, all
<1>6. Ticks(all)
  <2>1. Len(all) \in Nat /\ DOMAIN all = 1 .. Len(all) /\ \A i \in 1 .. Len(all) : all[i] \in Printed
    BY <1>5, LenProperties, ElementOfSeq
  <2>2. \A t \in Range(all) : t \in Printed
    BY <2>1 DEF Range
  <2>3. all \in Seq(Range(all))
    <3>1. \A i \in 1 .. Len(all) : all[i] \in Range(all)
      BY <2>1 DEF Range
    <3>2. all \in [1 .. Len(all) -> Printed]
      BY <1>5, LenProperties
    <3>3. all \in [1 .. Len(all) -> Range(all)]
      BY <3>1, <3>2
    <3>. QED BY <2>1, <3>3, SeqDef
  <2>. QED BY <1>4, <2>2, <2>3 DEF Ticks
<1>7. /\ DOMAIN books = 1 .. 5 /\ books = [k \in 1 .. 5 |-> books[k]]
      /\ \A k \in 1 .. 5 : /\ books[k].at = 2 * k - 1
                           /\ books[k].sizes = [p \in 0 .. 4 |-> 1]
  BY DEF OrderBooks
<1>. HIDE DEF books
<1>8. BooksRead(books)
  <2>1. books \in Seq(Range(books))
    <3>1. books \in [1 .. 5 -> Range(books)]
      BY <1>7 DEF Range
    <3>. QED BY <3>1, SeqDef
  <2>2. \A b \in Range(books) : b.at \in Int
    BY <1>7 DEF Range
  <2>3. \A m, k \in 1 .. 5 : m < k => books[m].at < books[k].at /\ books[m].at \in Int /\ books[k].at \in Int
    BY <1>7
  <2>. QED BY <1>7, <2>1, <2>2, <2>3 DEF BooksRead
<1>9. \A b \in Range(books) : b.sizes[2] \in Nat
  BY <1>7 DEF Range
<1>. QED BY <1>3, <1>6, <1>8, <1>9 DEF MarketRead

\* The labels of the run's orders say what the trades say.
THEOREM PipelineLabels == PipelineSpec => []LabelsHonest
<1>1. PipelineInv => LabelsHonest
  <2>1. ASSUME PipelineInv, system = "labels" PROVE LabelHonest(input.market, 0, input.side, 2, {1, 2})
    <3>1. MarketRead(input.market, 2) /\ input.side \in {"LONG", "SHORT"}
      BY <2>1, OrdersRead DEF PipelineInv
    <3>2. 0 \in Int /\ 2 \in Int /\ {1, 2} \in SUBSET (Nat \ {0})
      OBVIOUS
    <3>. QED BY <3>1, <3>2, LabelsTold
  <2>. QED BY <2>1 DEF LabelsHonest, Result
<1>. QED BY <1>1, PipelineStarts, PipelineKept, PTL DEF PipelineSpec

\* Rows of a stream that is recorded, at least one.
Flowing(rows) == Streamed(rows) /\ InReceipt(rows) /\ Received(rows) # {}

\* A part of such a stream is one, if something is in it.
LEMMA PartFlows ==
  ASSUME NEW rows, Streamed(rows), InReceipt(rows), NEW times, NEW t \in Received(rows), t \in times
  PROVE  Flowing(Within(rows, times))
<1>. DEFINE f == Within(rows, times)
            n == Len(rows)
<1>1. rows \in Seq(Range(rows)) /\ \A r \in Range(rows) : r.at \in Nat
  BY DEF Streamed
<1>2. PICK q : Picks(q, f, rows, times, Len(rows))
  BY <1>1, WithinPicks
<1>3. /\ f \in Seq(Range(rows)) /\ q \in [1 .. Len(f) -> 1 .. n]
      /\ \A k \in 1 .. Len(f) : f[k] = rows[q[k]]
      /\ \A j, k \in 1 .. Len(f) : j < k => q[j] < q[k]
  BY <1>2 DEF Picks
<1>4. Streamed(f) /\ Received(f) = Received(rows) \cap times
  BY WithinStream, ReceivedWithin
<1>. HIDE DEF f, n
<1>5. DOMAIN f = 1 .. Len(f) /\ DOMAIN rows = 1 .. n
  BY <1>1, <1>3, LenProperties DEF n
<1>6. InReceipt(f)
  BY <1>3, <1>5 DEF InReceipt
<1>7. Received(f) # {}
  BY <1>4
<1>. QED BY <1>4, <1>6, <1>7 DEF Flowing, f

\* The books of the run are streams.
LEMMA BooksFlow ==
  ASSUME NEW change
  PROVE  Flowing(Books(change)) /\ {5, 11} \subseteq Received(Books(change))
<1>. DEFINE books == Books(change)
<1>1. DOMAIN books = 1 .. 18 /\ books = [n \in 1 .. 18 |-> books[n]]
  BY DEF Books
<1>2. \A n \in 1 .. 18 : books[n].at = 2 * n - 1
  BY DEF Books
<1>. HIDE DEF books
<1>3. Streamed(books)
  <2>1. books \in [1 .. 18 -> Range(books)]
    BY <1>1 DEF Range
  <2>2. \A r \in Range(books) : r.at \in Nat
    BY <1>1, <1>2 DEF Range
  <2>. QED BY <2>1, <2>2, SeqDef DEF Streamed
<1>4. InReceipt(books)
  BY <1>1, <1>2 DEF InReceipt
<1>5. {5, 11} \subseteq Received(books)
  <2>1. books[3].at = 5 /\ books[6].at = 11 /\ 3 \in DOMAIN books /\ 6 \in DOMAIN books
    BY <1>1, <1>2
  <2>. QED BY <2>1 DEF Received
<1>. QED BY <1>3, <1>4, <1>5 DEF Flowing, books

\* The same with holes.
LEMMA SomeBooksFlow == \A books \in SomeBooks : Flowing(books)
<1>1. \A change : Streamed(Books(change)) /\ InReceipt(Books(change))
                  /\ 5 \in Received(Books(change)) /\ 11 \in Received(Books(change))
  BY BooksFlow DEF Flowing
<1>2. Flowing(Books(36)) /\ Flowing(Books(11))
  BY BooksFlow
<1>3. Flowing(Within(Books(36), (0 .. 36) \ {13}))
  <2>1. 11 \in (0 .. 36) \ {13}
    OBVIOUS
  <2>. QED BY <1>1, <2>1, PartFlows
<1>4. Flowing(Within(Books(36), 9 .. 36))
  <2>1. 11 \in 9 .. 36
    OBVIOUS
  <2>. QED BY <1>1, <2>1, PartFlows
<1>5. Flowing(Within(Books(36), (0 .. 36) \ 8 .. 30))
  <2>1. 5 \in (0 .. 36) \ 8 .. 30
    OBVIOUS
  <2>. QED BY <1>1, <2>1, PartFlows
<1>. QED BY <1>2, <1>3, <1>4, <1>5 DEF SomeBooks

\* Trades of the run are trades as they are read.
Printed(trades) ==
  Streamed(trades) /\ Ticks(trades) /\ Range(trades) \subseteq TradeValues /\ Received(trades) # {}

\* A few trades are.
LEMMA FewPrinted ==
  ASSUME NEW trades, NEW n \in Nat \ {0}, trades \in [1 .. n -> TradeValues],
         \A k \in 1 .. n : trades[k].at \in Nat /\ trades[k].size \in Nat
  PROVE  Printed(trades)
<1>1. DOMAIN trades = 1 .. n /\ 1 \in 1 .. n
  OBVIOUS
<1>2. trades \in Seq(Range(trades))
  <2>1. trades \in [1 .. n -> Range(trades)]
    BY <1>1 DEF Range
  <2>. QED BY <2>1, SeqDef
<1>3. \A t \in Range(trades) : t \in TradeValues /\ t.at \in Nat /\ t.size \in Nat
  BY <1>1 DEF Range
<1>4. \A t \in Range(trades) : t.at \in Int /\ t.order \in Int /\ t.price \in Int
  BY <1>3 DEF TradeValues
<1>5. Received(trades) # {}
  BY <1>1 DEF Received
<1>. QED BY <1>2, <1>3, <1>4, <1>5 DEF Printed, Streamed, Ticks

\* All trades of the run.
LEMMA AllPrinted == Printed(AllTrades) /\ 30 \in Received(AllTrades)
<1>1. \A t, p \in Nat : Traded(t, p) \in TradeValues /\ Traded(t, p).at = t /\ Traded(t, p).size = 1
  BY DEF Traded, TradeValues
<1>2. /\ AllTrades[1] = Traded(0, 2) /\ AllTrades[2] = Traded(5, 2) /\ AllTrades[3] = Traded(13, 3)
      /\ AllTrades[4] = Traded(14, 3) /\ AllTrades[5] = Traded(15, 0) /\ AllTrades[6] = Traded(30, 2)
      /\ DOMAIN AllTrades = 1 .. 6 /\ AllTrades = [k \in 1 .. 6 |-> AllTrades[k]]
  BY DEF AllTrades
<1>3. \A k \in 1 .. 6 : AllTrades[k] \in TradeValues /\ AllTrades[k].at \in Nat /\ AllTrades[k].size \in Nat
  <2>1. \A k \in 1 .. 6 : k = 1 \/ k = 2 \/ k = 3 \/ k = 4 \/ k = 5 \/ k = 6
    OBVIOUS
  <2>. DEFINE Read(r) == r \in TradeValues /\ r.at \in Nat /\ r.size \in Nat
  <2>2. \A s, p \in Nat : Read(Traded(s, p))
    BY <1>1
  <2>3. 5 \in Nat /\ 13 \in Nat /\ 14 \in Nat /\ 15 \in Nat /\ 30 \in Nat /\ 2 \in Nat /\ 3 \in Nat /\ 0 \in Nat
    OBVIOUS
  <2>. HIDE DEF Read
  <2>4. /\ Read(AllTrades[1]) /\ Read(AllTrades[2]) /\ Read(AllTrades[3])
        /\ Read(AllTrades[4]) /\ Read(AllTrades[5]) /\ Read(AllTrades[6])
    BY <1>2, <2>2, <2>3
  <2>5. \A k \in 1 .. 6 : Read(AllTrades[k])
    BY <2>1, <2>4
  <2>. QED BY <2>5 DEF Read
<1>4. AllTrades \in [1 .. 6 -> TradeValues]
  BY <1>2, <1>3
<1>5. Printed(AllTrades)
  <2>1. 6 \in Nat \ {0}
    OBVIOUS
  <2>. QED BY <1>3, <1>4, <2>1, FewPrinted
<1>6. 30 \in Received(AllTrades)
  <2>1. AllTrades[6].at = 30 /\ 6 \in DOMAIN AllTrades
    BY <1>1, <1>2
  <2>. QED BY <2>1 DEF Received
<1>. QED BY <1>5, <1>6

\* Some of them.
LEMMA SomeTapesPrinted == \A trades \in SomeTapes : Printed(trades)
<1>1. SUFFICES ASSUME NEW times, 30 \in times PROVE Printed(Within(AllTrades, times))
  <2>1. ASSUME NEW T PROVE 30 \in {30} \cup T
    OBVIOUS
  <2>. QED BY <2>1 DEF SomeTapes
<1>. DEFINE f == Within(AllTrades, times)
<1>2. Streamed(AllTrades) /\ Ticks(AllTrades) /\ Range(AllTrades) \subseteq TradeValues
  BY AllPrinted DEF Printed
<1>3. /\ Range(f) = {r \in Range(AllTrades) : r.at \in times} /\ Streamed(f)
      /\ Received(f) = Received(AllTrades) \cap times
  BY <1>2, WithinStream, ReceivedWithin
<1>. HIDE DEF f
<1>4. Received(f) # {}
  BY <1>1, <1>3, AllPrinted
<1>5. Ticks(f)
  BY <1>2, <1>3 DEF Ticks, Streamed
<1>. QED BY <1>2, <1>3, <1>4, <1>5 DEF Printed, f

\* Candles that are in time, one of a minute.
Timely(candles) ==
  /\ IsFiniteSet(candles) /\ candles \subseteq CandleValues
  /\ \A c \in candles :
       /\ c.start \in Nat
       /\ c.at \in (c.start + 1) * MinuteTicks .. c.start * MinuteTicks + DayTicks
       /\ \A e \in candles : e.start = c.start => e = c

\* A candle that comes at its minute's end, or one gap later, is in time.
LEMMA CandlesTimely ==
  ASSUME NEW S, IsFiniteSet(S), S \subseteq Nat, NEW T, IsFiniteSet(T), T \subseteq Nat, S \cap T = {}
  PROVE  Timely(OnTime(S) \cup Late(T))
<1>1. MinuteTicks \in Nat \ {0} /\ Gap \in Nat
  BY LabelsAssumption
<1>2. DayTicks \in Nat /\ MinuteTicks + Gap <= DayTicks
  <2>1. HistoryMinutes \in Nat /\ Delay \in Nat /\ DayTicks \in Nat
    BY FeaturesAssumption
  <2>2. 1 * MinuteTicks <= (HistoryMinutes + 1) * MinuteTicks /\ (HistoryMinutes + 1) * MinuteTicks \in Int
    BY <1>1, <2>1, Multiples
  <2>3. (HistoryMinutes + 1) * MinuteTicks + Gap + Delay <= DayTicks
    BY FeaturesAssumption
  <2>. QED BY <1>1, <2>1, <2>2, <2>3
<1>3. \A j \in Nat : /\ (j + 1) * MinuteTicks = j * MinuteTicks + MinuteTicks /\ j * MinuteTicks \in Int
                     /\ MinuteTicks * (j + 1) = (j + 1) * MinuteTicks
  <2>1. ASSUME NEW j \in Nat
        PROVE  /\ (j + 1) * MinuteTicks = j * MinuteTicks + MinuteTicks /\ j * MinuteTicks \in Int
               /\ MinuteTicks * (j + 1) = (j + 1) * MinuteTicks
    BY <1>1
  <2>. QED BY <2>1
<1>. DEFINE Close(j) == (j + 1) * MinuteTicks
            First(j) == [start |-> j, at |-> Close(j)]
            Second(j) == [start |-> j, at |-> Close(j) + Gap]
<1>4. OnTime(S) = {First(j) : j \in S} /\ Late(T) = {Second(j) : j \in T}
  BY <1>3 DEF OnTime, Late
<1>5. \A j \in Nat : /\ Close(j) \in Int /\ Close(j) <= j * MinuteTicks + DayTicks
                     /\ Close(j) + Gap \in Int /\ Close(j) + Gap <= j * MinuteTicks + DayTicks
                     /\ Close(j) <= Close(j) + Gap /\ j * MinuteTicks + DayTicks \in Int
  BY <1>1, <1>2, <1>3
<1>. HIDE DEF Close
<1>6. IsFiniteSet(OnTime(S) \cup Late(T))
  <2>1. IsFiniteSet({First(j) : j \in S}) /\ IsFiniteSet({Second(j) : j \in T})
    <3>. DEFINE f == [j \in S |-> First(j)]
                g == [j \in T |-> Second(j)]
    <3>1. f \in Surjection(S, {First(j) : j \in S}) /\ g \in Surjection(T, {Second(j) : j \in T})
      BY DEF Surjection
    <3>. HIDE DEF f, g, First, Second
    <3>. QED BY <3>1, FS_Surjection
  <2>. QED BY <1>4, <2>1, FS_Union
<1>. DEFINE all == OnTime(S) \cup Late(T)
<1>7. ASSUME NEW c \in all
      PROVE  /\ c \in CandleValues /\ c.start \in Nat
             /\ c.at \in Close(c.start) .. c.start * MinuteTicks + DayTicks
             /\ (c = First(c.start) /\ c.start \in S) \/ (c = Second(c.start) /\ c.start \in T)
  BY <1>4, <1>5, <1>7 DEF CandleValues
<1>8. ASSUME NEW c \in all, NEW e \in all, e.start = c.start PROVE e = c
  BY <1>7, <1>8
<1>. QED BY <1>6, <1>7, <1>8 DEF Timely, Close

\* The candles of the run are in time.
LEMMA SomeCandlesTimely == \A candles \in SomeCandles : Timely(candles)
<1>. DEFINE base == (0 .. 8) \ {2, 3}
<1>1. IsFiniteSet(base) /\ base \subseteq Nat /\ 2 \notin base /\ 3 \notin base
  <2>1. 0 \in Int /\ 8 \in Int
    OBVIOUS
  <2>2. IsFiniteSet(0 .. 8)
    BY <2>1, FS_Interval
  <2>. QED BY <2>2, FS_Subset
<1>. HIDE DEF base
<1>2. \A A, B : IsFiniteSet(base \cup A) /\ IsFiniteSet(B) /\ A \subseteq {2, 3} /\ B \subseteq {2, 3}
                /\ A \cap B = {} => Timely(OnTime(base \cup A) \cup Late(B))
  <2>1. ASSUME NEW A, NEW B, IsFiniteSet(base \cup A), IsFiniteSet(B), A \subseteq {2, 3},
               B \subseteq {2, 3}, A \cap B = {}
        PROVE  Timely(OnTime(base \cup A) \cup Late(B))
    <3>1. base \cup A \subseteq Nat /\ B \subseteq Nat /\ (base \cup A) \cap B = {}
      BY <1>1, <2>1
    <3>. QED BY <2>1, <3>1, CandlesTimely
  <2>. QED BY <2>1
<1>3. \A A : A \in SUBSET {2, 3} => IsFiniteSet(A) /\ IsFiniteSet(base \cup A)
  <2>1. IsFiniteSet({2, 3})
    <3>1. 2 \in Int /\ 3 \in Int /\ 2 .. 3 = {2, 3}
      OBVIOUS
    <3>2. IsFiniteSet(2 .. 3)
      BY <3>1, FS_Interval
    <3>. QED BY <3>1, <3>2
  <2>2. \A A \in SUBSET {2, 3} : IsFiniteSet(A)
    BY <2>1, FS_Subset
  <2>. QED BY <1>1, <2>2, FS_Union
<1>4. \A A, B \in SUBSET {2, 3} : A \cap B = {} => Timely(OnTime(base \cup A) \cup Late(B))
  BY <1>2, <1>3
<1>5. \A A, B : OnTime(A \cup B) = OnTime(A) \cup OnTime(B) /\ Late(A \cup B) = Late(A) \cup Late(B)
                /\ OnTime({}) = {} /\ Late({}) = {}
  BY DEF OnTime, Late
<1>6. ASSUME NEW x \in {{}, OnTime({2}), Late({2})}, NEW y \in {OnTime({3}), Late({3})}
      PROVE  Timely(OnTime(base) \cup x \cup y)
  <2>1. PICK A \in {{}, {2}}, B \in {{}, {2}} : A \cap B = {} /\ x = OnTime(A) \cup Late(B)
    <3>1. OnTime({}) = {} /\ Late({}) = {}
      BY <1>5
    <3>2. CASE x = {}
      BY <3>1, <3>2
    <3>3. CASE x = OnTime({2})
      BY <3>1, <3>3
    <3>4. CASE x = Late({2})
      BY <3>1, <3>4
    <3>. QED BY <3>2, <3>3, <3>4
  <2>2. PICK C \in {{}, {3}}, D \in {{}, {3}} : C \cap D = {} /\ y = OnTime(C) \cup Late(D)
    <3>1. OnTime({}) = {} /\ Late({}) = {}
      BY <1>5
    <3>2. CASE y = OnTime({3})
      BY <3>1, <3>2
    <3>3. CASE y = Late({3})
      BY <3>1, <3>3
    <3>. QED BY <3>2, <3>3
  <2>3. Timely(OnTime(base \cup (A \cup C)) \cup Late(B \cup D))
    <3>1. A \cup C \in SUBSET {2, 3} /\ B \cup D \in SUBSET {2, 3} /\ (A \cup C) \cap (B \cup D) = {}
      BY <2>1, <2>2
    <3>. QED BY <1>4, <3>1
  <2>4. OnTime(base \cup (A \cup C)) \cup Late(B \cup D) = OnTime(base) \cup x \cup y
    <3>1. /\ OnTime(base \cup (A \cup C)) = OnTime(base) \cup OnTime(A \cup C)
          /\ OnTime(A \cup C) = OnTime(A) \cup OnTime(C) /\ Late(B \cup D) = Late(B) \cup Late(D)
      BY <1>5
    <3>2. \A a, b, c, d, e : (a \cup (b \cup c)) \cup (d \cup e) = a \cup (b \cup d) \cup (c \cup e)
      OBVIOUS
    <3>. QED BY <2>1, <2>2, <3>1, <3>2, Zenon
  <2>. QED BY <2>3, <2>4
<1>7. ASSUME NEW candles \in SomeCandles PROVE Timely(candles)
  <2>1. PICK x \in {{}, OnTime({2}), Late({2})}, y \in {OnTime({3}), Late({3})} :
           candles = OnTime(base) \cup x \cup y
    BY DEF SomeCandles, base
  <2>. QED BY <1>6, <2>1
<1>. QED BY <1>7

\* A market of such streams is one as it is recorded.
LEMMA StreamsRecord ==
  ASSUME NEW market, Flowing(market.books), Printed(market.trades), Timely(market.candles),
         Clocked(market.tickers), market.tickers # {}
  PROVE  Recording(market)
BY DEF Flowing, Printed, Timely, Recording, Buildable, Streams

\* The markets of the run, and the anchor's, are recorded.
LEMMA MarketsRecorded == Recording(Anchor) /\ \A market \in Markets : Recording(market)
<1>1. \A T \in {{11}, {0, 13}, {0, 11, 40}, {13, 15, 30}, {0, 11, 13, 15, 30}, {3, 12, 17, 20, 30}} :
         Clocked(T) /\ T # {}
  <2>1. ASSUME NEW T, T \subseteq 0 .. 40 PROVE Clocked(T)
    <3>1. 0 \in Int /\ 40 \in Int
      OBVIOUS
    <3>2. IsFiniteSet(0 .. 40)
      BY <3>1, FS_Interval
    <3>3. IsFiniteSet(T)
      BY <2>1, <3>2, FS_Subset
    <3>. QED BY <2>1, <3>3 DEF Clocked
  <2>2. \A T \in {{11}, {0, 13}, {0, 11, 40}, {13, 15, 30}, {0, 11, 13, 15, 30}, {3, 12, 17, 20, 30}} :
           T \subseteq 0 .. 40 /\ T # {}
    OBVIOUS
  <2>. QED BY <2>1, <2>2
<1>2. Recording(Anchor)
  <2>1. /\ Anchor.books = Books(36) /\ Anchor.tickers = {3, 12, 17, 20, 30}
        /\ Anchor.candles = OnTime(0 .. 8) /\ Anchor.trades = <<Traded(5, 2), Traded(30, 2)>>
    BY DEF Anchor
  <2>2. Printed(<<Traded(5, 2), Traded(30, 2)>>)
    <3>. DEFINE trades == <<Traded(5, 2), Traded(30, 2)>>
    <3>1. \A t, p \in Nat : Traded(t, p) \in TradeValues /\ Traded(t, p).at = t /\ Traded(t, p).size = 1
      BY DEF Traded, TradeValues
    <3>2. /\ trades[1] = Traded(5, 2) /\ trades[2] = Traded(30, 2)
          /\ DOMAIN trades = 1 .. 2 /\ trades = [k \in 1 .. 2 |-> trades[k]]
      OBVIOUS
    <3>. HIDE DEF trades
    <3>3. \A k \in 1 .. 2 : trades[k] \in TradeValues /\ trades[k].at \in Nat /\ trades[k].size \in Nat
      BY <3>1, <3>2
    <3>4. trades \in [1 .. 2 -> TradeValues]
      BY <3>2, <3>3
    <3>5. 2 \in Nat \ {0}
      OBVIOUS
    <3>6. Printed(trades)
      BY <3>3, <3>4, <3>5, FewPrinted
    <3>. QED BY <3>6 DEF trades
  <2>3. Timely(OnTime(0 .. 8))
    <3>1. 0 \in Int /\ 8 \in Int /\ 0 .. 8 \subseteq Nat /\ {} \subseteq Nat /\ (0 .. 8) \cap {} = {}
      OBVIOUS
    <3>2. IsFiniteSet(0 .. 8) /\ IsFiniteSet({})
      BY <3>1, FS_Interval, FS_EmptySet
    <3>3. Timely(OnTime(0 .. 8) \cup Late({}))
      BY <3>1, <3>2, CandlesTimely
    <3>. QED BY <3>3 DEF Late
  <2>4. Flowing(Books(36)) /\ Clocked(Anchor.tickers) /\ Anchor.tickers # {}
    BY <1>1, <2>1, BooksFlow
  <2>. QED BY <2>1, <2>2, <2>3, <2>4, StreamsRecord
<1>3. ASSUME NEW market \in Markets PROVE Recording(market)
  <2>1. market.books \in SomeBooks /\ market.candles \in SomeCandles /\ market.trades \in SomeTapes
    BY DEF Markets
  <2>2. market.tickers \in {{11}, {0, 13}, {0, 11, 40}, {13, 15, 30}, {0, 11, 13, 15, 30}}
    BY DEF Markets
  <2>3. Clocked(market.tickers) /\ market.tickers # {}
    BY <1>1, <2>2
  <2>4. Flowing(market.books) /\ Printed(market.trades) /\ Timely(market.candles)
    BY <2>1, SomeBooksFlow, SomeCandlesTimely, SomeTapesPrinted
  <2>. QED BY <2>3, <2>4, StreamsRecord
<1>. QED BY <1>2, <1>3

\* The features and labels of the run's markets keep the past and the future apart.
THEOREM PipelineFeatures == PipelineSpec => []FeaturesCausal
<1>1. PipelineInv => FeaturesCausal
  <2>1. ASSUME PipelineInv, system = "features" PROVE FeaturesHonest(input, Anchor, 1, 2)
    <3>1. Recording(input) /\ Recording(Anchor)
      BY <2>1, MarketsRecorded DEF PipelineInv
    <3>. QED BY <3>1, FeaturesKeepTime
  <2>. QED BY <2>1 DEF FeaturesCausal, Result
<1>. QED BY <1>1, PipelineStarts, PipelineKept, PTL DEF PipelineSpec

\* The archives of the run are tables of rows.
LEMMA TableOfRows ==
  ASSUME NEW n \in Nat, NEW rows, DOMAIN rows = 1 .. n, rows = [m \in 1 .. n |-> rows[m]],
         \A m \in 1 .. n : Typed(rows[m])
  PROVE  Tabled(rows)
<1>1. rows \in [1 .. n -> Range(rows)]
  BY DEF Range
<1>2. rows \in Seq(Range(rows))
  BY <1>1, SeqDef
<1>3. Len(rows) = n
  BY <1>2, LenProperties
<1>. QED BY <1>2, <1>3 DEF Tabled

LEMMA SomeTradesTabled == \A n \in 0 .. 3 : \A rows \in [1 .. n -> SomeTrades] : Tabled(rows)
<1>1. \A t \in SomeTrades : Typed(t)
  BY DEF SomeTrades, Typed
<1>2. ASSUME NEW n \in 0 .. 3, NEW rows \in [1 .. n -> SomeTrades] PROVE Tabled(rows)
  <2>1. n \in Nat /\ DOMAIN rows = 1 .. n /\ rows = [m \in 1 .. n |-> rows[m]]
    OBVIOUS
  <2>2. \A m \in 1 .. n : Typed(rows[m])
    BY <1>1
  <2>. QED BY <2>1, <2>2, TableOfRows
<1>. QED BY <1>2

\* And so are its days of three trades.
LEMMA ThreeTicks ==
  ASSUME NEW ts, NEW ps, \A n \in 1 .. 3 : ts[n] \in Int /\ ps[n] \in Int
  PROVE  Tabled(Tick3(ts, ps))
<1>. DEFINE rows == Tick3(ts, ps)
<1>1. DOMAIN rows = 1 .. 3 /\ rows = [m \in 1 .. 3 |-> rows[m]] /\ 3 \in Nat
  BY DEF Tick3
<1>2. \A m \in 1 .. 3 : Typed(rows[m])
  BY DEF Tick3, Typed
<1>. HIDE DEF rows
<1>3. Tabled(rows)
  BY <1>1, <1>2, TableOfRows
<1>. QED BY <1>3 DEF rows

LEMMA RangesTabled ==
  ASSUME NEW days \in Ranges
  PROVE  Len(days) = 2 /\ DOMAIN days = 1 .. 2 /\ \A k \in DOMAIN days : Tabled(days[k])
<1>1. PICK t \in Times, u \in Times, p \in Moves : days = <<Tick3(t, <<3, 3, 3>>), Tick3(u, p)>>
  BY DEF Ranges
<1>2. \A n \in 1 .. 3 : t[n] \in Int /\ u[n] \in Int
  BY DEF Times
<1>3. \A n \in 1 .. 3 : p[n] \in Int /\ <<3, 3, 3>>[n] \in Int
  BY DEF Moves
<1>. DEFINE threes == <<3, 3, 3>>
            first == Tick3(t, threes)
            second == Tick3(u, p)
<1>4. Tabled(first) /\ Tabled(second)
  <2>. HIDE DEF threes
  <2>1. \A n \in 1 .. 3 : threes[n] \in Int
    BY <1>3 DEF threes
  <2>2. Tabled(first)
    BY <1>2, <2>1, ThreeTicks
  <2>3. Tabled(second)
    BY <1>2, <1>3, ThreeTicks
  <2>. QED BY <2>2, <2>3
<1>5. days = <<first, second>>
  BY <1>1
<1>. HIDE DEF first, second
<1>. QED BY <1>4, <1>5

\* The bars of the run's archives are faithful, and so is what is built of its days.
THEOREM PipelineBars == PipelineSpec => []BarsFaithful
<1>1. PipelineInv => BarsFaithful
  <2>1. ASSUME PipelineInv, system = "bars" PROVE ImportFaithful(input, Import(input))
    <3>1. Tabled(input)
      BY <2>1, SomeTradesTabled DEF PipelineInv
    <3>. QED BY <3>1, ImportIsFaithful
  <2>2. ASSUME PipelineInv, system = "price" PROVE PriceHonest(input)
    <3>1. input \in Ranges
      BY <2>2 DEF PipelineInv
    <3>2. Len(input) = 2 /\ DOMAIN input = 1 .. 2 /\ \A k \in DOMAIN input : Tabled(input[k])
      BY <3>1, RangesTabled
    <3>3. Len(input) \in Nat /\ DOMAIN input = 1 .. Len(input)
      BY <3>2
    <3>. QED BY <3>2, <3>3, PriceIsHonest
  <2>. QED BY <2>1, <2>2 DEF BarsFaithful, Result
<1>. QED BY <1>1, PipelineStarts, PipelineKept, PTL DEF PipelineSpec
=============================================================================
