------------------------ MODULE SegmentStoreProofs ------------------------
(* Proofs about SegmentStore, for any number of streams, dates, records and
   starts: what a reader finds under a final name is complete, of one date and
   never changes, and the files of a stream are the log that RecordLog promises.
   A step of the writer does up to three things to its files, segments, buffers
   and records, so the invariant is stated of four such values, F, G, B and R,
   and there is a lemma for each of the things that are done. *)
EXTENDS SegmentStore, RecursionLemmas

Numbers == 1 .. MaxRecords

Files == [stream : Streams, date : Dates, lines : Seq(Numbers),
          torn : BOOLEAN, state : {"partial", "final"}]

Typed(F, G, B, R) ==
  /\ F \in Seq(Files)
  /\ G \in [Streams -> Nat \cup {None}]
  /\ B \in [Streams -> Seq(Numbers)]
  /\ R \in Seq(Dates) /\ Len(R) <= MaxRecords

\* The numbers in files and buffers are those of records that were written.
Numbered(F, B, R) ==
  /\ \A i \in DOMAIN F : \A k \in DOMAIN F[i].lines : F[i].lines[k] <= Len(R)
  /\ \A s \in Streams : \A k \in DOMAIN B[s] : B[s][k] <= Len(R)

\* A stream's open segment is a partial file of the stream, behind every other
\* file of it, and its buffer is for the segment's date.
Attached(F, i, b, R, s) ==
  /\ i \in DOMAIN F /\ F[i].stream = s /\ F[i].state = "partial"
  /\ \A j \in DOMAIN F : j > i => F[j].stream # s
  /\ \A k \in DOMAIN b : R[b[k]] = F[i].date

OpenSegments(F, G, B, R) ==
  \A s \in Streams : IF G[s] = None THEN B[s] = <<>> ELSE Attached(F, G[s], B[s], R, s)

Complete1(f) == f.state = "final" => ~ f.torn

OneDate(f, R) == \A k \in DOMAIN f.lines : R[f.lines[k]] = f.date

Sound(F, G, B, R) ==
  /\ Typed(F, G, B, R) /\ Numbered(F, B, R) /\ OpenSegments(F, G, B, R)
  /\ \A i \in DOMAIN F : Complete1(F[i]) /\ OneDate(F[i], R)

\* A segment that is about to be renamed is on disk to its last record.
Renaming ==
  /\ writer = "rename" <=> renamed # None
  /\ renamed # None =>
       /\ segment[renamed.stream] # None /\ buffer[renamed.stream] = <<>>
       /\ ~ files[segment[renamed.stream]].torn
       /\ renamed.date # None => Len(records) < MaxRecords

StoreInv ==
  /\ Sound(files, segment, buffer, records)
  /\ writer \in {"down", "recover", "open", "rename", "close", "stopped"}
  /\ writer \in {"down", "recover", "stopped"} => segment = NoSegments
  /\ starts \in 0 .. MaxStarts
  /\ renamed \in {None} \cup [stream : Streams, date : Dates \cup {None}]
  /\ Renaming

\* What readers have found is as it was.
Kept(F, H) == \A i \in DOMAIN F : F[i].state = "final" => i \in DOMAIN H /\ H[i] = F[i]

\* Names and states may change, the lines do not.
SameLines(F, H) ==
  /\ DOMAIN H = DOMAIN F
  /\ \A i \in DOMAIN F : H[i].stream = F[i].stream /\ H[i].lines = F[i].lines

-----------------------------------------------------------------------------
(* Files *)

Replaced(F, i, g) == [F EXCEPT ![i] = g]

\* One file is replaced.
LEMMA FileReplaced ==
  ASSUME NEW F \in Seq(Files), NEW i \in DOMAIN F, NEW g \in Files
  PROVE  /\ Replaced(F, i, g) \in Seq(Files)
         /\ DOMAIN Replaced(F, i, g) = DOMAIN F /\ Len(Replaced(F, i, g)) = Len(F)
         /\ Replaced(F, i, g)[i] = g
         /\ \A j \in DOMAIN F : j # i => Replaced(F, i, g)[j] = F[j]
<1>1. DOMAIN F = 1 .. Len(F)
  BY LenProperties
<1>. QED BY <1>1, ExceptSeq, LenProperties DEF Replaced

\* One file more.
LEMMA FileAdded ==
  ASSUME NEW F \in Seq(Files), NEW g \in Files, NEW H, H = Append(F, g)
  PROVE  /\ H \in Seq(Files) /\ Len(H) = Len(F) + 1 /\ Len(F) \in Nat
         /\ DOMAIN F = 1 .. Len(F) /\ DOMAIN H = 1 .. Len(F) + 1
         /\ H[Len(F) + 1] = g /\ \A j \in DOMAIN F : H[j] = F[j] /\ j \in DOMAIN H
BY AppendProperties, LenProperties

\* A file has its parts, and its lines are numbers.
LEMMA FileParts ==
  ASSUME NEW F \in Seq(Files), NEW i \in DOMAIN F
  PROVE  /\ F[i] \in Files /\ i \in Nat /\ F[i].stream \in Streams /\ F[i].date \in Dates
         /\ F[i].lines \in Seq(Numbers) /\ F[i].torn \in BOOLEAN
         /\ DOMAIN F[i].lines = 1 .. Len(F[i].lines) /\ Len(F[i].lines) \in Nat
<1>1. DOMAIN F = 1 .. Len(F) /\ Len(F) \in Nat
  BY LenProperties
<1>2. F[i] \in Files
  BY <1>1, ElementOfSeq
<1>. QED BY <1>1, <1>2, LenProperties DEF Files

\* The open segment of a stream.
LEMMA SegmentFile ==
  ASSUME NEW F, NEW G, NEW B, NEW R, Sound(F, G, B, R), NEW s \in Streams, G[s] # None
  PROVE  /\ G[s] \in DOMAIN F /\ F[G[s]] \in Files /\ Attached(F, G[s], B[s], R, s)
         /\ \A u \in Streams : u # s => G[u] # G[s]
<1>1. Attached(F, G[s], B[s], R, s)
  BY DEF Sound, OpenSegments
<1>2. G[s] \in DOMAIN F /\ F[G[s]] \in Files
  BY <1>1, FileParts DEF Attached, Sound, Typed
<1>3. ASSUME NEW u \in Streams, u # s, G[u] = G[s] PROVE FALSE
  <2>1. G[u] # None
    BY <1>3
  <2>2. Attached(F, G[u], B[u], R, u)
    BY <2>1 DEF Sound, OpenSegments
  <2>. QED BY <1>1, <1>3, <2>2 DEF Attached
<1>. QED BY <1>1, <1>2, <1>3

-----------------------------------------------------------------------------
(* What is done *)

\* k records of the buffer go to the file, and perhaps a part of the next.
Extended(f, b, k, torn) ==
  [f EXCEPT !.lines = @ \o SubSeq(b, 1, k), !.torn = torn]

Longer(F, i, b, k, torn) == [F EXCEPT ![i] = Extended(@, b, k, torn)]

\* The parts of a buffer.
LEMMA BufferParts ==
  ASSUME NEW b \in Seq(Numbers), NEW k \in 0 .. Len(b)
  PROVE  /\ SubSeq(b, 1, k) \in Seq(Numbers) /\ Len(SubSeq(b, 1, k)) = k
         /\ \A i \in 1 .. k : SubSeq(b, 1, k)[i] = b[i] /\ i \in DOMAIN b
         /\ SubSeq(b, k + 1, Len(b)) \in Seq(Numbers)
         /\ Len(SubSeq(b, k + 1, Len(b))) = Len(b) - k
         /\ \A i \in 1 .. Len(b) - k : /\ SubSeq(b, k + 1, Len(b))[i] = b[k + i]
                                       /\ k + i \in DOMAIN b
<1>. DEFINE n == Len(b)  N == Numbers
<1>1. n \in Nat /\ DOMAIN b = 1 .. n /\ \A i \in 1 .. n : b[i] \in N
  BY LenProperties, ElementOfSeq
<1>2. k \in 0 .. n
  OBVIOUS
<1>. HIDE DEF n, N
<1>3. \A i \in 1 .. k : i \in 1 .. n
  BY <1>1, <1>2
<1>4. \A i \in 1 .. n - k : k + i \in 1 .. n /\ k + i = (k + 1) + i - 1
  BY <1>1, <1>2
<1>5. /\ SubSeq(b, 1, k) \in Seq(N) /\ Len(SubSeq(b, 1, k)) = k
      /\ \A i \in 1 .. k : SubSeq(b, 1, k)[i] = b[i]
  <2>1. \A i \in 1 .. k : b[i] \in N
    BY <1>1, <1>3
  <2>. QED BY <1>1, <1>2, <2>1, SubSeqProperties
<1>6. /\ SubSeq(b, k + 1, n) \in Seq(N) /\ Len(SubSeq(b, k + 1, n)) = n - k
      /\ \A i \in 1 .. n - k : SubSeq(b, k + 1, n)[i] = b[k + i]
  <2>1. \A i \in k + 1 .. n : b[i] \in N
    BY <1>1, <1>2
  <2>2. k + 1 \in Int /\ n \in Int /\ n - (k + 1) + 1 = n - k
    BY <1>1, <1>2
  <2>3. /\ SubSeq(b, k + 1, n) \in Seq(N)
        /\ Len(SubSeq(b, k + 1, n)) = IF k + 1 <= n THEN n - (k + 1) + 1 ELSE 0
        /\ \A i \in 1 .. n - (k + 1) + 1 : SubSeq(b, k + 1, n)[i] = b[(k + 1) + i - 1]
    BY <2>1, <2>2, SubSeqProperties
  <2>4. Len(SubSeq(b, k + 1, n)) = n - k
    BY <1>1, <1>2, <2>3
  <2>5. \A i \in 1 .. n - k : SubSeq(b, k + 1, n)[i] = b[k + i]
    BY <1>4, <2>2, <2>3
  <2>. QED BY <2>3, <2>4, <2>5
<1>. QED BY <1>1, <1>3, <1>4, <1>5, <1>6 DEF n, N

\* Lines put behind the lines of a file.
LEMMA LinesPut ==
  ASSUME NEW a \in Seq(Numbers), NEW c \in Seq(Numbers)
  PROVE  /\ a \o c \in Seq(Numbers) /\ DOMAIN (a \o c) = 1 .. Len(a) + Len(c)
         /\ \A i \in 1 .. Len(a) + Len(c) :
              (a \o c)[i] = IF i <= Len(a) THEN a[i] ELSE c[i - Len(a)]
<1>1. /\ a \o c \in Seq(Numbers) /\ Len(a \o c) = Len(a) + Len(c)
      /\ \A i \in 1 .. Len(a) + Len(c) :
           (a \o c)[i] = IF i <= Len(a) THEN a[i] ELSE c[i - Len(a)]
  BY ConcatProperties, Zenon
<1>2. DOMAIN (a \o c) = 1 .. Len(a \o c)
  BY <1>1, LenProperties, Zenon
<1>. QED BY <1>1, <1>2, Zenon

\* Flush, and with all of the buffer the first half of _finalize.
LEMMA Persisted ==
  ASSUME NEW F, NEW G, NEW B, NEW R, Sound(F, G, B, R),
         NEW s \in Streams, G[s] # None, NEW k \in 0 .. Len(B[s]), NEW torn \in BOOLEAN,
         NEW H, H = [F EXCEPT ![G[s]] = Extended(@, B[s], k, torn)],
         NEW C, C = [B EXCEPT ![s] = SubSeq(@, k + 1, Len(@))]
  PROVE  Sound(H, G, C, R) /\ Kept(F, H)
<1>. DEFINE place == G[s]  f == F[place]  b == B[s]  g == Extended(f, b, k, torn)
<1>1. /\ G[s] \in DOMAIN F /\ Attached(F, G[s], b, R, s)
      /\ \A u \in Streams : u # s => G[u] # G[s]
  BY SegmentFile
<1>2. F \in Seq(Files) /\ b \in Seq(Numbers) /\ B \in [Streams -> Seq(Numbers)] /\ Len(R) \in Nat
  BY LenProperties DEF Sound, Typed
<1>3. /\ f \in Files /\ f.lines \in Seq(Numbers) /\ f.stream = s /\ f.state = "partial"
      /\ DOMAIN f.lines = 1 .. Len(f.lines) /\ Len(f.lines) \in Nat /\ f.date \in Dates
  BY <1>1, <1>2, FileParts DEF Attached
<1>. DEFINE t == SubSeq(b, 1, k)  rest == SubSeq(b, k + 1, Len(b))
<1>4. /\ t \in Seq(Numbers) /\ Len(t) = k /\ \A i \in 1 .. k : t[i] = b[i] /\ i \in DOMAIN b
      /\ rest \in Seq(Numbers) /\ Len(rest) = Len(b) - k
      /\ \A i \in 1 .. Len(b) - k : rest[i] = b[k + i] /\ k + i \in DOMAIN b
  BY <1>2, BufferParts
<1>5. /\ f.lines \o t \in Seq(Numbers) /\ DOMAIN (f.lines \o t) = 1 .. Len(f.lines) + k
      /\ \A i \in 1 .. Len(f.lines) + k :
           (f.lines \o t)[i] = IF i <= Len(f.lines) THEN f.lines[i] ELSE t[i - Len(f.lines)]
  <2>1. f.lines \in Seq(Numbers) /\ t \in Seq(Numbers) /\ Len(t) = k
    BY <1>3, <1>4
  <2>. HIDE DEF t, f
  <2>. QED BY <2>1, LinesPut
<1>6. /\ g \in Files /\ g.stream = s /\ g.date = f.date /\ g.lines = f.lines \o t
      /\ g.torn = torn /\ g.state = "partial"
  BY <1>3, <1>5 DEF Extended, Files
<1>7. /\ H \in Seq(Files) /\ DOMAIN H = DOMAIN F /\ H[G[s]] = g
      /\ \A j \in DOMAIN F : j # G[s] => H[j] = F[j]
  <2>1. H = Replaced(F, place, g)
    BY <1>1 DEF Replaced
  <2>2. F \in Seq(Files) /\ place \in DOMAIN F /\ g \in Files
    BY <1>1, <1>2, <1>6
  <2>. HIDE DEF f, g, place
  <2>3. LET K == Replaced(F, place, g)
        IN  /\ K \in Seq(Files) /\ DOMAIN K = DOMAIN F /\ Len(K) = Len(F)
            /\ K[place] = g /\ \A j \in DOMAIN F : j # place => K[j] = F[j]
    BY <2>2, FileReplaced
  <2>. QED BY <2>1, <2>3, Zenon DEF place
<1>8. C \in [Streams -> Seq(Numbers)] /\ C[s] = rest /\ \A u \in Streams : u # s => C[u] = B[u]
  BY <1>2, <1>4
<1>9. DOMAIN rest = 1 .. Len(b) - k /\ Len(b) \in Nat
  BY <1>2, <1>4, LenProperties
<1>. HIDE DEF f, b, g, t, rest
<1>10. Typed(H, G, C, R)
  BY <1>7, <1>8 DEF Sound, Typed
<1>11. \A i \in DOMAIN g.lines : \/ i \in DOMAIN f.lines /\ g.lines[i] = f.lines[i]
                                 \/ \E n \in DOMAIN b : g.lines[i] = b[n]
  <2>0. DOMAIN g.lines = 1 .. Len(f.lines) + k /\ DOMAIN f.lines = 1 .. Len(f.lines)
        /\ \A i \in 1 .. Len(f.lines) : i \in 1 .. Len(f.lines) + k => g.lines[i] = f.lines[i]
    BY <1>3, <1>5, <1>6
  <2>1. SUFFICES ASSUME NEW i \in 1 .. Len(f.lines) + k, i \notin 1 .. Len(f.lines)
                 PROVE  \E n \in DOMAIN b : g.lines[i] = b[n]
    BY <2>0
  <2>2. i - Len(f.lines) \in 1 .. k /\ g.lines[i] = t[i - Len(f.lines)]
    BY <1>3, <1>5, <1>6, <2>1
  <2>. QED BY <1>4, <2>2
<1>12. /\ \A n \in DOMAIN b : b[n] <= Len(R) /\ R[b[n]] = f.date
       /\ \A n \in DOMAIN f.lines : f.lines[n] <= Len(R) /\ R[f.lines[n]] = f.date
  BY <1>1 DEF Sound, Numbered, Attached, OneDate, f, b
<1>13. Numbered(H, C, R)
  <2>1. \A k1 \in DOMAIN g.lines : g.lines[k1] <= Len(R)
    BY <1>11, <1>12
  <2>2. \A n \in DOMAIN rest : rest[n] <= Len(R)
    BY <1>4, <1>9, <1>12
  <2>. QED BY <1>7, <1>8, <2>1, <2>2 DEF Sound, Numbered
<1>14. OpenSegments(H, G, C, R)
  <2>1. Attached(H, G[s], C[s], R, s)
    <3>1. \A n \in DOMAIN rest : R[rest[n]] = f.date
      BY <1>4, <1>9, <1>12
    <3>2. \A j \in DOMAIN H : j > G[s] => H[j].stream # s
      <4>1. \A j \in DOMAIN F : j > G[s] => j # G[s]
        BY <1>2, <1>1, FileParts
      <4>. QED BY <1>1, <1>7, <4>1 DEF Attached
    <3>. QED BY <1>1, <1>6, <1>7, <1>8, <3>1, <3>2 DEF Attached
  <2>2. ASSUME NEW u \in Streams, u # s, G[u] # None PROVE Attached(H, G[u], C[u], R, u)
    <3>1. Attached(F, G[u], B[u], R, u) /\ G[u] # G[s]
      BY <1>1, <2>2 DEF Sound, OpenSegments
    <3>2. \A j \in DOMAIN H : H[j].stream = F[j].stream
      BY <1>1, <1>3, <1>6, <1>7 DEF f
    <3>3. H[G[u]] = F[G[u]] /\ C[u] = B[u]
      BY <1>7, <1>8, <2>2, <3>1 DEF Attached
    <3>. QED BY <1>7, <3>1, <3>2, <3>3 DEF Attached
  <2>3. ASSUME NEW u \in Streams, u # s, G[u] = None PROVE C[u] = <<>>
    BY <1>8, <2>3 DEF Sound, OpenSegments
  <2>. QED BY <2>1, <2>2, <2>3 DEF OpenSegments
<1>15. Complete1(g) /\ OneDate(g, R)
  <2>1. Complete1(g)
    BY <1>6 DEF Complete1
  <2>. QED BY <1>6, <1>11, <1>12, <2>1 DEF OneDate
<1>16. \A i \in DOMAIN H : Complete1(H[i]) /\ OneDate(H[i], R)
  BY <1>7, <1>15 DEF Sound
<1>17. Kept(F, H)
  BY <1>3, <1>7 DEF Kept, f
<1>. QED BY <1>10, <1>13, <1>14, <1>16, <1>17 DEF Sound

\* A file under its final name, a stream whose segment is at a place in the files.
Renamed(F, i) == [F EXCEPT ![i].state = "final"]
Placed(G, s, i) == [G EXCEPT ![s] = i]

\* The rename at the end of a segment.
LEMMA Finalized ==
  ASSUME NEW F, NEW G, NEW B, NEW R, Sound(F, G, B, R),
         NEW s \in Streams, G[s] # None, B[s] = <<>>, ~ F[G[s]].torn,
         NEW H, H = Renamed(F, G[s]), NEW D, D = Placed(G, s, None)
  PROVE  Sound(H, D, B, R) /\ Kept(F, H) /\ SameLines(F, H) /\ Len(H) = Len(F)
<1>. DEFINE place == G[s]  f == F[place]  g == [f EXCEPT !.state = "final"]
<1>1. /\ G[s] \in DOMAIN F /\ Attached(F, G[s], B[s], R, s)
      /\ \A u \in Streams : u # s => G[u] # G[s]
  BY SegmentFile
<1>2. F \in Seq(Files) /\ G \in [Streams -> Nat \cup {None}]
  BY DEF Sound, Typed
<1>3. /\ f \in Files /\ f.state = "partial" /\ ~ f.torn
  BY <1>1, <1>2, FileParts DEF Attached
<1>4. /\ g \in Files /\ g.stream = f.stream /\ g.date = f.date /\ g.lines = f.lines
      /\ g.torn = f.torn
  BY <1>3 DEF Files
<1>5. /\ H \in Seq(Files) /\ DOMAIN H = DOMAIN F /\ Len(H) = Len(F) /\ H[G[s]] = g
      /\ \A j \in DOMAIN F : j # G[s] => H[j] = F[j]
  <2>1. H = Replaced(F, place, g)
    BY <1>1 DEF Renamed, Replaced
  <2>2. F \in Seq(Files) /\ place \in DOMAIN F /\ g \in Files
    BY <1>1, <1>2, <1>4
  <2>. HIDE DEF f, g, place
  <2>3. LET K == Replaced(F, place, g)
        IN  /\ K \in Seq(Files) /\ DOMAIN K = DOMAIN F /\ Len(K) = Len(F)
            /\ K[place] = g /\ \A j \in DOMAIN F : j # place => K[j] = F[j]
    BY <2>2, FileReplaced
  <2>. QED BY <2>1, <2>3, Zenon DEF place
<1>6. D \in [Streams -> Nat \cup {None}] /\ D[s] = None /\ \A u \in Streams : u # s => D[u] = G[u]
  BY <1>2 DEF Placed
<1>. HIDE DEF f, g
<1>7. \A i \in DOMAIN F : /\ H[i].stream = F[i].stream /\ H[i].lines = F[i].lines
                          /\ H[i].date = F[i].date /\ H[i].torn = F[i].torn
  BY <1>4, <1>5 DEF f
<1>8. Typed(H, D, B, R)
  BY <1>5, <1>6 DEF Sound, Typed
<1>9. Numbered(H, B, R)
  BY <1>5, <1>7 DEF Sound, Numbered
<1>10. OpenSegments(H, D, B, R)
  <2>1. ASSUME NEW u \in Streams, D[u] # None PROVE Attached(H, D[u], B[u], R, u)
    <3>1. u # s /\ D[u] = G[u]
      BY <1>6, <2>1
    <3>2. Attached(F, G[u], B[u], R, u) /\ G[u] # G[s]
      BY <1>1, <2>1, <3>1 DEF Sound, OpenSegments
    <3>3. H[G[u]] = F[G[u]]
      BY <1>5, <3>2 DEF Attached
    <3>. QED BY <1>5, <1>7, <3>1, <3>2, <3>3 DEF Attached
  <2>2. ASSUME NEW u \in Streams, D[u] = None PROVE B[u] = <<>>
    BY <1>6, <2>2 DEF Sound, OpenSegments
  <2>. QED BY <2>1, <2>2 DEF OpenSegments
<1>11. \A i \in DOMAIN H : Complete1(H[i]) /\ OneDate(H[i], R)
  <2>1. \A i \in DOMAIN F : OneDate(F[i], R)
    BY DEF Sound
  <2>2. \A i \in DOMAIN H : OneDate(H[i], R)
    BY <1>5, <1>7, <2>1 DEF OneDate
  <2>3. \A i \in DOMAIN H : Complete1(H[i])
    BY <1>3, <1>4, <1>5 DEF Sound, Complete1
  <2>. QED BY <2>2, <2>3
<1>12. Kept(F, H)
  BY <1>3, <1>5 DEF Kept, f
<1>. QED BY <1>5, <1>7, <1>8, <1>9, <1>10, <1>11, <1>12 DEF Sound, SameLines

New(s, date) ==
  [stream |-> s, date |-> date, lines |-> <<>>, torn |-> FALSE, state |-> "partial"]

OneMore(F, s, date) == Append(F, New(s, date))

\* _open_segment.
LEMMA Opened ==
  ASSUME NEW F, NEW G, NEW B, NEW R, Sound(F, G, B, R),
         NEW s \in Streams, G[s] = None, NEW date \in Dates,
         NEW H, H = OneMore(F, s, date), NEW D, D = Placed(G, s, Len(F) + 1)
  PROVE  /\ Sound(H, D, B, R) /\ Kept(F, H)
         /\ D[s] # None /\ H[D[s]].date = date
<1>. DEFINE n == Len(F)
<1>1. F \in Seq(Files) /\ G \in [Streams -> Nat \cup {None}] /\ None \notin Nat
  BY StoreAssumption DEF Sound, Typed
<1>2. New(s, date) \in Files
  <2>1. <<>> \in Seq(Numbers)
    BY EmptySeq
  <2>. QED BY <2>1 DEF New, Files
<1>3. /\ H \in Seq(Files) /\ n \in Nat /\ DOMAIN F = 1 .. n /\ DOMAIN H = 1 .. n + 1
      /\ H[n + 1] = New(s, date) /\ \A j \in DOMAIN F : H[j] = F[j] /\ j \in DOMAIN H
  BY <1>1, <1>2, FileAdded DEF OneMore
<1>. HIDE DEF n
<1>4. /\ D \in [Streams -> Nat \cup {None}] /\ D[s] = n + 1 /\ D[s] # None
      /\ \A u \in Streams : u # s => D[u] = G[u]
  BY <1>1, <1>3 DEF n, Placed
<1>5. /\ New(s, date).stream = s /\ New(s, date).lines = <<>> /\ New(s, date).date = date
      /\ New(s, date).state = "partial" /\ DOMAIN New(s, date).lines = {}
  BY DEF New
<1>6. Typed(H, D, B, R)
  BY <1>3, <1>4 DEF Sound, Typed
<1>7. \A j \in DOMAIN H : j \in DOMAIN F \/ j = n + 1
  BY <1>3
<1>8. Numbered(H, B, R)
  BY <1>3, <1>5, <1>7 DEF Sound, Numbered
<1>9. OpenSegments(H, D, B, R)
  <2>1. Attached(H, D[s], B[s], R, s)
    <3>1. B[s] = <<>>
      BY DEF Sound, OpenSegments
    <3>2. \A j \in DOMAIN H : ~ (j > n + 1)
      BY <1>3
    <3>. QED BY <1>3, <1>4, <1>5, <3>1, <3>2 DEF Attached
  <2>2. ASSUME NEW u \in Streams, u # s, D[u] # None PROVE Attached(H, D[u], B[u], R, u)
    <3>1. Attached(F, G[u], B[u], R, u) /\ D[u] = G[u]
      BY <1>4, <2>2 DEF Sound, OpenSegments
    <3>. QED BY <1>3, <1>5, <1>7, <2>2, <3>1 DEF Attached
  <2>3. ASSUME NEW u \in Streams, D[u] = None PROVE B[u] = <<>>
    BY <1>4, <2>3 DEF Sound, OpenSegments
  <2>. QED BY <2>1, <2>2, <2>3 DEF OpenSegments
<1>10. \A i \in DOMAIN H : Complete1(H[i]) /\ OneDate(H[i], R)
  BY <1>3, <1>5, <1>7 DEF Sound, Complete1, OneDate
<1>11. Kept(F, H)
  BY <1>3 DEF Kept
<1>. QED BY <1>3, <1>4, <1>5, <1>6, <1>8, <1>9, <1>10, <1>11 DEF Sound

\* A record that goes to the handle of its stream's segment, which is for its date.
LEMMA Added ==
  ASSUME NEW F, NEW G, NEW B, NEW R, Sound(F, G, B, R), Len(R) < MaxRecords,
         NEW s \in Streams, G[s] # None, NEW date \in Dates, F[G[s]].date = date,
         NEW C, C = [B EXCEPT ![s] = Append(@, Len(R) + 1)], NEW Q, Q = Append(R, date)
  PROVE  Sound(F, G, C, Q)
<1>. DEFINE n == Len(R)  b == B[s]  c == Append(b, n + 1)
<1>1. /\ R \in Seq(Dates) /\ B \in [Streams -> Seq(Numbers)] /\ b \in Seq(Numbers)
      /\ n \in Nat /\ DOMAIN R = 1 .. n /\ MaxRecords \in Nat
  BY StoreAssumption, LenProperties DEF Sound, Typed
<1>2. /\ Q \in Seq(Dates) /\ Len(Q) = n + 1 /\ Q[n + 1] = date /\ \A i \in 1 .. n : Q[i] = R[i]
  BY <1>1, AppendProperties
<1>3. n + 1 \in Numbers /\ n + 1 <= MaxRecords
  BY <1>1 DEF Numbers
<1>4. /\ c \in Seq(Numbers) /\ DOMAIN b = 1 .. Len(b) /\ DOMAIN c = 1 .. Len(b) + 1
      /\ c[Len(b) + 1] = n + 1 /\ \A i \in 1 .. Len(b) : c[i] = b[i] /\ Len(b) \in Nat
  BY <1>1, <1>3, AppendProperties, LenProperties
<1>5. C \in [Streams -> Seq(Numbers)] /\ C[s] = c /\ \A u \in Streams : u # s => C[u] = B[u]
  BY <1>1, <1>4
<1>. HIDE DEF n, b, c
<1>6. \A j \in DOMAIN c : (j \in DOMAIN b /\ c[j] = b[j]) \/ c[j] = n + 1
  <2>1. \A j \in 1 .. Len(b) + 1 : j \in 1 .. Len(b) \/ j = Len(b) + 1
    BY <1>4, <1>1, LenProperties
  <2>. QED BY <1>4, <2>1
<1>7. /\ \A i \in DOMAIN F : \A k \in DOMAIN F[i].lines :
           F[i].lines[k] \in 1 .. n
      /\ \A u \in Streams : \A k \in DOMAIN B[u] : B[u][k] \in 1 .. n
  <2>1. ASSUME NEW i \in DOMAIN F, NEW k \in DOMAIN F[i].lines PROVE F[i].lines[k] \in 1 .. n
    <3>1. F[i].lines \in Seq(Numbers)
      BY FileParts DEF Sound, Typed
    <3>2. F[i].lines[k] \in Numbers
      BY <3>1
    <3>. QED BY <1>1, <3>2 DEF Sound, Numbered, Numbers, n
  <2>2. ASSUME NEW u \in Streams, NEW k \in DOMAIN B[u] PROVE B[u][k] \in 1 .. n
    <3>1. B[u] \in Seq(Numbers)
      BY <1>1
    <3>2. B[u][k] \in Numbers
      BY <3>1
    <3>. QED BY <1>1, <3>2 DEF Sound, Numbered, Numbers, n
  <2>. QED BY <2>1, <2>2
<1>8. Typed(F, G, C, Q)
  BY <1>2, <1>3, <1>5 DEF Sound, Typed
<1>9. Numbered(F, C, Q)
  <2>1. \A i \in 1 .. n : i <= n + 1
    BY <1>1
  <2>2. ASSUME NEW u \in Streams, NEW k \in DOMAIN C[u] PROVE C[u][k] <= n + 1
    <3>1. CASE u = s
      BY <1>1, <1>5, <1>6, <1>7, <2>1, <2>2, <3>1 DEF b
    <3>2. CASE u # s
      BY <1>5, <1>7, <2>1, <2>2, <3>2
    <3>. QED BY <3>1, <3>2
  <2>. QED BY <1>2, <1>7, <2>1, <2>2 DEF Numbered
<1>10. OpenSegments(F, G, C, Q)
  <2>1. ASSUME NEW u \in Streams, G[u] # None PROVE Attached(F, G[u], C[u], Q, u)
    <3>1. Attached(F, G[u], B[u], R, u)
      BY <2>1 DEF Sound, OpenSegments
    <3>2. ASSUME NEW k \in DOMAIN C[u] PROVE Q[C[u][k]] = F[G[u]].date
      <4>1. CASE k \in DOMAIN B[u] /\ C[u][k] = B[u][k]
        BY <1>2, <1>7, <3>1, <4>1 DEF Attached
      <4>2. CASE ~ (k \in DOMAIN B[u] /\ C[u][k] = B[u][k])
        <5>1. u = s /\ C[u][k] = n + 1
          BY <1>5, <1>6, <3>2, <4>2 DEF b
        <5>. QED BY <1>2, <5>1
      <4>. QED BY <4>1, <4>2
    <3>. QED BY <3>1, <3>2 DEF Attached
  <2>2. ASSUME NEW u \in Streams, G[u] = None PROVE C[u] = <<>>
    BY <1>5, <2>2 DEF Sound, OpenSegments
  <2>. QED BY <2>1, <2>2 DEF OpenSegments
<1>11. \A i \in DOMAIN F : Complete1(F[i]) /\ OneDate(F[i], Q)
  BY <1>2, <1>7 DEF Sound, OneDate
<1>. QED BY <1>8, <1>9, <1>10, <1>11 DEF Sound

\* A process that dies takes its segments and buffers with it.
LEMMA Lost ==
  ASSUME NEW F, NEW G, NEW B, NEW R, Sound(F, G, B, R)
  PROVE  Sound(F, NoSegments, NoBuffers, R)
<1>1. /\ NoSegments \in [Streams -> Nat \cup {None}] /\ NoBuffers \in [Streams -> Seq(Numbers)]
      /\ \A s \in Streams : NoSegments[s] = None /\ NoBuffers[s] = <<>>
  BY EmptySeq DEF NoSegments, NoBuffers
<1>. QED BY <1>1 DEF Sound, Typed, Numbered, OpenSegments

\* Recovery, while no segment is open, cuts a file's last line off or gives it its
\* final name once its lines are complete.
LEMMA Restored ==
  ASSUME NEW F, NEW B, NEW R, Sound(F, NoSegments, B, R), NEW i \in DOMAIN F,
         F[i].state = "partial", NEW g \in Files, g.stream = F[i].stream,
         g.date = F[i].date, g.lines = F[i].lines, ~ g.torn, NEW H, H = Replaced(F, i, g)
  PROVE  Sound(H, NoSegments, B, R) /\ Kept(F, H) /\ SameLines(F, H)
<1>1. F \in Seq(Files) /\ \A s \in Streams : NoSegments[s] = None
  BY DEF Sound, Typed, NoSegments
<1>2. /\ H \in Seq(Files) /\ DOMAIN H = DOMAIN F /\ H[i] = g
      /\ \A j \in DOMAIN F : j # i => H[j] = F[j]
  BY <1>1, FileReplaced
<1>3. \A j \in DOMAIN H : Complete1(H[j]) /\ OneDate(H[j], R)
  <2>1. Complete1(g) /\ OneDate(g, R)
    <3>1. OneDate(F[i], R)
      BY DEF Sound
    <3>. QED BY <3>1 DEF Complete1, OneDate
  <2>2. \A j \in DOMAIN F : Complete1(F[j]) /\ OneDate(F[j], R)
    BY DEF Sound
  <2>. QED BY <1>2, <2>1, <2>2
<1>4. Numbered(H, B, R)
  BY <1>2 DEF Sound, Numbered
<1>. QED BY <1>1, <1>2, <1>3, <1>4 DEF Sound, Typed, OpenSegments, Kept, SameLines

-----------------------------------------------------------------------------
(* The steps.  Each leaves the invariant as it is, and what readers have found. *)

\* The empty directory.
LEMMA StoreBegins == StoreInit => StoreInv
<1>. SUFFICES ASSUME StoreInit PROVE StoreInv
  OBVIOUS
<1>1. /\ segment \in [Streams -> Nat \cup {None}] /\ buffer \in [Streams -> Seq(Numbers)]
      /\ \A s \in Streams : segment[s] = None /\ buffer[s] = <<>>
  BY EmptySeq DEF StoreInit, NoSegments, NoBuffers
<1>2. files \in Seq(Files) /\ records \in Seq(Dates) /\ Len(records) = 0 /\ DOMAIN files = {}
  BY EmptySeq DEF StoreInit
<1>3. MaxRecords \in Nat /\ MaxStarts \in Nat
  BY StoreAssumption
<1>4. Sound(files, segment, buffer, records)
  BY <1>1, <1>2, <1>3 DEF Sound, Typed, Numbered, OpenSegments
<1>. QED BY <1>3, <1>4 DEF StoreInit, StoreInv, Renaming

\* A process dies.
LEMMA StepCrash ==
  ASSUME StoreInv, StoreCrash
  PROVE  StoreInv' /\ Kept(files, files')
<1>1. /\ writer' = "down" /\ segment' = NoSegments /\ buffer' = NoBuffers /\ renamed' = None
      /\ files' = files /\ records' = records /\ starts' = starts
  BY DEF StoreCrash
<1>2. Sound(files', segment', buffer', records')
  BY <1>1, Lost DEF StoreInv
<1>. QED BY <1>1, <1>2 DEF StoreInv, Renaming, Kept

\* A process starts, finishes its recovery, begins its close() or finishes it.
LEMMA StepControl ==
  ASSUME StoreInv, Start \/ RecoveryEnds \/ Close \/ CloseEnds
  PROVE  StoreInv' /\ Kept(files, files')
<1>1. UNCHANGED <<files, segment, buffer, records, renamed>> /\ renamed = None
  BY DEF Start, RecoveryEnds, Close, CloseEnds, StoreInv, Renaming
<1>2. Sound(files', segment', buffer', records') /\ Kept(files, files')
  BY <1>1 DEF StoreInv, Kept
<1>3. /\ writer' \in {"recover", "open", "close", "stopped"}
      /\ writer' \in {"recover", "stopped"} => segment' = NoSegments
  BY <1>1 DEF Start, RecoveryEnds, Close, CloseEnds, StoreInv, AllClosed
<1>4. starts' \in 0 .. MaxStarts
  BY StoreAssumption DEF Start, RecoveryEnds, Close, CloseEnds, StoreInv
<1>. QED BY <1>1, <1>2, <1>3, <1>4 DEF StoreInv, Renaming

\* A file is restored.
LEMMA StepRestore ==
  ASSUME StoreInv, NEW i \in Partials, Truncate(i) \/ Recovered(i)
  PROVE  StoreInv' /\ Kept(files, files') /\ SameLines(files, files')
<1>1. /\ writer = "recover" /\ segment = NoSegments /\ i \in DOMAIN files
      /\ files[i].state = "partial" /\ UNCHANGED <<writer, starts, segment, buffer, records, renamed>>
  BY DEF Truncate, Recovered, StoreInv, Partials
<1>2. files[i] \in Files /\ Sound(files, NoSegments, buffer, records)
  BY <1>1, FileParts DEF StoreInv, Sound, Typed
<1>. DEFINE Restores(g) == /\ g.stream = files[i].stream /\ g.date = files[i].date
                           /\ g.lines = files[i].lines /\ ~ g.torn
                           /\ files' = Replaced(files, i, g)
<1>3. \E g \in Files : Restores(g)
  <2>1. CASE Truncate(i)
    <3>. DEFINE g == [files[i] EXCEPT !.torn = FALSE]
    <3>1. /\ g \in Files /\ g.stream = files[i].stream /\ g.date = files[i].date
          /\ g.lines = files[i].lines /\ ~ g.torn
      BY <1>2 DEF Files
    <3>2. g = [files[i] EXCEPT !.torn = FALSE, !.lines = Complete(@)]
      BY <1>2 DEF Files, Complete
    <3>3. files' = Replaced(files, i, g)
      BY <1>1, <2>1, <3>2 DEF Truncate, Complete, Replaced
    <3>. HIDE DEF g
    <3>. QED BY <3>1, <3>3
  <2>2. CASE Recovered(i)
    <3>. DEFINE g == [files[i] EXCEPT !.state = "final"]
    <3>1. /\ g \in Files /\ g.stream = files[i].stream /\ g.date = files[i].date
          /\ g.lines = files[i].lines /\ ~ g.torn
      BY <1>2, <2>2 DEF Files, Recovered, Incomplete
    <3>2. files' = Replaced(files, i, g)
      BY <1>1, <2>2 DEF Recovered, Replaced
    <3>. HIDE DEF g
    <3>. QED BY <3>1, <3>2
  <2>. QED BY <2>1, <2>2
<1>4. Sound(files', NoSegments, buffer, records) /\ Kept(files, files') /\ SameLines(files, files')
  <2>1. PICK g \in Files : Restores(g)
    BY <1>3
  <2>. QED BY <1>1, <1>2, <2>1, Restored
<1>5. renamed = None
  BY <1>1 DEF StoreInv, Renaming
<1>. QED BY <1>1, <1>4, <1>5 DEF StoreInv, Renaming

\* What Flush, Rotate and CloseOne do: k records of a stream's buffer reach its file.
Persist(s, k, torn) ==
  /\ files' = [files EXCEPT ![segment[s]] = Extended(@, buffer[s], k, torn)]
  /\ buffer' = [buffer EXCEPT ![s] = SubSeq(@, k + 1, Len(@))]
  /\ UNCHANGED <<segment, records>>

\* Two parts of a file that change are one file that is replaced.
LEMMA TwoParts ==
  ASSUME NEW i, NEW l, NEW torn
  PROVE  [files EXCEPT ![i].lines = l, ![i].torn = torn]
           = [files EXCEPT ![i] = [files[i] EXCEPT !.lines = l, !.torn = torn]]
BY Zenon

\* Flush lets records of a stream's buffer reach the stream's open segment.
LEMMA FlushPersists ==
  ASSUME StoreInv, NEW s \in Streams, Flush(s)
  PROVE  /\ segment[s] # None
         /\ \E k \in 0 .. Len(buffer[s]) : \E torn \in BOOLEAN : Persist(s, k, torn)
<1>. DEFINE l(k) == files[segment[s]].lines \o SubSeq(buffer[s], 1, k)
<1>1. segment[s] # None
  BY DEF Flush, StoreInv, Sound, OpenSegments
<1>2. PICK k \in 0 .. Len(buffer[s]) : \E torn \in BOOLEAN :
        /\ files' = [files EXCEPT ![segment[s]].lines = l(k), ![segment[s]].torn = torn]
        /\ buffer' = [buffer EXCEPT ![s] = SubSeq(@, k + 1, Len(@))]
  BY DEF Flush
<1>3. PICK torn \in BOOLEAN :
        files' = [files EXCEPT ![segment[s]].lines = l(k), ![segment[s]].torn = torn]
  BY <1>2
<1>4. UNCHANGED <<segment, records>>
  BY DEF Flush
<1>5. files' = [files EXCEPT ![segment[s]] =
                  [files[segment[s]] EXCEPT !.lines = l(k), !.torn = torn]]
  <2>. HIDE DEF l
  <2>. QED BY <1>3, TwoParts, Zenon
<1>6. Persist(s, k, torn)
  BY <1>2, <1>4, <1>5 DEF Persist, Extended
<1>. QED BY <1>1, <1>6

\* The first half of _finalize lets all of them reach it, and the last is complete.
LEMMA FinalizePersists ==
  ASSUME StoreInv, NEW s \in Streams, segment[s] # None, Finalize(s),
         UNCHANGED <<segment, records>>
  PROVE  Len(buffer[s]) \in 0 .. Len(buffer[s]) /\ Persist(s, Len(buffer[s]), FALSE)
<1>1. buffer[s] \in Seq(Numbers) /\ Len(buffer[s]) \in Nat
  BY LenProperties DEF StoreInv, Sound, Typed
<1>2. SubSeq(buffer[s], 1, Len(buffer[s])) = buffer[s]
  BY <1>1, SubSeqFull
<1>3. SubSeq(buffer[s], Len(buffer[s]) + 1, Len(buffer[s])) = <<>>
  BY <1>1, SubSeqEmpty
<1>. DEFINE l == files[segment[s]].lines \o buffer[s]
<1>4. files' = [files EXCEPT ![segment[s]] =
                  [files[segment[s]] EXCEPT !.lines = l, !.torn = FALSE]]
  <2>1. files' = [files EXCEPT ![segment[s]].lines = l, ![segment[s]].torn = FALSE]
    BY DEF Finalize
  <2>. HIDE DEF l
  <2>. QED BY <2>1, TwoParts, Zenon
<1>5. buffer' = [buffer EXCEPT ![s] = <<>>]
  BY DEF Finalize
<1>6. files' = [files EXCEPT ![segment[s]] = Extended(@, buffer[s], Len(buffer[s]), FALSE)]
  BY <1>2, <1>4, Zenon DEF Extended
<1>7. buffer' = [buffer EXCEPT ![s] = SubSeq(@, Len(@) + 1, Len(@))]
  BY <1>3, <1>5
<1>8. Persist(s, Len(buffer[s]), FALSE)
  <2>. HIDE DEF l
  <2>. QED BY <1>6, <1>7, Zenon DEF Persist
<1>9. \A n \in Nat : n \in 0 .. n
  OBVIOUS
<1>. QED BY <1>1, <1>8, <1>9, Zenon

\* Records of a buffer reach their file.
LEMMA StepPersist ==
  ASSUME StoreInv, NEW s \in Streams, segment[s] # None, NEW k \in 0 .. Len(buffer[s]),
         NEW torn \in BOOLEAN, Persist(s, k, torn)
  PROVE  Sound(files', segment', buffer', records') /\ Kept(files, files')
BY Persisted DEF StoreInv, Persist

\* A flush.
LEMMA StepFlush ==
  ASSUME StoreInv, NEW s \in Streams, Flush(s)
  PROVE  StoreInv' /\ Kept(files, files')
<1>1. Sound(files', segment', buffer', records') /\ Kept(files, files')
  BY FlushPersists, StepPersist
<1>2. UNCHANGED <<writer, starts, renamed>> /\ writer \in {"open", "close"} /\ renamed = None
  BY DEF Flush, StoreInv, Renaming
<1>. QED BY <1>1, <1>2 DEF StoreInv, Renaming

\* A rotation, or the end of a segment at close(), up to the rename.
LEMMA StepFinalize ==
  ASSUME StoreInv, NEW s \in Streams,
         CloseOne(s) \/ \E date \in Dates : Rotate(s, date)
  PROVE  StoreInv' /\ Kept(files, files')
<1>1. segment[s] # None /\ Finalize(s) /\ UNCHANGED <<starts, segment, records>>
  BY DEF CloseOne, Rotate
<1>2. Persist(s, Len(buffer[s]), FALSE) /\ Len(buffer[s]) \in 0 .. Len(buffer[s])
  BY <1>1, FinalizePersists
<1>3. Sound(files', segment', buffer', records') /\ Kept(files, files')
  BY <1>1, <1>2, StepPersist
<1>4. \E date \in Dates \cup {None} :
        /\ renamed' = [stream |-> s, date |-> date]
        /\ date # None => Len(records) < MaxRecords
  BY DEF CloseOne, Rotate
<1>5. /\ renamed' \in [stream : Streams, date : Dates \cup {None}] /\ renamed' # None
      /\ renamed'.stream = s
      /\ renamed'.date # None => Len(records) < MaxRecords
  BY <1>4, StoreAssumption
<1>6. segment[s] \in DOMAIN files /\ files \in Seq(Files) /\ buffer \in [Streams -> Seq(Numbers)]
  BY <1>1, SegmentFile DEF StoreInv, Sound, Typed
<1>7. buffer'[s] = <<>> /\ ~ files'[segment[s]].torn /\ writer' = "rename"
  <2>1. buffer'[s] = <<>> /\ writer' = "rename"
    BY <1>1, <1>6 DEF Finalize
  <2>2. files'[segment[s]] = Extended(files[segment[s]], buffer[s], Len(buffer[s]), FALSE)
    BY <1>2, <1>6 DEF Persist
  <2>. QED BY <2>1, <2>2 DEF Extended
<1>. QED BY <1>1, <1>3, <1>5, <1>7 DEF StoreInv, Renaming

\* write() into the open segment, which is for the record's date.
LEMMA StepWrite ==
  ASSUME StoreInv, NEW s \in Streams, NEW date \in Dates, Write(s, date)
  PROVE  StoreInv' /\ Kept(files, files')
<1>1. /\ segment[s] # None /\ files[segment[s]].date = date /\ Len(records) < MaxRecords
      /\ buffer' = [buffer EXCEPT ![s] = Append(@, Len(records) + 1)]
      /\ records' = Append(records, date)
  BY DEF Write, OtherDate, Put
<1>2. UNCHANGED <<writer, starts, files, segment, renamed>> /\ writer = "open"
  BY DEF Write
<1>3. Sound(files, segment, buffer', records')
  <2>1. Sound(files, segment, buffer, records)
    BY DEF StoreInv
  <2>. QED BY <1>1, <2>1, Added
<1>4. renamed = None
  BY <1>2 DEF StoreInv, Renaming
<1>. QED BY <1>2, <1>3, <1>4 DEF StoreInv, Renaming, Kept

\* A segment is opened behind the files there are, and the record comes first in it.
LEMMA OpenedAndAdded ==
  ASSUME NEW F, NEW G, Sound(F, G, buffer, records), NEW s \in Streams, G[s] = None,
         NEW date \in Dates, Len(records) < MaxRecords,
         files' = OneMore(F, s, date), segment' = Placed(G, s, Len(F) + 1),
         Put(s, date)
  PROVE  Sound(files', segment', buffer', records') /\ Kept(F, files')
<1>1. /\ Sound(files', segment', buffer, records) /\ Kept(F, files')
      /\ segment'[s] # None /\ files'[segment'[s]].date = date
  BY Opened
<1>2. /\ buffer' = [buffer EXCEPT ![s] = Append(@, Len(records) + 1)]
      /\ records' = Append(records, date)
  BY DEF Put
<1>. QED BY <1>1, <1>2, Added

\* write() for a stream that has no open segment.
LEMMA StepWriteFirst ==
  ASSUME StoreInv, NEW s \in Streams, NEW date \in Dates, WriteFirst(s, date)
  PROVE  StoreInv' /\ Kept(files, files')
<1>1. /\ segment[s] = None /\ Len(records) < MaxRecords /\ Put(s, date)
      /\ files' = OneMore(files, s, date)
      /\ segment' = Placed(segment, s, Len(files) + 1)
  BY DEF WriteFirst, OpenWith, New, Placed, OneMore
<1>2. UNCHANGED <<writer, starts, renamed>> /\ writer = "open"
  BY DEF WriteFirst
<1>3. Sound(files', segment', buffer', records') /\ Kept(files, files')
  <2>1. Sound(files, segment, buffer, records)
    BY DEF StoreInv
  <2>. QED BY <1>1, <2>1, OpenedAndAdded
<1>4. renamed = None
  BY <1>2 DEF StoreInv, Renaming
<1>. QED BY <1>2, <1>3, <1>4 DEF StoreInv, Renaming

\* The rename itself, which leaves the stream without a segment.
LEMMA FinalKept ==
  ASSUME StoreInv, Rename
  PROVE  /\ renamed.stream \in Streams /\ segment[renamed.stream] # None
         /\ renamed.date \in Dates \cup {None} /\ buffer[renamed.stream] = <<>>
         /\ Sound(Final, Placed(segment, renamed.stream, None), buffer, records)
         /\ Kept(files, Final) /\ SameLines(files, Final) /\ Len(Final) = Len(files)
<1>. DEFINE s == renamed.stream
<1>1. renamed # None
  BY DEF Rename, StoreInv, Renaming
<1>2. s \in Streams /\ renamed.date \in Dates \cup {None}
  BY <1>1 DEF StoreInv
<1>3. /\ segment[s] # None /\ buffer[s] = <<>> /\ ~ files[segment[s]].torn
      /\ Sound(files, segment, buffer, records)
  BY <1>1 DEF StoreInv, Renaming
<1>4. Final = Renamed(files, segment[s])
  BY DEF Final, Renamed
<1>. HIDE DEF s
<1>5. /\ Sound(Final, Placed(segment, s, None), buffer, records)
      /\ Kept(files, Final) /\ SameLines(files, Final) /\ Len(Final) = Len(files)
  BY <1>2, <1>3, <1>4, Finalized
<1>. QED BY <1>2, <1>3, <1>5 DEF s

\* ... and with the record that is to be written next, if there is one.
LEMMA StepRename ==
  ASSUME StoreInv, Rename
  PROVE  StoreInv' /\ Kept(files, files')
<1>. DEFINE s == renamed.stream  D == Placed(segment, s, None)
<1>1. /\ s \in Streams /\ segment[s] # None /\ Kept(files, Final) /\ Len(Final) = Len(files)
      /\ Sound(Final, D, buffer, records) /\ D[s] = None
  <2>1. segment \in [Streams -> Nat \cup {None}]
    BY DEF StoreInv, Sound, Typed
  <2>. QED BY <2>1, FinalKept DEF Placed
<1>2. renamed' = None /\ starts' = starts
  BY DEF Rename
<1>3. CASE renamed.date = None
  <2>1. /\ files' = Final /\ segment' = D /\ writer' = "close"
        /\ UNCHANGED <<buffer, records>>
    BY <1>3 DEF Rename, Placed
  <2>. HIDE DEF D
  <2>2. Sound(files', segment', buffer', records') /\ Kept(files, files')
    BY <1>1, <2>1
  <2>. QED BY <1>2, <2>1, <2>2 DEF StoreInv, Renaming
<1>4. CASE renamed.date # None
  <2>. DEFINE date == renamed.date
  <2>1. date \in Dates /\ Len(records) < MaxRecords
    <3>1. renamed # None
      BY DEF Rename, StoreInv, Renaming
    <3>. QED BY <1>4, <3>1, FinalKept DEF StoreInv, Renaming
  <2>2. NewSegment /\ writer' = "open"
    BY <1>4 DEF Rename
  <2>3. /\ files' = OneMore(Final, s, date) /\ Put(s, date)
        /\ segment' = [segment EXCEPT ![s] = Len(Final) + 1]
    BY <2>2 DEF NewSegment, OpenWith, New, OneMore
  <2>4. segment' = Placed(D, s, Len(Final) + 1)
    <3>1. segment \in [Streams -> Nat \cup {None}]
      BY DEF StoreInv, Sound, Typed
    <3>. QED BY <1>1, <2>3, <3>1 DEF Placed
  <2>. HIDE DEF D, s, date
  <2>5. Sound(files', segment', buffer', records') /\ Kept(Final, files')
    BY <1>1, <2>1, <2>3, <2>4, OpenedAndAdded
  <2>6. Kept(files, files')
    BY <1>1, <2>5 DEF Kept
  <2>. QED BY <1>2, <2>2, <2>5, <2>6 DEF StoreInv, Renaming
<1>. QED BY <1>3, <1>4

-----------------------------------------------------------------------------
(* What holds of every run *)

\* Every step leaves the invariant as it is, and what readers have found.
LEMMA StoreStep ==
  ASSUME StoreInv, [StoreNext]_storeVars
  PROVE  StoreInv' /\ Kept(files, files')
<1>1. CASE StoreCrash
  BY <1>1, StepCrash
<1>2. CASE Start \/ RecoveryEnds \/ Close \/ CloseEnds
  BY <1>2, StepControl
<1>3. CASE Rename
  BY <1>3, StepRename
<1>4. CASE \E i \in Partials : Truncate(i) \/ Recovered(i)
  BY <1>4, StepRestore
<1>5. CASE \E s \in Streams : Flush(s)
  BY <1>5, StepFlush
<1>6. CASE \E s \in Streams : CloseOne(s)
  BY <1>6, StepFinalize
<1>7. CASE \E s \in Streams, date \in Dates : Write(s, date)
  BY <1>7, StepWrite
<1>8. CASE \E s \in Streams, date \in Dates : WriteFirst(s, date)
  BY <1>8, StepWriteFirst
<1>9. CASE \E s \in Streams, date \in Dates : Rotate(s, date)
  BY <1>9, StepFinalize
<1>10. CASE UNCHANGED storeVars
  <2>1. UNCHANGED <<writer, starts, files, segment, buffer, records, renamed>>
    BY <1>10 DEF storeVars
  <2>. QED BY <2>1 DEF StoreInv, Sound, Typed, Numbered, OpenSegments, Attached, Renaming, Kept
<1>. QED BY <1>1, <1>2, <1>3, <1>4, <1>5, <1>6, <1>7, <1>8, <1>9, <1>10 DEF StoreNext

\* The invariant of every run of the writer.
THEOREM StoreInvariant == StoreSpec => []StoreInv
<1>1. StoreInv /\ [StoreNext]_storeVars => StoreInv'
  BY StoreStep
<1>. QED BY StoreBegins, <1>1, PTL DEF StoreSpec

\* Every variable keeps to its values, and only an open segment has a buffer.
THEOREM StoreTyped == StoreSpec => []StoreTypeOK
<1>1. StoreInv => StoreTypeOK
  <2>. SUFFICES ASSUME StoreInv PROVE StoreTypeOK
    OBVIOUS
  <2>1. files \in Seq(Files) /\ records \in Seq(Dates)
    BY DEF StoreInv, Sound, Typed
  <2>2. \A s \in Streams : segment[s] = None => buffer[s] = <<>>
    BY DEF StoreInv, Sound, OpenSegments
  <2>3. \A s \in Streams : segment[s] # None =>
          segment[s] \in DOMAIN files /\ files[segment[s]].stream = s
    BY DEF StoreInv, Sound, OpenSegments, Attached
  <2>. QED BY <2>1, <2>2, <2>3 DEF StoreInv, StoreTypeOK, Renaming, Files, Numbers
<1>. QED BY <1>1, StoreInvariant, PTL

\* A file that readers look at never ends in a part of a record, whatever the
\* process was doing when it was killed.
THEOREM FinalComplete == StoreSpec => []FinalIsComplete
<1>1. StoreInv => FinalIsComplete
  BY DEF StoreInv, Sound, Complete1, FinalIsComplete
<1>. QED BY <1>1, StoreInvariant, PTL

\* A file holds records of its own date only, in whatever order the dates arrive.
THEOREM PartitionsHold == StoreSpec => []PartitionHolds
<1>1. StoreInv => PartitionHolds
  BY DEF StoreInv, Sound, OneDate, PartitionHolds
<1>. QED BY <1>1, StoreInvariant, PTL

\* A file that readers look at never changes, nor does a restart replace it.
THEOREM FinalNeverChanges == StoreSpec => FinalIsImmutable
<1>1. StoreInv /\ [StoreNext]_storeVars =>
        [\A i \in DOMAIN files : files[i].state = "final" =>
           i \in DOMAIN files' /\ files'[i] = files[i]]_storeVars
  BY StoreStep DEF Kept
<1>. QED BY <1>1, StoreInvariant, PTL DEF StoreSpec, FinalIsImmutable

-----------------------------------------------------------------------------
(* The files of a stream are the log of RecordLog. *)

\* What the files hold of a stream, file by file.
Part(F, s) == [i \in DOMAIN F |-> IF F[i].stream = s THEN F[i].lines ELSE <<>>]

\* They are as many sequences of numbers as there are files.
LEMMA PartTyped ==
  ASSUME NEW F \in Seq(Files), NEW s
  PROVE  /\ Part(F, s) \in Seq(Seq(Numbers)) /\ Len(Part(F, s)) = Len(F)
         /\ DOMAIN F = 1 .. Len(F) /\ Len(F) \in Nat
<1>1. DOMAIN F = 1 .. Len(F) /\ Len(F) \in Nat
  BY LenProperties
<1>2. \A i \in DOMAIN F : F[i].lines \in Seq(Numbers)
  BY FileParts
<1>3. Part(F, s) \in [1 .. Len(F) -> Seq(Numbers)]
  BY <1>1, <1>2, EmptySeq DEF Part
<1>4. Part(F, s) \in Seq(Seq(Numbers))
  BY <1>1, <1>3
<1>5. Len(Part(F, s)) = Len(F)
  BY <1>1, <1>3, <1>4, LenProperties
<1>. QED BY <1>1, <1>4, <1>5

\* Lines that stay where they are leave the log as it is.
LEMMA SameLog ==
  ASSUME NEW F, NEW H, SameLines(F, H), NEW s
  PROVE  Part(H, s) = Part(F, s)
BY DEF SameLines, Part

\* An empty file more leaves it as it is.
LEMMA OpenedLog ==
  ASSUME NEW F \in Seq(Files), NEW H, NEW s \in Streams, NEW date \in Dates,
         H = OneMore(F, s, date), NEW u
  PROVE  FlattenSeq(Part(H, u)) = FlattenSeq(Part(F, u))
<1>. DEFINE n == Len(F)  P == Part(F, u)
<1>1. New(s, date) \in Files /\ New(s, date).lines = <<>>
  BY EmptySeq DEF New, Files
<1>2. /\ H \in Seq(Files) /\ n \in Nat /\ DOMAIN F = 1 .. n /\ DOMAIN H = 1 .. n + 1
      /\ H[n + 1] = New(s, date) /\ \A j \in DOMAIN F : H[j] = F[j] /\ j \in DOMAIN H
  BY <1>1, FileAdded DEF OneMore
<1>3. P \in Seq(Seq(Numbers)) /\ Len(P) = n /\ DOMAIN P = 1 .. n
  BY <1>2, PartTyped DEF Part
<1>4. <<>> \in Seq(Numbers)
  BY EmptySeq
<1>. HIDE DEF n, P
<1>5. Part(H, u) = Append(P, <<>>)
  <2>1. /\ Append(P, <<>>) \in Seq(Seq(Numbers)) /\ Len(Append(P, <<>>)) = n + 1
        /\ Append(P, <<>>)[n + 1] = <<>> /\ \A i \in 1 .. n : Append(P, <<>>)[i] = P[i]
    BY <1>3, <1>4, AppendProperties
  <2>2. /\ Part(H, u) \in Seq(Seq(Numbers)) /\ Len(Part(H, u)) = n + 1
    <3>1. Len(H) = n + 1
      BY <1>2, LenProperties
    <3>. QED BY <1>2, <3>1, PartTyped
  <2>3. Part(H, u)[n + 1] = <<>> /\ \A i \in 1 .. n : Part(H, u)[i] = P[i]
    BY <1>1, <1>2 DEF Part, P
  <2>4. \A i \in 1 .. n + 1 : i = n + 1 \/ i \in 1 .. n
    BY <1>2
  <2>5. \A i \in 1 .. n + 1 : Part(H, u)[i] = Append(P, <<>>)[i]
    BY <2>1, <2>3, <2>4
  <2>. QED BY <2>1, <2>2, <2>5, SeqEqual
<1>. QED BY <1>3, <1>5, FlattenNothingMore DEF P

\* Records that reach a stream's file come last in its log, for the file is behind
\* every other of the stream.
LEMMA PersistedLog ==
  ASSUME NEW F, NEW G, NEW B, NEW R, Sound(F, G, B, R),
         NEW s \in Streams, G[s] # None, NEW k \in 0 .. Len(B[s]), NEW torn \in BOOLEAN,
         NEW H, H = Longer(F, G[s], B[s], k, torn)
  PROVE  /\ FlattenSeq(Part(H, s)) = FlattenSeq(Part(F, s)) \o SubSeq(B[s], 1, k)
         /\ \A u \in Streams : u # s => Part(H, u) = Part(F, u)
<1>. DEFINE place == G[s]  f == F[place]  t == SubSeq(B[s], 1, k)  g == Extended(f, B[s], k, torn)
            n == Len(F)
<1>1. /\ place \in DOMAIN F /\ f \in Files /\ Attached(F, place, B[s], R, s)
      /\ F \in Seq(Files) /\ B[s] \in Seq(Numbers)
  BY SegmentFile DEF Sound, Typed
<1>2. t \in Seq(Numbers) /\ f.lines \o t \in Seq(Numbers)
  <2>1. t \in Seq(Numbers)
    BY <1>1, BufferParts
  <2>2. f.lines \in Seq(Numbers)
    BY <1>1 DEF Files
  <2>. HIDE DEF t, f
  <2>. QED BY <2>1, <2>2, LinesPut
<1>3. g \in Files /\ g.stream = s /\ g.lines = f.lines \o t
  BY <1>1, <1>2 DEF Extended, Files, Attached
<1>4. /\ H \in Seq(Files) /\ DOMAIN H = DOMAIN F /\ Len(H) = n /\ H[place] = g
      /\ \A j \in DOMAIN F : j # place => H[j] = F[j]
  <2>1. H = Replaced(F, place, g)
    BY DEF Replaced, Longer
  <2>2. F \in Seq(Files) /\ place \in DOMAIN F /\ g \in Files
    BY <1>1, <1>3
  <2>. HIDE DEF f, g, place, n
  <2>3. LET K == Replaced(F, place, g)
        IN  /\ K \in Seq(Files) /\ DOMAIN K = DOMAIN F /\ Len(K) = Len(F)
            /\ K[place] = g /\ \A j \in DOMAIN F : j # place => K[j] = F[j]
    BY <2>2, FileReplaced
  <2>. QED BY <2>1, <2>3, Zenon DEF n
<1>5. /\ Part(F, s) \in Seq(Seq(Numbers)) /\ Len(Part(F, s)) = n /\ DOMAIN F = 1 .. n
      /\ Part(H, s) \in Seq(Seq(Numbers)) /\ Len(Part(H, s)) = n /\ n \in Nat
  BY <1>1, <1>4, PartTyped
<1>. HIDE DEF g, n, t, place
<1>6. /\ \A j \in 1 .. n : j # place => Part(H, s)[j] = Part(F, s)[j]
      /\ Part(H, s)[place] = Part(F, s)[place] \o t /\ place \in 1 .. n
  <2>1. f.stream = s
    BY <1>1 DEF Attached
  <2>. QED BY <1>1, <1>3, <1>4, <1>5, <2>1 DEF Part
<1>7. \A j \in place + 1 .. n : Part(F, s)[j] = <<>>
  <2>1. \A j \in place + 1 .. n : j > place /\ j \in DOMAIN F
    BY <1>5, <1>6
  <2>. QED BY <1>1, <2>1 DEF Part, Attached
<1>8. FlattenSeq(Part(H, s)) = FlattenSeq(Part(F, s)) \o t
  <2>. DEFINE P == Part(F, s)  Q == Part(H, s)
  <2>1. /\ P \in Seq(Seq(Numbers)) /\ Q \in Seq(Seq(Numbers)) /\ Len(Q) = Len(P)
        /\ place \in 1 .. Len(P) /\ t \in Seq(Numbers) /\ Q[place] = P[place] \o t
        /\ \A j \in 1 .. Len(P) : j # place => Q[j] = P[j]
        /\ \A j \in place + 1 .. Len(P) : P[j] = <<>>
    BY <1>2, <1>5, <1>6, <1>7
  <2>. HIDE DEF P, Q
  <2>2. FlattenSeq(Q) = FlattenSeq(P) \o t
    BY <2>1, FlattenGrows, Zenon
  <2>. QED BY <2>2 DEF P, Q
<1>9. ASSUME NEW u \in Streams, u # s PROVE Part(H, u) = Part(F, u)
  <2>1. f.stream = s
    BY <1>1 DEF Attached
  <2>. QED BY <1>1, <1>3, <1>4, <1>9, <2>1 DEF Part
<1>. QED BY <1>8, <1>9 DEF t

\* The numbers of a stream's log and of its buffer are those of records written,
\* so the next number is newer than each.
LEMMA NextIsNewest ==
  ASSUME NEW F, NEW G, NEW B, NEW R, Sound(F, G, B, R), NEW s \in Streams,
         NEW log, log = FlattenSeq(Part(F, s))
  PROVE  /\ \A i \in DOMAIN log : log[i] < Len(R) + 1
         /\ \A i \in DOMAIN B[s] : B[s][i] < Len(R) + 1
<1>. DEFINE N == Len(R)  Written == 1 .. N
<1>1. /\ F \in Seq(Files) /\ B[s] \in Seq(Numbers) /\ N \in Nat /\ MaxRecords \in Nat
      /\ \A i \in DOMAIN F : \A k \in DOMAIN F[i].lines : F[i].lines[k] <= N
      /\ \A k \in DOMAIN B[s] : B[s][k] <= N
  BY StoreAssumption, LenProperties DEF Sound, Typed, Numbered
<1>. HIDE DEF N
<1>2. ASSUME NEW i \in DOMAIN F PROVE F[i].lines \in Seq(Written)
  <2>1. /\ F[i].lines \in Seq(Numbers) /\ DOMAIN F[i].lines = 1 .. Len(F[i].lines)
        /\ Len(F[i].lines) \in Nat
    BY <1>1, FileParts
  <2>2. \A k \in 1 .. Len(F[i].lines) : F[i].lines[k] \in Written
    <3>1. \A k \in 1 .. Len(F[i].lines) : F[i].lines[k] \in Numbers
      BY <2>1, ElementOfSeq
    <3>. QED BY <1>1, <2>1, <3>1 DEF Numbers
  <2>. DEFINE l == F[i].lines
  <2>3. l \in [1 .. Len(l) -> Numbers] /\ Len(l) \in Nat /\ \A k \in 1 .. Len(l) : l[k] \in Written
    BY <2>1, <2>2, LenProperties
  <2>. HIDE DEF l, Written
  <2>4. l \in [1 .. Len(l) -> Written]
    BY <2>3
  <2>5. l \in Seq(Written)
    BY <2>3, <2>4
  <2>. QED BY <2>5 DEF l
<1>3. Part(F, s) \in Seq(Seq(Written))
  <2>1. DOMAIN F = 1 .. Len(F) /\ Len(F) \in Nat
    BY <1>1, LenProperties
  <2>2. Part(F, s) \in [1 .. Len(F) -> Seq(Written)]
    BY <1>2, <2>1, EmptySeq DEF Part
  <2>. QED BY <2>1, <2>2
<1>4. log \in Seq(Written)
  BY <1>3, FlattenTyped
<1>5. ASSUME NEW i \in DOMAIN log PROVE log[i] < N + 1
  <2>1. log \in [1 .. Len(log) -> Written]
    BY <1>4, LenProperties
  <2>2. log[i] \in Written
    BY <2>1
  <2>. QED BY <1>1, <2>2
<1>6. ASSUME NEW i \in DOMAIN B[s] PROVE B[s][i] < N + 1
  <2>1. B[s][i] \in Numbers
    BY <1>1
  <2>. QED BY <1>1, <2>1 DEF Numbers
<1>. QED BY <1>5, <1>6 DEF N

\* What RecordLog calls the log.
Disk == [s \in Streams |-> OnDisk(s)]

\* OnDisk puts the parts of a stream together.
LEMMA DiskParts == \A s \in Streams : OnDisk(s) = FlattenSeq(Part(files, s))
BY DEF OnDisk, Part

\* The directory is empty at the beginning.
LEMMA LogInit == StoreInit => Log!Init
<1>. SUFFICES ASSUME StoreInit PROVE Log!Init
  OBVIOUS
<1>1. \A s \in Streams : Part(files, s) = <<>>
  BY DEF StoreInit, Part
<1>2. FlattenSeq(<<>>) = <<>>
  BY EmptySeq DEF FlattenSeq
<1>3. \A s \in Streams : OnDisk(s) = <<>>
  BY <1>1, <1>2, DiskParts
<1>4. buffer = [s \in Streams |-> <<>>]
  BY DEF StoreInit, NoBuffers
<1>. QED BY <1>3, <1>4 DEF Log!Init

\* Steps that leave every stream's lines where they are, and the buffers.
LEMMA LogUnchanged ==
  ASSUME SameLines(files, files'), UNCHANGED buffer
  PROVE  UNCHANGED <<Disk, buffer>>
<1>1. \A s \in Streams : OnDisk(s)' = OnDisk(s)
  <2>1. \A s \in Streams : Part(files', s) = Part(files, s)
    BY SameLog
  <2>2. \A s \in Streams : OnDisk(s)' = FlattenSeq(Part(files', s))
    BY DEF OnDisk, Part
  <2>. QED BY <2>1, <2>2, DiskParts
<1>. QED BY <1>1 DEF Disk

\* A flush, or the first half of _finalize, persists records of a stream.
LEMMA LogPersists ==
  ASSUME StoreInv, NEW s \in Streams, segment[s] # None, NEW k \in 0 .. Len(buffer[s]),
         NEW torn \in BOOLEAN, Persist(s, k, torn)
  PROVE  Log!Persist(s)
<1>1. /\ FlattenSeq(Part(files', s)) = FlattenSeq(Part(files, s)) \o SubSeq(buffer[s], 1, k)
      /\ \A u \in Streams : u # s => Part(files', u) = Part(files, u)
  <2>1. files' = Longer(files, segment[s], buffer[s], k, torn)
    BY DEF Persist, Longer
  <2>. QED BY <2>1, PersistedLog DEF StoreInv
<1>2. \A u \in Streams : OnDisk(u)' = FlattenSeq(Part(files', u))
  BY DEF OnDisk, Part
<1>3. /\ OnDisk(s)' = OnDisk(s) \o SubSeq(buffer[s], 1, k)
      /\ \A u \in Streams : u # s => OnDisk(u)' = OnDisk(u)
  BY <1>1, <1>2, DiskParts
<1>. DEFINE t == SubSeq(buffer[s], 1, k)
<1>4. Disk' = [Disk EXCEPT ![s] = @ \o t]
  <2>1. Disk' = [u \in Streams |-> OnDisk(u)']
    BY DEF Disk
  <2>. HIDE DEF t
  <2>. QED BY <1>3, <2>1 DEF Disk, t
<1>5. buffer' = [buffer EXCEPT ![s] = SubSeq(@, k + 1, Len(@))]
  BY DEF Persist
<1>. QED BY <1>4, <1>5 DEF Log!Persist, Disk

\* A write adds a record that is newer than every other of its stream, whether or
\* not a segment was opened for it.
LEMMA LogAdds ==
  ASSUME StoreInv, NEW s \in Streams, NEW date, Len(records) < MaxRecords, Put(s, date),
         \A u \in Streams : OnDisk(u)' = OnDisk(u)
  PROVE  Log!Add(s)
<1>. DEFINE r == Len(records) + 1
<1>1. Len(records) \in Nat /\ MaxRecords \in Nat
  BY StoreAssumption, LenProperties DEF StoreInv, Sound, Typed
<1>2. r \in 1 .. MaxRecords
  BY <1>1
<1>3. /\ \A i \in DOMAIN OnDisk(s) : OnDisk(s)[i] < r
      /\ \A i \in DOMAIN buffer[s] : buffer[s][i] < r
  BY DiskParts, NextIsNewest DEF StoreInv
<1>4. buffer' = [buffer EXCEPT ![s] = Append(@, r)]
  BY DEF Put
<1>5. Disk' = Disk
  BY DEF Disk
<1>. HIDE DEF r
<1>6. \A n \in Log!Numbers(Disk[s]) \cup Log!Numbers(buffer[s]) : n < r
  BY <1>3 DEF Log!Numbers, Disk
<1>. QED BY <1>2, <1>4, <1>5, <1>6 DEF Log!Add, Disk

\* Every step of the writer is a step of the log, or leaves it as it is.
LEMMA LogStep ==
  ASSUME StoreInv, [StoreNext]_storeVars
  PROVE  Log!Next \/ UNCHANGED <<Disk, buffer>>
<1>1. CASE StoreCrash
  <2>1. files' = files /\ buffer' = [s \in Streams |-> <<>>]
    BY <1>1 DEF StoreCrash, NoBuffers
  <2>2. Disk' = Disk
    BY <2>1 DEF Disk, OnDisk
  <2>3. Log!Lose
    BY <2>1, <2>2 DEF Log!Lose, Disk
  <2>. QED BY <2>3 DEF Log!Next
<1>2. CASE Start \/ RecoveryEnds \/ Close \/ CloseEnds
  <2>1. UNCHANGED <<files, buffer>>
    BY <1>2 DEF Start, RecoveryEnds, Close, CloseEnds
  <2>. QED BY <2>1, LogUnchanged DEF SameLines
<1>3. CASE \E i \in Partials : Truncate(i) \/ Recovered(i)
  <2>1. UNCHANGED buffer
    BY <1>3 DEF Truncate, Recovered
  <2>. QED BY <1>3, <2>1, StepRestore, LogUnchanged
<1>4. CASE \E s \in Streams : Flush(s)
  <2>1. PICK s \in Streams : Flush(s)
    BY <1>4
  <2>2. Log!Persist(s)
    BY <2>1, FlushPersists, LogPersists
  <2>. QED BY <2>2 DEF Log!Next
<1>5. CASE \E s \in Streams : CloseOne(s) \/ \E date \in Dates : Rotate(s, date)
  <2>1. PICK s \in Streams : segment[s] # None /\ Finalize(s) /\ UNCHANGED <<segment, records>>
    BY <1>5 DEF CloseOne, Rotate
  <2>2. Log!Persist(s)
    BY <2>1, FinalizePersists, LogPersists
  <2>. QED BY <2>2 DEF Log!Next
<1>6. CASE \E s \in Streams, date \in Dates : Write(s, date)
  <2>1. PICK s \in Streams, date \in Dates : Write(s, date)
    BY <1>6
  <2>2. files' = files /\ Len(records) < MaxRecords /\ Put(s, date)
    BY <2>1 DEF Write
  <2>3. \A u \in Streams : OnDisk(u)' = OnDisk(u)
    BY <2>2 DEF OnDisk
  <2>4. Log!Add(s)
    BY <2>2, <2>3, LogAdds
  <2>. QED BY <2>4 DEF Log!Next
<1>7. CASE \E s \in Streams, date \in Dates : WriteFirst(s, date)
  <2>1. PICK s \in Streams, date \in Dates : WriteFirst(s, date)
    BY <1>7
  <2>2. files' = OneMore(files, s, date) /\ Len(records) < MaxRecords /\ Put(s, date)
    BY <2>1 DEF WriteFirst, OpenWith, OneMore, New
  <2>3. ASSUME NEW u \in Streams PROVE OnDisk(u)' = OnDisk(u)
    <3>1. FlattenSeq(Part(files', u)) = FlattenSeq(Part(files, u))
      BY <2>2, OpenedLog DEF StoreInv, Sound, Typed
    <3>2. OnDisk(u)' = FlattenSeq(Part(files', u))
      BY DEF OnDisk, Part
    <3>. QED BY <3>1, <3>2, DiskParts
  <2>4. Log!Add(s)
    BY <2>2, <2>3, LogAdds
  <2>. QED BY <2>4 DEF Log!Next
<1>8. CASE Rename
  <2>1. CASE renamed.date = None
    <3>1. files' = Final /\ UNCHANGED buffer
      BY <1>8, <2>1 DEF Rename
    <3>. QED BY <1>8, <3>1, FinalKept, LogUnchanged
  <2>2. CASE renamed.date # None
    <3>. DEFINE s == renamed.stream  date == renamed.date
    <3>1. s \in Streams /\ date \in Dates /\ Len(records) < MaxRecords
      <4>1. renamed # None
        BY <1>8 DEF Rename, StoreInv, Renaming
      <4>. QED BY <1>8, <2>2, <4>1, FinalKept DEF StoreInv, Renaming
    <3>2. files' = OneMore(Final, s, date) /\ Put(s, date)
      BY <1>8, <2>2 DEF Rename, NewSegment, OpenWith, OneMore, New
    <3>3. Final \in Seq(Files) /\ SameLines(files, Final)
      BY <1>8, FinalKept DEF Sound, Typed
    <3>. HIDE DEF s, date
    <3>4. ASSUME NEW u \in Streams PROVE OnDisk(u)' = OnDisk(u)
      <4>1. FlattenSeq(Part(files', u)) = FlattenSeq(Part(Final, u))
        BY <3>1, <3>2, <3>3, OpenedLog
      <4>2. Part(Final, u) = Part(files, u)
        BY <3>3, SameLog
      <4>3. OnDisk(u)' = FlattenSeq(Part(files', u))
        BY DEF OnDisk, Part
      <4>. QED BY <4>1, <4>2, <4>3, DiskParts
    <3>5. Log!Add(s)
      BY <3>1, <3>2, <3>4, LogAdds
    <3>. QED BY <3>1, <3>5 DEF Log!Next
  <2>. QED BY <2>1, <2>2
<1>9. CASE UNCHANGED storeVars
  <2>1. UNCHANGED <<files, buffer>>
    BY <1>9 DEF storeVars
  <2>. QED BY <2>1, LogUnchanged DEF SameLines
<1>. QED BY <1>1, <1>2, <1>3, <1>4, <1>5, <1>6, <1>7, <1>8, <1>9 DEF StoreNext

\* The files of a stream, read one after the other, are a log that never loses what
\* was in it, whatever is rotated, killed and recovered: the writer implements
\* RecordLog.
THEOREM StoreIsALog == StoreSpec => LogSpec
<1>1. StoreInv /\ [StoreNext]_storeVars => [Log!Next]_<<[s \in Streams |-> OnDisk(s)], buffer>>
  BY LogStep DEF Disk
<1>. QED BY <1>1, LogInit, StoreInvariant, PTL DEF StoreSpec, LogSpec, Log!Spec
=============================================================================
