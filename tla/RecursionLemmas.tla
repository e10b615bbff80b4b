-------------------------- MODULE RecursionLemmas --------------------------
(* What the proofs need of recursive functions: that they exist, and what the
   community modules' FlattenSeq makes of a log kept in several files.  The proofs
   are by the least number that is an exception. *)
EXTENDS Integers, SequencesExt, FiniteSetTheorems, SequenceTheorems,
        WellFoundedInduction, TLAPS

\* A set of numbers that is not empty has a least one.
LEMMA LeastNumber ==
  ASSUME NEW T, T \subseteq Nat, T # {}
  PROVE  \E x \in T : \A y \in T : x <= y
<1>. DEFINE Less == {pair \in Nat \X Nat : pair[1] < pair[2]}
<1>1. IsWellFoundedOn(Less, Nat)
  BY NatLessThanWellFounded DEF OpToRel
<1>2. \A x, y \in Nat : y < x => <<y, x>> \in Less
  OBVIOUS
<1>. HIDE DEF Less
<1>3. PICK x \in T : \A y \in T : ~ (<<y, x>> \in Less)
  BY <1>1, WFMin, Zenon
<1>4. ASSUME NEW y \in T PROVE x <= y
  <2>1. ~ (<<y, x>> \in Less)
    BY <1>3
  <2>2. ~ (y < x)
    BY <1>2, <2>1, Zenon
  <2>. QED BY <2>2
<1>. QED BY <1>4

\* A set that holds 0 and the next of each of its numbers below n has them all
\* up to n.
LEMMA UpTo ==
  ASSUME NEW n \in Nat, NEW T, 0 \in T, \A i \in 0 .. n - 1 : i \in T => i + 1 \in T
  PROVE  \A i \in 0 .. n : i \in T
<1>1. SUFFICES ASSUME NEW j \in 0 .. n, j \notin T PROVE FALSE
  OBVIOUS
<1>. DEFINE Exceptions == {i \in 0 .. n : i \notin T}
<1>2. Exceptions \subseteq Nat /\ j \in Exceptions
  BY <1>1
<1>3. PICK i \in Exceptions : \A k \in Exceptions : i <= k
  BY <1>2, LeastNumber
<1>4. i \in 0 .. n /\ i \notin T /\ i # 0
  OBVIOUS
<1>5. i - 1 \in 0 .. n - 1 /\ i - 1 \in T
  BY <1>3, <1>4
<1>6. (i - 1) + 1 \in T
  BY <1>5
<1>. QED BY <1>4, <1>6

\* The values up to the m-th, each made by G of the one before.
Recursion(f, m, V, c, G) ==
  /\ f \in [0 .. m -> V] /\ f[0] = c
  /\ \A i \in 1 .. m : f[i] = G[<<i, f[i - 1]>>]

\* A function whose value at i is made of its value at i - 1 exists.
LEMMA RecursionExists ==
  ASSUME NEW n \in Nat, NEW V, NEW c \in V, NEW G,
         \A i \in 1 .. n, x \in V : G[<<i, x>>] \in V
  PROVE  \E f : Recursion(f, n, V, c, G)
<1>. USE DEF Recursion
<1>. DEFINE T == {m \in 0 .. n : \E f : Recursion(f, m, V, c, G)}
<1>1. 0 \in T
  <2>. DEFINE f == [i \in 0 .. 0 |-> c]
  <2>1. Recursion(f, 0, V, c, G)
    OBVIOUS
  <2>. HIDE DEF f, Recursion
  <2>. QED BY <2>1
<1>2. ASSUME NEW m \in 0 .. n - 1, m \in T PROVE m + 1 \in T
  <2>1. PICK f : Recursion(f, m, V, c, G)
    BY <1>2
  <2>. DEFINE x == G[<<m + 1, f[m]>>]
              g == [i \in 0 .. m + 1 |-> IF i <= m THEN f[i] ELSE x]
  <2>2. m \in 0 .. m /\ f[m] \in V /\ x \in V
    BY <2>1
  <2>. HIDE DEF x
  <2>3. g \in [0 .. m + 1 -> V] /\ g[m + 1] = x /\ \A i \in 0 .. m : g[i] = f[i]
    BY <2>1, <2>2
  <2>. HIDE DEF g
  <2>4. ASSUME NEW i \in 1 .. m + 1 PROVE g[i] = G[<<i, g[i - 1]>>]
    <3>1. CASE i = m + 1
      BY <2>2, <2>3, <3>1 DEF x
    <3>2. CASE i # m + 1
      <4>1. i \in 1 .. m /\ i \in 0 .. m /\ i - 1 \in 0 .. m
        BY <3>2
      <4>. QED BY <2>1, <2>3, <4>1
    <3>. QED BY <3>1, <3>2
  <2>5. Recursion(g, m + 1, V, c, G)
    BY <2>1, <2>3, <2>4
  <2>. HIDE DEF Recursion
  <2>. QED BY <2>5
<1>3. \A m \in 0 .. n : m \in T
  <2>1. \A m \in 0 .. n - 1 : m \in T => m + 1 \in T
    BY <1>2
  <2>. HIDE DEF T
  <2>. QED BY <1>1, <2>1, UpTo
<1>4. n \in T
  BY <1>3
<1>. QED BY <1>4

-----------------------------------------------------------------------------
\* The sequences up to the n-th, put together one by one.
Sums(f, ss, n, S) ==
  /\ f \in [1 .. n -> Seq(S)]
  /\ n > 0 => f[1] = ss[1]
  /\ \A i \in 2 .. n : f[i] = f[i - 1] \o ss[i]

\* They can be put together.
LEMMA SumsExist ==
  ASSUME NEW S, NEW ss \in Seq(Seq(S))
  PROVE  \E f : Sums(f, ss, Len(ss), S)
<1>. DEFINE T == {n \in 0 .. Len(ss) : \E f : Sums(f, ss, n, S)}
<1>1. Len(ss) \in Nat /\ \A i \in 1 .. Len(ss) : ss[i] \in Seq(S)
  BY LenProperties, ElementOfSeq
<1>2. 0 \in T
  <2>1. Sums(<<>>, ss, 0, S)
    BY DEF Sums
  <2>. QED BY <1>1, <2>1
<1>3. ASSUME NEW n \in 0 .. Len(ss) - 1, n \in T PROVE n + 1 \in T
  <2>1. PICK f : Sums(f, ss, n, S)
    BY <1>3
  <2>. DEFINE last == IF n = 0 THEN ss[1] ELSE f[n] \o ss[n + 1]
              g == [i \in 1 .. n + 1 |-> IF i <= n THEN f[i] ELSE last]
  <2>2. last \in Seq(S)
    <3>1. CASE n = 0
      BY <1>1, <3>1
    <3>2. CASE n # 0
      <4>1. f[n] \in Seq(S) /\ ss[n + 1] \in Seq(S)
        BY <1>1, <2>1, <3>2 DEF Sums
      <4>. QED BY <4>1, <3>2, ConcatProperties
    <3>. QED BY <3>1, <3>2
  <2>3. g \in [1 .. n + 1 -> Seq(S)]
    <3>1. \A i \in 1 .. n : f[i] \in Seq(S)
      BY <2>1 DEF Sums
    <3>. HIDE DEF last
    <3>. QED BY <2>2, <3>1
  <2>4. g[1] = ss[1]
    <3>1. n > 0 => f[1] = ss[1]
      BY <2>1 DEF Sums
    <3>. QED BY <3>1
  <2>5. ASSUME NEW i \in 2 .. n + 1 PROVE g[i] = g[i - 1] \o ss[i]
    <3>1. CASE i = n + 1
      <4>1. n # 0 /\ n \in 1 .. n + 1 /\ n + 1 \in 1 .. n + 1 /\ i - 1 = n
        BY <3>1, <1>1
      <4>2. last = f[n] \o ss[n + 1]
        BY <4>1
      <4>3. g[n + 1] = last /\ g[n] = f[n]
        <5>. HIDE DEF last
        <5>. QED BY <4>1, <1>1
      <4>. HIDE DEF g, last
      <4>. QED BY <4>1, <4>2, <4>3, <3>1
    <3>2. CASE i # n + 1
      <4>1. g[i] = f[i] /\ g[i - 1] = f[i - 1] /\ i \in 2 .. n
        BY <3>2, <1>1
      <4>. HIDE DEF g
      <4>. QED BY <4>1, <2>1 DEF Sums
    <3>. QED BY <3>1, <3>2
  <2>6. Sums(g, ss, n + 1, S)
    <3>. HIDE DEF g
    <3>. QED BY <2>3, <2>4, <2>5 DEF Sums
  <2>. HIDE DEF g
  <2>. QED BY <1>1, <2>6
<1>. HIDE DEF T
<1>4. \A n \in 0 .. Len(ss) : n \in T
  <2>1. \A n \in 0 .. Len(ss) - 1 : n \in T => n + 1 \in T
    BY <1>3
  <2>. QED BY <1>1, <1>2, <2>1, UpTo
<1>5. Len(ss) \in T
  BY <1>1, <1>4
<1>. QED BY <1>5 DEF T

\* FlattenSeq is the last of the sums.
LEMMA FlattenIsLastSum ==
  ASSUME NEW S, NEW ss \in Seq(Seq(S)), Len(ss) # 0
  PROVE  \E f : Sums(f, ss, Len(ss), S) /\ FlattenSeq(ss) = f[Len(ss)]
<1>. DEFINE n == Len(ss)
            Def(f) == [i \in 1 .. n |-> IF i = 1 THEN ss[i] ELSE f[i - 1] \o ss[i]]
            flatten == CHOOSE f : f = Def(f)
<1>1. n \in Nat /\ n > 0
  BY LenProperties
<1>2. PICK f : Sums(f, ss, n, S)
  BY SumsExist
<1>3. f = Def(f)
  <2>1. f \in [1 .. n -> Seq(S)]
    BY <1>2 DEF Sums
  <2>2. ASSUME NEW i \in 1 .. n PROVE f[i] = IF i = 1 THEN ss[i] ELSE f[i - 1] \o ss[i]
    <3>1. i # 1 => i \in 2 .. n
      BY <1>1
    <3>2. f[1] = ss[1] /\ \A j \in 2 .. n : f[j] = f[j - 1] \o ss[j]
      BY <1>1, <1>2 DEF Sums
    <3>. QED BY <3>1, <3>2
  <2>3. f = [i \in 1 .. n |-> f[i]]
    BY <2>1
  <2>. QED BY <2>2, <2>3
<1>4. flatten = Def(flatten)
  BY <1>3
<1>5. FlattenSeq(ss) = flatten[n]
  BY <1>1 DEF FlattenSeq
<1>. HIDE DEF flatten
<1>6. \A i \in 1 .. n : flatten[i] = IF i = 1 THEN ss[i] ELSE flatten[i - 1] \o ss[i]
  BY <1>4
<1>. DEFINE T == {0} \cup {i \in 1 .. n : flatten[i] = f[i]}
<1>. HIDE DEF n
<1>7. ASSUME NEW i \in 0 .. n - 1, i \in T PROVE i + 1 \in T
  <2>1. i + 1 \in 1 .. n /\ (i + 1) - 1 = i
    BY <1>1
  <2>2. flatten[i + 1] = f[i + 1]
    <3>1. CASE i = 0
      <4>1. flatten[1] = ss[1] /\ f[1] = ss[1]
        BY <1>1, <1>2, <1>6 DEF Sums
      <4>. QED BY <3>1, <4>1
    <3>2. CASE i # 0
      <4>1. flatten[i] = f[i]
        BY <1>7, <3>2
      <4>2. i + 1 \in 2 .. n /\ i + 1 # 1
        BY <2>1, <3>2
      <4>3. flatten[i + 1] = flatten[(i + 1) - 1] \o ss[i + 1]
        BY <1>6, <2>1, <4>2, Zenon
      <4>4. f[i + 1] = f[(i + 1) - 1] \o ss[i + 1]
        BY <1>2, <4>2 DEF Sums
      <4>. QED BY <2>1, <4>1, <4>3, <4>4
    <3>. QED BY <3>1, <3>2
  <2>. QED BY <2>1, <2>2
<1>8. \A i \in 0 .. n : i \in T
  <2>1. 0 \in T
    OBVIOUS
  <2>2. \A i \in 0 .. n - 1 : i \in T => i + 1 \in T
    BY <1>7
  <2>. HIDE DEF T
  <2>. QED BY <1>1, <2>1, <2>2, UpTo
<1>9. flatten[n] = f[n]
  BY <1>1, <1>8
<1>. QED BY <1>2, <1>5, <1>9 DEF n

-----------------------------------------------------------------------------
\* Concatenation without its definition, which the provers would expand at once.
Join(a, b) == a \o b

\* A sequence that is put behind the second of two is behind both.
LEMMA JoinBehindBoth ==
  \A S : \A a, b, c \in Seq(S) : Join(a, Join(b, c)) = Join(Join(a, b), c)
<1>. SUFFICES ASSUME NEW S, NEW a \in Seq(S), NEW b \in Seq(S), NEW c \in Seq(S)
              PROVE  a \o (b \o c) = (a \o b) \o c
  BY DEF Join
<1>. QED BY ConcatAssociative, SMT

\* The whole has the elements of the parts.
LEMMA FlattenTyped ==
  ASSUME NEW S, NEW ss \in Seq(Seq(S))
  PROVE  FlattenSeq(ss) \in Seq(S)
<1>1. CASE Len(ss) = 0
  <2>1. FlattenSeq(ss) = <<>>
    BY <1>1, EmptySeq DEF FlattenSeq
  <2>. QED BY <2>1
<1>2. CASE Len(ss) # 0
  <2>1. PICK f : Sums(f, ss, Len(ss), S) /\ FlattenSeq(ss) = f[Len(ss)]
    BY <1>2, FlattenIsLastSum
  <2>2. Len(ss) \in 1 .. Len(ss)
    BY <1>2, LenProperties
  <2>. QED BY <2>1, <2>2 DEF Sums
<1>. QED BY <1>1, <1>2

\* What is appended to one sequence, those behind it being empty, comes last.
LEMMA FlattenGrows ==
  ASSUME NEW S, NEW ss \in Seq(Seq(S)), NEW tt \in Seq(Seq(S)), Len(tt) = Len(ss),
         NEW d \in 1 .. Len(ss), NEW t \in Seq(S), tt[d] = ss[d] \o t,
         \A i \in 1 .. Len(ss) : i # d => tt[i] = ss[i],
         \A i \in d + 1 .. Len(ss) : ss[i] = <<>>
  PROVE  FlattenSeq(tt) = FlattenSeq(ss) \o t
<1>. DEFINE n == Len(ss)
<1>1. n \in Nat /\ n > 0 /\ d \in 1 .. n
  BY LenProperties
<1>2. PICK f : Sums(f, ss, n, S) /\ FlattenSeq(ss) = f[n]
  BY <1>1, FlattenIsLastSum
<1>3. PICK g : Sums(g, tt, n, S) /\ FlattenSeq(tt) = g[n]
  <2>1. Len(tt) # 0
    BY <1>1
  <2>2. \E g : Sums(g, tt, Len(tt), S) /\ FlattenSeq(tt) = g[Len(tt)]
    BY <2>1, FlattenIsLastSum, Zenon
  <2>. QED BY <2>2
<1>4. \A i \in 1 .. n : ss[i] \in Seq(S)
  BY ElementOfSeq
<1>. HIDE DEF n
<1>5. f[1] = ss[1] /\ \A i \in 2 .. n : f[i] = f[i - 1] \o ss[i]
  BY <1>1, <1>2 DEF Sums
<1>6. g[1] = tt[1] /\ \A i \in 2 .. n : g[i] = g[i - 1] \o tt[i]
  BY <1>1, <1>3 DEF Sums
<1>7. \A i \in 1 .. n : f[i] \in Seq(S) /\ g[i] \in Seq(S)
  BY <1>2, <1>3 DEF Sums
<1>8. \A i \in 1 .. n : i # d => tt[i] = ss[i]
  BY DEF n
<1>9. \A i \in 1 .. n : i > d => tt[i] = <<>> /\ ss[i] = <<>>
  <2>1. \A i \in 1 .. n : i > d => i \in d + 1 .. n /\ i # d
    BY <1>1
  <2>. QED BY <1>8, <2>1 DEF n
<1>. DEFINE Goal(i) == IF i < d THEN g[i] = f[i] ELSE g[i] = f[i] \o t
            T == {0} \cup {i \in 1 .. n : Goal(i)}
<1>10. ASSUME NEW i \in 0 .. n - 1, i \in T PROVE Goal(i + 1)
  <2>. DEFINE k == i + 1
  <2>1. k \in 1 .. n /\ k - 1 = i
    BY <1>1
  <2>2. CASE i = 0
    <3>1. k = 1 /\ g[k] = tt[1] /\ f[k] = ss[1]
      BY <1>5, <1>6, <2>2
    <3>2. CASE d = 1
      BY <3>1, <3>2
    <3>3. CASE d # 1
      <4>1. tt[1] = ss[1] /\ k < d
        BY <1>1, <1>8, <3>1, <3>3
      <4>. QED BY <3>1, <4>1
    <3>. QED BY <3>2, <3>3
  <2>3. CASE i # 0
    <3>1. k \in 2 .. n /\ i \in 1 .. n /\ Goal(i)
      BY <1>10, <2>1, <2>3
    <3>2. f[k] = f[i] \o ss[k] /\ g[k] = g[i] \o tt[k]
      BY <1>5, <1>6, <2>1, <3>1
    <3>3. f[i] \in Seq(S) /\ g[i] \in Seq(S) /\ f[k] \in Seq(S) /\ ss[k] \in Seq(S)
      BY <1>4, <1>7, <2>1, <3>1
    <3>. HIDE DEF k
    <3>4. CASE k < d
      <4>1. tt[k] = ss[k] /\ i < d
        BY <1>8, <2>1, <3>4
      <4>. QED BY <3>1, <3>2, <3>4, <4>1 DEF k
    <3>5. CASE k = d
      <4>1. g[i] = f[i]
        BY <2>1, <3>1, <3>5
      <4>2. g[k] = Join(f[i], Join(ss[k], t)) /\ f[k] = Join(f[i], ss[k])
        BY <3>2, <3>5, <4>1 DEF Join
      <4>3. f[i] \in Seq(S) /\ ss[k] \in Seq(S) /\ t \in Seq(S)
        BY <3>3
      <4>4. g[k] = Join(f[k], t)
        BY <4>2, <4>3, JoinBehindBoth, SMT
      <4>5. g[k] = f[k] \o t
        BY <4>4 DEF Join
      <4>. QED BY <3>5, <4>5, <1>1 DEF k
    <3>6. CASE k > d
      <4>1. g[i] = f[i] \o t
        BY <1>1, <2>1, <3>1, <3>6
      <4>2. tt[k] = <<>> /\ ss[k] = <<>>
        BY <1>9, <2>1, <3>6
      <4>3. f[k] = f[i] /\ g[k] = g[i]
        BY <3>2, <3>3, <4>2, ConcatEmptySeq
      <4>. QED BY <3>6, <4>1, <4>3, <1>1, <2>1 DEF k
    <3>. QED BY <3>4, <3>5, <3>6, <1>1, <2>1
  <2>. QED BY <2>2, <2>3
<1>11. \A i \in 0 .. n : i \in T
  <2>1. 0 \in T
    OBVIOUS
  <2>2. ASSUME NEW i \in 0 .. n - 1, i \in T PROVE i + 1 \in T
    <3>1. i + 1 \in 1 .. n
      BY <1>1
    <3>. QED BY <1>10, <2>2, <3>1
  <2>. HIDE DEF T
  <2>. QED BY <1>1, <2>1, <2>2, UpTo
<1>12. Goal(n)
  BY <1>1, <1>11
<1>. QED BY <1>1, <1>2, <1>3, <1>12

\* An empty sequence adds nothing.
LEMMA FlattenNothingMore ==
  ASSUME NEW S, NEW ss \in Seq(Seq(S))
  PROVE  FlattenSeq(Append(ss, <<>>)) = FlattenSeq(ss)
<1>. DEFINE n == Len(ss)
            tt == Append(ss, <<>>)
<1>1. n \in Nat /\ tt \in Seq(Seq(S)) /\ Len(tt) = n + 1
  BY LenProperties, AppendProperties, EmptySeq
<1>2. tt[n + 1] = <<>> /\ \A i \in 1 .. n : tt[i] = ss[i]
  BY AppendProperties, EmptySeq
<1>. HIDE DEF tt, n
<1>3. PICK g : Sums(g, tt, n + 1, S) /\ FlattenSeq(tt) = g[n + 1]
  <2>1. Len(tt) # 0
    BY <1>1
  <2>2. \E g : Sums(g, tt, Len(tt), S) /\ FlattenSeq(tt) = g[Len(tt)]
    BY <1>1, <2>1, FlattenIsLastSum, Zenon
  <2>. QED BY <1>1, <2>2
<1>. USE DEF n
<1>4. CASE n = 0
  <2>1. FlattenSeq(ss) = <<>>
    BY <1>4, EmptySeq DEF FlattenSeq
  <2>2. g[1] = tt[1]
    BY <1>3, <1>4 DEF Sums
  <2>. QED BY <1>2, <1>3, <1>4, <2>1, <2>2 DEF tt
<1>5. CASE n # 0
  <2>1. PICK f : Sums(f, ss, n, S) /\ FlattenSeq(ss) = f[n]
    BY <1>5, FlattenIsLastSum
  <2>. HIDE DEF n
  <2>2. \A i \in 1 .. n + 1 : g[i] \in Seq(S)
    BY <1>3 DEF Sums
  <2>. DEFINE T == {0} \cup {i \in 1 .. n : g[i] = f[i]}
  <2>3. ASSUME NEW i \in 0 .. n - 1, i \in T PROVE i + 1 \in T
    <3>1. i + 1 \in 1 .. n /\ (i + 1) - 1 = i
      BY <1>1
    <3>2. g[i + 1] = f[i + 1]
      <4>1. CASE i = 0
        <5>1. g[1] = tt[1] /\ f[1] = ss[1] /\ 1 \in 1 .. n
          BY <1>1, <1>3, <1>5, <2>1 DEF Sums
        <5>. QED BY <4>1, <5>1, <1>2
      <4>2. CASE i # 0
        <5>1. i + 1 \in 2 .. n /\ i + 1 \in 2 .. n + 1 /\ g[i] = f[i] /\ tt[i + 1] = ss[i + 1]
          BY <1>1, <1>2, <2>3, <3>1, <4>2
        <5>2. g[i + 1] = g[(i + 1) - 1] \o tt[i + 1]
          BY <1>3, <5>1 DEF Sums
        <5>3. f[i + 1] = f[(i + 1) - 1] \o ss[i + 1]
          BY <2>1, <5>1 DEF Sums
        <5>. QED BY <3>1, <5>1, <5>2, <5>3
      <4>. QED BY <4>1, <4>2
    <3>. QED BY <3>1, <3>2
  <2>4. \A i \in 0 .. n : i \in T
    <3>1. 0 \in T
      OBVIOUS
    <3>2. \A i \in 0 .. n - 1 : i \in T => i + 1 \in T
      BY <2>3
    <3>. HIDE DEF T
    <3>. QED BY <1>1, <3>1, <3>2, UpTo
  <2>5. g[n] = f[n] /\ g[n] \in Seq(S)
    <3>1. n \in T /\ n \in 1 .. n + 1
      BY <1>1, <1>5, <2>4, LenProperties DEF n
    <3>. QED BY <1>5, <2>2, <3>1
  <2>6. n + 1 \in 2 .. n + 1 /\ (n + 1) - 1 = n
    BY <1>1, <1>5
  <2>7. g[n + 1] = g[n] \o <<>>
    BY <1>2, <1>3, <2>6 DEF Sums
  <2>8. g[n + 1] = g[n]
    BY <2>5, <2>7, ConcatEmptySeq
  <2>. QED BY <1>3, <2>1, <2>5, <2>8 DEF tt
<1>. QED BY <1>4, <1>5

\* A further part comes behind those before it.
LEMMA FlattenAppend ==
  ASSUME NEW S, NEW ss \in Seq(Seq(S)), NEW t \in Seq(S)
  PROVE  FlattenSeq(Append(ss, t)) = FlattenSeq(ss) \o t
<1>. DEFINE n == Len(ss)
            empty == Append(ss, <<>>)
            tt == Append(ss, t)
<1>1. n \in Nat /\ <<>> \in Seq(S)
  BY LenProperties, EmptySeq
<1>2. /\ empty \in Seq(Seq(S)) /\ Len(empty) = n + 1 /\ empty[n + 1] = <<>>
      /\ \A i \in 1 .. n : empty[i] = ss[i]
  BY <1>1, AppendProperties
<1>3. /\ tt \in Seq(Seq(S)) /\ Len(tt) = n + 1 /\ tt[n + 1] = t
      /\ \A i \in 1 .. n : tt[i] = ss[i]
  BY <1>1, AppendProperties
<1>. HIDE DEF n, tt
<1>4. FlattenSeq(empty) = FlattenSeq(ss)
  BY FlattenNothingMore
<1>. HIDE DEF empty
<1>5. tt[n + 1] = empty[n + 1] \o t
  BY <1>2, <1>3, ConcatEmptySeq
<1>6. FlattenSeq(tt) = FlattenSeq(empty) \o t
  <2>1. n + 1 \in 1 .. Len(empty) /\ Len(tt) = Len(empty)
    BY <1>1, <1>2, <1>3
  <2>2. \A i \in 1 .. Len(empty) : i # n + 1 => tt[i] = empty[i]
    BY <1>1, <1>2, <1>3
  <2>3. \A i \in (n + 1) + 1 .. Len(empty) : empty[i] = <<>>
    BY <1>1, <1>2
  <2>. QED BY <1>2, <1>3, <1>5, <2>1, <2>2, <2>3, FlattenGrows
<1>. QED BY <1>4, <1>6 DEF tt

-----------------------------------------------------------------------------
(* Finite sets of numbers *)

\* x is the least, or the greatest, element of S.
Least(S, x) == x \in S /\ \A y \in S : x <= y
Greatest(S, x) == x \in S /\ \A y \in S : x >= y

\* Of the first m elements that f lists, the i-th is the least, the k-th the greatest.
Bounds(f, m, i, k) ==
  i \in 1 .. m /\ k \in 1 .. m /\ \A j \in 1 .. m : f[i] <= f[j] /\ f[k] >= f[j]

\* A finite set of whole numbers has a least and a greatest one.
LEMMA ExtremesExist ==
  ASSUME NEW S, IsFiniteSet(S), S \subseteq Int, S # {}
  PROVE  (\E x : Least(S, x)) /\ \E x : Greatest(S, x)
<1>1. PICK n \in Nat : ExistsSurjection(1 .. n, S)
  BY FS_NatSurjection
<1>2. PICK f \in [1 .. n -> S] : \A y \in S : \E i \in 1 .. n : f[i] = y
  BY <1>1 DEF ExistsSurjection, Surjection
<1>3. \A i \in 1 .. n : f[i] \in S /\ f[i] \in Int
  BY <1>2
<1>. DEFINE T == {m \in 0 .. n : m = 0 \/ \E i, k : Bounds(f, m, i, k)}
<1>4. 0 \in T
  OBVIOUS
<1>5. ASSUME NEW m \in 0 .. n - 1, m \in T PROVE m + 1 \in T
  <2>. HIDE DEF T
  <2>1. /\ m + 1 \in 0 .. n /\ m + 1 \in 1 .. m + 1 /\ m \in Nat
        /\ \A j \in 1 .. m : j \in 1 .. m + 1 /\ j \in 1 .. n
        /\ \A j \in 1 .. m + 1 : j \in 1 .. m \/ j = m + 1
        /\ m + 1 \in 1 .. n
    OBVIOUS
  <2>2. f[m + 1] \in Int
    BY <1>3, <2>1
  <2>3. \E i, k : Bounds(f, m + 1, i, k)
    <3>1. CASE m = 0
      <4>1. Bounds(f, m + 1, 1, 1)
        BY <2>2, <3>1 DEF Bounds
      <4>. QED BY <4>1
    <3>2. CASE m # 0
      <4>1. PICK i, k : Bounds(f, m, i, k)
        BY <1>5, <3>2 DEF T
      <4>2. /\ i \in 1 .. m /\ k \in 1 .. m /\ \A j \in 1 .. m : f[i] <= f[j] /\ f[k] >= f[j]
            /\ f[i] \in Int /\ f[k] \in Int /\ \A j \in 1 .. m : f[j] \in Int
        BY <1>3, <2>1, <4>1 DEF Bounds
      <4>. DEFINE a == IF f[i] <= f[m + 1] THEN i ELSE m + 1
                  b == IF f[k] >= f[m + 1] THEN k ELSE m + 1
      <4>3. a \in 1 .. m + 1 /\ f[a] <= f[i] /\ f[a] <= f[m + 1] /\ f[a] \in Int
        BY <2>1, <2>2, <4>2
      <4>4. b \in 1 .. m + 1 /\ f[b] >= f[k] /\ f[b] >= f[m + 1] /\ f[b] \in Int
        BY <2>1, <2>2, <4>2
      <4>. HIDE DEF a, b
      <4>5. ASSUME NEW j \in 1 .. m + 1 PROVE f[a] <= f[j] /\ f[b] >= f[j]
        <5>1. CASE j = m + 1
          BY <4>3, <4>4, <5>1
        <5>2. CASE j \in 1 .. m
          BY <4>2, <4>3, <4>4, <5>2
        <5>. QED BY <2>1, <5>1, <5>2
      <4>6. Bounds(f, m + 1, a, b)
        BY <4>3, <4>4, <4>5 DEF Bounds
      <4>. QED BY <4>6
    <3>. QED BY <3>1, <3>2
  <2>. QED BY <2>1, <2>3 DEF T
<1>6. \A m \in 0 .. n : m \in T
  <2>. HIDE DEF T
  <2>. QED BY <1>4, <1>5, UpTo
<1>7. n # 0
  <2>1. PICK y \in S : TRUE
    OBVIOUS
  <2>2. PICK i \in 1 .. n : f[i] = y
    BY <1>2, <2>1
  <2>. QED BY <2>2
<1>8. n \in T /\ n \in 0 .. n
  <2>1. n \in 0 .. n
    OBVIOUS
  <2>. QED BY <1>6, <2>1
<1>9. PICK i, k : Bounds(f, n, i, k)
  BY <1>7, <1>8
<1>10. ASSUME NEW y \in S PROVE f[i] <= y /\ f[k] >= y
  BY <1>2, <1>9 DEF Bounds
<1>11. f[i] \in S /\ f[k] \in S
  BY <1>3, <1>9 DEF Bounds
<1>. QED BY <1>10, <1>11 DEF Least, Greatest

\* They are what Min and Max choose.
LEMMA Extremes ==
  ASSUME NEW S, IsFiniteSet(S), S \subseteq Int, S # {}
  PROVE  Least(S, Min(S)) /\ Greatest(S, Max(S))
BY ExtremesExist DEF Min, Max, Least, Greatest

\* The elements of S before d.
Below(S, d) == {e \in S : e < d}

\* If there are more than k numbers, one has k before it.
LEMMA RankExists ==
  ASSUME NEW S, IsFiniteSet(S), S \subseteq Int, NEW k \in 0 .. Cardinality(S) - 1
  PROVE  \E d \in S : Cardinality(Below(S, d)) = k
<1>1. Cardinality(S) \in Nat /\ k \in Nat /\ k < Cardinality(S) /\ S # {}
  BY FS_CardinalityType, FS_EmptySet
<1>. DEFINE T == {m \in 0 .. k : \E d \in S : Cardinality(Below(S, d)) = m}
<1>2. 0 \in T
  <2>1. PICK d : Least(S, d)
    BY <1>1, ExtremesExist
  <2>2. d \in S /\ \A e \in S : ~ (e < d)
    BY <2>1 DEF Least
  <2>3. Below(S, d) = {} /\ d \in S
    BY <2>2, Zenon DEF Below
  <2>4. Cardinality(Below(S, d)) = 0 /\ 0 \in 0 .. k
    BY <1>1, <2>3, FS_EmptySet
  <2>. QED BY <2>3, <2>4
<1>3. ASSUME NEW m \in 0 .. k - 1, m \in T PROVE m + 1 \in T
  <2>1. PICK d \in S : Cardinality(Below(S, d)) = m
    BY <1>3
  <2>. DEFINE A == {e \in S : e > d}
  <2>. HIDE DEF T
  <2>2. d \in Int /\ d \notin Below(S, d) /\ Below(S, d) \in SUBSET S /\ A \in SUBSET S
    BY DEF Below
  <2>3. IsFiniteSet(Below(S, d)) /\ IsFiniteSet(A)
    BY <2>2, FS_Subset
  <2>4. Cardinality(Below(S, d) \cup {d}) = m + 1
    BY <2>1, <2>2, <2>3, FS_AddElement
  <2>5. A # {}
    <3>1. SUFFICES ASSUME A = {} PROVE FALSE
      OBVIOUS
    <3>2. ASSUME NEW e \in S PROVE e < d \/ e = d
      <4>1. e \in Int /\ ~ (e > d)
        BY <3>1
      <4>. QED BY <2>2, <4>1
    <3>3. S = Below(S, d) \cup {d}
      BY <3>2, Zenon DEF Below
    <3>4. Cardinality(S) = m + 1
      BY <2>4, <3>3
    <3>. QED BY <1>1, <3>4
  <2>6. PICK c : Least(A, c)
    BY <2>2, <2>3, <2>5, ExtremesExist
  <2>7. c \in S /\ c \in Int /\ c > d
    BY <2>6 DEF Least
  <2>8. ASSUME NEW e \in S PROVE e < c <=> e < d \/ e = d
    <3>1. e \in Int /\ (e > d => c <= e)
      BY <2>6 DEF Least
    <3>. QED BY <2>2, <2>7, <3>1
  <2>9. Below(S, c) = Below(S, d) \cup {d}
    BY <2>8 DEF Below
  <2>10. Cardinality(Below(S, c)) = m + 1 /\ m + 1 \in 0 .. k
    BY <1>1, <2>4, <2>9
  <2>. QED BY <2>7, <2>10 DEF T
<1>4. \A m \in 0 .. k : m \in T
  <2>. HIDE DEF T
  <2>. QED BY <1>1, <1>2, <1>3, UpTo
<1>5. k \in 0 .. k
  BY <1>1
<1>. QED BY <1>4, <1>5

-----------------------------------------------------------------------------
(* Folds *)

\* G makes of an element of D and a value a value.
Closed(G, D, V) == \A e \in D, x \in V : G[<<e, x>>] \in V

\* The value of a set is made of its value without the element that ch chooses.
FoldOf(h, D, V, c, ch, G) ==
  /\ h \in [SUBSET D -> V] /\ h[{}] = c
  /\ \A t \in SUBSET D : t # {} => h[t] = G[<<ch[t], h[t \ {ch[t]}]>>]

Chooses(ch, D) == \A t \in SUBSET D : t # {} => ch[t] \in t

\* A function on the subsets of a finite set exists whose value is made of its value
\* without the element that ch chooses: what a fold of the community modules is.
LEMMA FoldExists ==
  ASSUME NEW D, IsFiniteSet(D), NEW V, NEW c \in V, NEW ch, Chooses(ch, D), NEW G, Closed(G, D, V)
  PROVE  \E h : FoldOf(h, D, V, c, ch, G)
<1>. USE DEF FoldOf, Closed, Chooses
<1>. DEFINE n == Cardinality(D)
            W == [SUBSET D -> V]
            Next(w) == [t \in SUBSET D |-> IF t = {} THEN c ELSE G[<<ch[t], w[t \ {ch[t]}]>>]]
            H == [p \in (1 .. n) \X W |-> Next(p[2])]
            first == [t \in SUBSET D |-> c]
<1>1. n \in Nat
  BY FS_CardinalityType
<1>2. ASSUME NEW w \in W PROVE Next(w) \in W
  <2>1. ASSUME NEW t \in SUBSET D, t # {} PROVE G[<<ch[t], w[t \ {ch[t]}]>>] \in V
    <3>1. ch[t] \in D /\ t \ {ch[t]} \in SUBSET D
      BY <2>1
    <3>2. w[t \ {ch[t]}] \in V
      BY <3>1
    <3>. QED BY <3>1, <3>2
  <2>. QED BY <2>1
<1>3. first \in W
  OBVIOUS
<1>4. \A i \in 1 .. n, w \in W : H[<<i, w>>] = Next(w) /\ H[<<i, w>>] \in W
  BY <1>2
<1>5. \E f : Recursion(f, n, W, first, H)
  <2>1. \A i \in 1 .. n, w \in W : H[<<i, w>>] \in W
    BY <1>4
  <2>. HIDE DEF n, W, H, first
  <2>. QED BY <1>1, <1>3, <2>1, RecursionExists
<1>6. PICK f : Recursion(f, n, W, first, H)
  BY <1>5
<1>. HIDE DEF H
<1>7. ASSUME NEW i \in 0 .. n PROVE f[i] \in W
  BY <1>6 DEF Recursion
<1>8. f[0] = first
  BY <1>6 DEF Recursion
<1>9. ASSUME NEW i \in 1 .. n PROVE f[i] = Next(f[i - 1])
  <2>1. i - 1 \in 0 .. n
    BY <1>1
  <2>2. f[i - 1] \in W
    BY <1>7, <2>1
  <2>3. f[i] = H[<<i, f[i - 1]>>]
    BY <1>6 DEF Recursion
  <2>. HIDE DEF W, n
  <2>. QED BY <1>4, <2>2, <2>3
<1>10. ASSUME NEW t \in SUBSET D PROVE Cardinality(t) \in 0 .. n /\ IsFiniteSet(t) /\ (Cardinality(t) = 0 <=> t = {})
  <2>1. IsFiniteSet(t) /\ Cardinality(t) <= n
    BY FS_Subset
  <2>2. Cardinality(t) \in Nat
    BY <2>1, FS_CardinalityType
  <2>. QED BY <1>1, <2>1, <2>2, FS_EmptySet
<1>. DEFINE h == [t \in SUBSET D |-> f[Cardinality(t)][t]]
<1>11. ASSUME NEW t \in SUBSET D PROVE h[t] \in V /\ h[t] = f[Cardinality(t)][t]
  <2>1. f[Cardinality(t)] \in W
    BY <1>7, <1>10
  <2>. QED BY <2>1
<1>12. h \in [SUBSET D -> V]
  BY <1>11
<1>. HIDE DEF h
<1>13. ASSUME NEW t \in SUBSET D PROVE h[t] = IF t = {} THEN c ELSE G[<<ch[t], h[t \ {ch[t]}]>>]
  <2>1. CASE t = {}
    <3>1. Cardinality(t) = 0
      BY <1>10, <2>1
    <3>2. h[t] = first[t]
      BY <1>8, <1>11, <3>1
    <3>. QED BY <2>1, <3>2
  <2>2. CASE t # {}
    <3>. DEFINE u == t \ {ch[t]}
                k == Cardinality(t)
    <3>1. ch[t] \in t /\ u \in SUBSET D
      BY <2>2
    <3>2. k \in 1 .. n /\ Cardinality(u) = k - 1
      <4>1. IsFiniteSet(t) /\ k \in 0 .. n /\ k # 0
        BY <1>10, <2>2
      <4>2. Cardinality(u) = k - 1
        <5>. HIDE DEF k
        <5>. QED BY <3>1, <4>1, FS_RemoveElement DEF k
      <4>. HIDE DEF k, n
      <4>. QED BY <1>1, <4>1, <4>2
    <3>3. h[t] = f[k][t] /\ h[u] = f[k - 1][u]
      BY <1>11, <3>1, <3>2
    <3>4. f[k] = Next(f[k - 1])
      BY <1>9, <3>2
    <3>. HIDE DEF k, u
    <3>5. f[k][t] = G[<<ch[t], f[k - 1][u]>>]
      BY <2>2, <3>4 DEF u
    <3>. QED BY <2>2, <3>3, <3>5 DEF u
  <2>. QED BY <2>1, <2>2
<1>. QED BY <1>12, <1>13

\* The greatest of the numbers up to i, and those before it.
LEMMA MaxUpTo ==
  ASSUME NEW i \in Nat \ {0}
  PROVE  Max(1 .. i) = i /\ (1 .. i) \ {i} = 1 .. (i - 1) /\ 1 .. i # {}
<1>1. i \in 1 .. i /\ \A y \in 1 .. i : i >= y
  OBVIOUS
<1>2. \A x \in 1 .. i : (\A y \in 1 .. i : x >= y) => x = i
  BY <1>1
<1>3. Max(1 .. i) = i
  BY <1>1, <1>2 DEF Max
<1>. QED BY <1>1, <1>3

\* The value of some of the first n numbers, which is made of the value of those
\* before the greatest.
MaxFold(h, n, V, c, G) ==
  /\ h \in [SUBSET (1 .. n) -> V] /\ h[{}] = c
  /\ \A t \in SUBSET (1 .. n) : t # {} => Max(t) \in 1 .. n /\ h[t] = G[<<Max(t), h[t \ {Max(t)}]>>]

\* What FoldLeft makes of n elements exists.
LEMMA FoldLeftExists ==
  ASSUME NEW n \in Nat, NEW V, NEW c \in V, NEW G, Closed(G, 1 .. n, V)
  PROVE  \E h : MaxFold(h, n, V, c, G)
<1>. DEFINE D == 1 .. n
            ch == [t \in SUBSET D |-> Max(t)]
<1>1. IsFiniteSet(D) /\ D \subseteq Int
  BY FS_Interval
<1>2. ASSUME NEW t \in SUBSET D, t # {} PROVE ch[t] = Max(t) /\ Max(t) \in t
  <2>1. IsFiniteSet(t) /\ t \subseteq Int
    BY <1>1, FS_Subset
  <2>2. Max(t) \in t
    BY <1>2, <2>1, Extremes DEF Greatest
  <2>. QED BY <2>2
<1>3. Chooses(ch, D)
  BY <1>2 DEF Chooses
<1>. HIDE DEF ch, D
<1>4. PICK h : FoldOf(h, D, V, c, ch, G)
  <2>1. Closed(G, D, V)
    BY DEF D
  <2>. QED BY <1>1, <1>3, <2>1, FoldExists
<1>5. ASSUME NEW t \in SUBSET D, t # {}
      PROVE  Max(t) \in D /\ h[t] = G[<<Max(t), h[t \ {Max(t)}]>>]
  <2>1. ch[t] = Max(t) /\ Max(t) \in t
    BY <1>2, <1>5
  <2>. QED BY <1>4, <1>5, <2>1 DEF FoldOf
<1>6. MaxFold(h, n, V, c, G)
  BY <1>4, <1>5 DEF FoldOf, MaxFold, D
<1>. QED BY <1>6

\* The value of no number, and how the others follow where the one before is in V.
Unfolds(it, n, V, c, G) ==
  /\ it[{}] = c
  /\ \A t \in SUBSET (1 .. n) :
       t # {} /\ it[t \ {Max(t)}] \in V => it[t] = G[<<Max(t), it[t \ {Max(t)}]>>]

\* The values of the first numbers are made one of the other.
LEMMA FoldLeftRuns ==
  ASSUME NEW n \in Nat, NEW V, NEW c \in V, NEW G, Closed(G, 1 .. n, V), NEW it, Unfolds(it, n, V, c, G)
  PROVE  \E f : Recursion(f, n, V, c, G) /\ f[n] = it[1 .. n]
<1>. USE DEF Closed, Unfolds
<1>. DEFINE f == [i \in 0 .. n |-> it[1 .. i]]
            T == {i \in 0 .. n : it[1 .. i] \in V}
<1>1. it[1 .. 0] = c
  <2>1. 1 .. 0 = {}
    OBVIOUS
  <2>. QED BY <2>1
<1>2. ASSUME NEW i \in 1 .. n, it[1 .. (i - 1)] \in V PROVE it[1 .. i] = G[<<i, it[1 .. (i - 1)]>>]
  <2>1. Max(1 .. i) = i /\ (1 .. i) \ {i} = 1 .. (i - 1) /\ 1 .. i # {}
    BY MaxUpTo
  <2>2. 1 .. i \in SUBSET (1 .. n)
    OBVIOUS
  <2>. QED BY <1>2, <2>1, <2>2
<1>3. \A i \in 0 .. n : i \in T
  <2>1. 0 \in T
    BY <1>1
  <2>2. ASSUME NEW i \in 0 .. n - 1, i \in T PROVE i + 1 \in T
    <3>1. i + 1 \in 1 .. n /\ (i + 1) - 1 = i /\ i + 1 \in 0 .. n
      OBVIOUS
    <3>2. it[1 .. (i + 1)] = G[<<i + 1, it[1 .. i]>>]
      BY <1>2, <2>2, <3>1
    <3>. QED BY <2>2, <3>1, <3>2
  <2>. HIDE DEF T
  <2>. QED BY <2>1, <2>2, UpTo
<1>4. \A i \in 0 .. n : f[i] = it[1 .. i] /\ f[i] \in V
  BY <1>3
<1>5. f \in [0 .. n -> V]
  BY <1>4
<1>. HIDE DEF f
<1>6. ASSUME NEW i \in 1 .. n PROVE f[i] = G[<<i, f[i - 1]>>]
  <2>1. i - 1 \in 0 .. n /\ i \in 0 .. n
    OBVIOUS
  <2>. QED BY <1>2, <1>4, <2>1
<1>7. 0 \in 0 .. n /\ n \in 0 .. n
  OBVIOUS
<1>8. Recursion(f, n, V, c, G)
  BY <1>1, <1>4, <1>5, <1>6, <1>7 DEF Recursion
<1>. QED BY <1>4, <1>7, <1>8

-----------------------------------------------------------------------------
(* Sequences that grow *)

\* The first elements of a sequence, one more at a time.
LEMMA PrefixGrows ==
  ASSUME NEW S, NEW s \in Seq(S)
  PROVE  /\ SubSeq(s, 1, 0) = <<>> /\ SubSeq(s, 1, Len(s)) = s
         /\ \A i \in 0 .. Len(s) : SubSeq(s, 1, i) \in Seq(S)
         /\ \A i \in 0 .. Len(s) - 1 : /\ s[i + 1] \in S
                                      /\ SubSeq(s, 1, i + 1) = Append(SubSeq(s, 1, i), s[i + 1])
<1>1. Len(s) \in Nat /\ \A i \in 1 .. Len(s) : s[i] \in S
  BY LenProperties, ElementOfSeq
<1>2. SubSeq(s, 1, 0) = <<>>
  BY SubSeqEmpty
<1>3. ASSUME NEW i \in 0 .. Len(s) PROVE SubSeq(s, 1, i) \in Seq(S)
  <2>1. \A j \in 1 .. i : s[j] \in S
    BY <1>1
  <2>. QED BY <2>1, SubSeqProperties
<1>4. ASSUME NEW i \in 0 .. Len(s) - 1
      PROVE  s[i + 1] \in S /\ SubSeq(s, 1, i + 1) = Append(SubSeq(s, 1, i), s[i + 1])
  <2>1. i + 1 \in 1 .. Len(s) /\ 1 \in 1 .. Len(s) /\ (i + 1) - 1 = i /\ i + 1 \in Int
    BY <1>1
  <2>2. SubSeq(s, 1, i + 1) = SubSeq(s, 1, i) \o <<s[i + 1]>>
    BY <2>1, SubSeqRecursiveSecond
  <2>3. SubSeq(s, 1, i) \in Seq(S) /\ s[i + 1] \in S
    BY <1>1, <1>3, <2>1
  <2>. QED BY <2>2, <2>3, AppendIsConcat
<1>. QED BY <1>2, <1>3, <1>4, SubSeqFull

LastOfBoth(a, b, x) == Append(a \o b, x) = a \o Append(b, x)

\* An element behind the second of two sequences is behind both.
LEMMA AppendBehindBoth ==
  ASSUME NEW S, NEW a \in Seq(S), NEW b \in Seq(S), NEW x \in S
  PROVE  LastOfBoth(a, b, x)
<1>1. <<x>> \in Seq(S) /\ a \o b \in Seq(S)
  BY ConcatProperties
<1>2. Append(a \o b, x) = (a \o b) \o <<x>> /\ Append(b, x) = b \o <<x>>
  BY <1>1, AppendIsConcat
<1>3. a \o (b \o <<x>>) = (a \o b) \o <<x>>
  <2>1. Join(a, Join(b, <<x>>)) = Join(Join(a, b), <<x>>)
    <3>1. \A y \in Seq(S) : Join(a, Join(b, y)) = Join(Join(a, b), y)
      BY JoinBehindBoth
    <3>. QED BY <1>1, <3>1
  <2>. QED BY <2>1 DEF Join
<1>. QED BY <1>2, <1>3 DEF LastOfBoth

\* An element more is there, and no other.
LEMMA RangeGrows ==
  ASSUME NEW S, NEW s \in Seq(S), NEW x \in S
  PROVE  Range(Append(s, x)) = Range(s) \cup {x} /\ Range(s) \subseteq S
<1>1. /\ Len(s) \in Nat /\ Append(s, x) \in Seq(S) /\ Len(Append(s, x)) = Len(s) + 1
      /\ Append(s, x)[Len(s) + 1] = x
      /\ \A j \in 1 .. Len(s) : Append(s, x)[j] = s[j]
  BY AppendProperties, LenProperties
<1>2. DOMAIN s = 1 .. Len(s) /\ DOMAIN Append(s, x) = 1 .. Len(s) + 1
  BY <1>1, LenProperties
<1>3. \A j \in 1 .. Len(s) + 1 : j \in 1 .. Len(s) \/ j = Len(s) + 1
  BY <1>1
<1>4. Len(s) + 1 \in 1 .. Len(s) + 1 /\ \A j \in 1 .. Len(s) : j \in 1 .. Len(s) + 1
  BY <1>1
<1>5. ASSUME NEW y \in Range(Append(s, x)) PROVE y \in Range(s) \cup {x}
  BY <1>1, <1>2, <1>3 DEF Range
<1>6. ASSUME NEW y \in Range(s) \cup {x} PROVE y \in Range(Append(s, x))
  BY <1>1, <1>2, <1>4 DEF Range
<1>7. Range(s) \subseteq S
  BY <1>2, ElementOfSeq DEF Range
<1>. QED BY <1>5, <1>6, <1>7

\* What the elements of a sequence tell, one after the other.
ToldBy(g, s) == FlattenSeq([n \in DOMAIN s |-> g[s[n]]])

\* What an element more tells comes behind what is told.
LEMMA ToldMore ==
  ASSUME NEW R, NEW S, NEW g \in [R -> Seq(S)], NEW s \in Seq(R), NEW r \in R
  PROVE  ToldBy(g, Append(s, r)) = Join(ToldBy(g, s), g[r]) /\ ToldBy(g, s) \in Seq(S)
<1>. DEFINE t == Append(s, r)
            m == Len(s)
            ss == [n \in DOMAIN s |-> g[s[n]]]
            tt == [n \in DOMAIN t |-> g[t[n]]]
            uu == Append(ss, g[r])
<1>1. /\ m \in Nat /\ DOMAIN s = 1 .. m /\ \A i \in 1 .. m : s[i] \in R
      /\ t \in Seq(R) /\ Len(t) = m + 1 /\ t[m + 1] = r /\ \A i \in 1 .. m : t[i] = s[i]
  BY LenProperties, ElementOfSeq, AppendProperties
<1>2. DOMAIN t = 1 .. m + 1
  BY <1>1, LenProperties
<1>. HIDE DEF t, m
<1>3. ss \in Seq(Seq(S)) /\ Len(ss) = m /\ \A i \in 1 .. m : ss[i] = g[s[i]]
  <2>1. ss \in [1 .. m -> Seq(S)] /\ \A i \in 1 .. m : ss[i] = g[s[i]]
    BY <1>1
  <2>. HIDE DEF ss
  <2>. QED BY <1>1, <2>1, IsASeq
<1>. HIDE DEF ss
<1>4. /\ uu \in Seq(Seq(S)) /\ Len(uu) = m + 1 /\ uu[m + 1] = g[r] /\ \A i \in 1 .. m : uu[i] = ss[i]
  BY <1>3, AppendProperties
<1>5. DOMAIN uu = 1 .. m + 1 /\ uu = [i \in 1 .. m + 1 |-> uu[i]]
  <2>. HIDE DEF uu
  <2>. QED BY <1>4, LenProperties
<1>. HIDE DEF uu
<1>6. tt = uu
  <2>1. ASSUME NEW i \in 1 .. m + 1 PROVE uu[i] = g[t[i]]
    <3>1. i \in 1 .. m \/ i = m + 1
      BY <1>1
    <3>. QED BY <1>1, <1>3, <1>4, <3>1
  <2>. QED BY <1>2, <1>5, <2>1
<1>7. FlattenSeq(tt) = FlattenSeq(ss) \o g[r] /\ FlattenSeq(ss) \in Seq(S)
  <2>. HIDE DEF tt
  <2>1. FlattenSeq(ss) \in Seq(S)
    BY <1>3, FlattenTyped
  <2>. QED BY <1>3, <1>6, <2>1, FlattenAppend DEF uu
<1>8. ToldBy(g, t) = FlattenSeq(tt) /\ ToldBy(g, s) = FlattenSeq(ss)
  BY DEF ToldBy, ss
<1>. HIDE DEF tt
<1>. QED BY <1>7, <1>8 DEF Join, t

\* Two sequences that tell nothing twice and nothing in common tell nothing twice together.
LEMMA JoinedInjective ==
  ASSUME NEW S, NEW a \in Seq(S), NEW b \in Seq(S),
         IsInjective(a), IsInjective(b), Range(a) \cap Range(b) = {}
  PROVE  IsInjective(a \o b) /\ Range(a \o b) = Range(a) \cup Range(b)
<1>. DEFINE c == a \o b
            m == Len(a)
            n == Len(b)
<1>1. /\ m \in Nat /\ n \in Nat /\ DOMAIN a = 1 .. m /\ DOMAIN b = 1 .. n
      /\ c \in Seq(S) /\ Len(c) = m + n
      /\ \A i \in 1 .. m + n : c[i] = IF i <= m THEN a[i] ELSE b[i - m]
  BY LenProperties, ConcatProperties
<1>. HIDE DEF c, m, n
<1>2. DOMAIN c = 1 .. m + n
  BY <1>1, LenProperties
<1>3. ASSUME NEW i \in 1 .. m + n
      PROVE  \/ i \in 1 .. m /\ c[i] = a[i] /\ c[i] \in Range(a)
             \/ i - m \in 1 .. n /\ c[i] = b[i - m] /\ c[i] \in Range(b)
  <2>1. CASE i <= m
    <3>1. i \in 1 .. m
      BY <1>1, <2>1
    <3>. QED BY <1>1, <2>1, <3>1 DEF Range
  <2>2. CASE ~ (i <= m)
    <3>1. i - m \in 1 .. n
      BY <1>1, <2>2
    <3>. QED BY <1>1, <2>2, <3>1 DEF Range
  <2>. QED BY <2>1, <2>2
<1>4. ASSUME NEW i \in 1 .. m + n, NEW j \in 1 .. m + n, c[i] = c[j] PROVE i = j
  <2>1. CASE i \in 1 .. m /\ c[i] = a[i] /\ c[i] \in Range(a)
    <3>1. j \in 1 .. m /\ c[j] = a[j]
      BY <1>3, <1>4, <2>1
    <3>. QED BY <1>1, <1>4, <2>1, <3>1 DEF IsInjective
  <2>2. CASE i - m \in 1 .. n /\ c[i] = b[i - m] /\ c[i] \in Range(b)
    <3>1. j - m \in 1 .. n /\ c[j] = b[j - m]
      BY <1>3, <1>4, <2>2
    <3>2. i - m = j - m
      BY <1>1, <1>4, <2>2, <3>1 DEF IsInjective
    <3>. QED BY <1>1, <3>2
  <2>. QED BY <1>3, <2>1, <2>2
<1>5. Range(c) \subseteq Range(a) \cup Range(b)
  BY <1>2, <1>3 DEF Range
<1>6. ASSUME NEW x \in Range(a) PROVE x \in Range(c)
  <2>1. PICK i \in 1 .. m : a[i] = x
    BY <1>1 DEF Range
  <2>2. i \in 1 .. m + n /\ i <= m
    BY <1>1
  <2>3. c[i] = x
    BY <1>1, <2>1, <2>2
  <2>. QED BY <1>2, <2>2, <2>3 DEF Range
<1>7. ASSUME NEW x \in Range(b) PROVE x \in Range(c)
  <2>1. PICK i \in 1 .. n : b[i] = x
    BY <1>1 DEF Range
  <2>2. i + m \in 1 .. m + n /\ ~ (i + m <= m) /\ (i + m) - m = i
    BY <1>1
  <2>3. c[i + m] = x
    BY <1>1, <2>1, <2>2
  <2>. QED BY <1>2, <2>2, <2>3 DEF Range
<1>8. Range(c) = Range(a) \cup Range(b)
  <2>1. \A x \in Range(a) \cup Range(b) : x \in Range(c)
    BY <1>6, <1>7
  <2>. QED BY <1>5, <2>1
<1>9. IsInjective(c)
  BY <1>2, <1>4 DEF IsInjective
<1>. QED BY <1>8, <1>9 DEF c

\* A sequence that has as many elements as places tells nothing twice.
LEMMA CountedInjective ==
  ASSUME NEW S, NEW s \in Seq(S), ~ (Cardinality(Range(s)) < Len(s))
  PROVE  IsInjective(s)
<1>. DEFINE n == Len(s)
            T == Range(s)
<1>1. n \in Nat /\ DOMAIN s = 1 .. n /\ s = [i \in 1 .. n |-> s[i]]
  BY LenProperties
<1>2. \A i \in 1 .. n : s[i] \in T
  BY <1>1 DEF Range
<1>3. \A x \in T : \E i \in 1 .. n : s[i] = x
  BY <1>1 DEF Range
<1>. HIDE DEF T, n
<1>4. s \in Surjection(1 .. n, T)
  BY <1>1, <1>2, <1>3 DEF Surjection
<1>5. IsFiniteSet(1 .. n) /\ Cardinality(1 .. n) = n
  <2>1. 1 \in Int /\ n \in Int
    BY <1>1
  <2>2. IsFiniteSet(1 .. n) /\ Cardinality(1 .. n) = IF 1 > n THEN 0 ELSE n - 1 + 1
    BY <2>1, FS_Interval
  <2>. QED BY <1>1, <2>2
<1>6. /\ IsFiniteSet(T) /\ Cardinality(T) <= Cardinality(1 .. n)
      /\ Cardinality(T) = Cardinality(1 .. n) <=> s \in Injection(1 .. n, T)
  BY <1>4, <1>5, FS_Surjection
<1>7. Cardinality(T) \in Nat
  BY <1>6, FS_CardinalityType
<1>8. Cardinality(T) = n
  <2>1. ~ (Cardinality(T) < n)
    BY DEF T, n
  <2>. QED BY <1>1, <1>5, <1>6, <1>7, <2>1
<1>. QED BY <1>5, <1>6, <1>8 DEF Injection

\* The intervals between those of S that are not in it, with a later one.
LEMMA GapCounted ==
  ASSUME NEW S \in SUBSET Int, NEW lo \in S, NEW hi \in S, \A x \in S : lo <= x /\ x <= hi,
         NEW new \in Int, new >= hi
  PROVE  Cardinality((lo .. new) \ (S \cup {new})) =
           IF new - hi - 1 > 0 THEN Cardinality((lo .. hi) \ S) + (new - hi - 1)
           ELSE Cardinality((lo .. hi) \ S)
<1>. DEFINE A == (lo .. hi) \ S
            B == (hi + 1) .. (new - 1)
            C == (lo .. new) \ (S \cup {new})
<1>1. lo \in Int /\ hi \in Int /\ hi + 1 \in Int /\ new - 1 \in Int
  OBVIOUS
<1>2. C = A \cup B /\ A \cap B = {}
  <2>1. \A x : x \in C => x \in A \cup B
    BY <1>1
  <2>2. \A x : x \in A \cup B => x \in C
    BY <1>1
  <2>3. A \cap B = {}
    BY <1>1
  <2>. HIDE DEF A, B, C
  <2>. QED BY <2>1, <2>2, <2>3
<1>3. IsFiniteSet(A)
  <2>1. IsFiniteSet(lo .. hi) /\ A \subseteq lo .. hi
    BY <1>1, FS_Interval
  <2>. HIDE DEF A
  <2>. QED BY <2>1, FS_Subset
<1>4. IsFiniteSet(B) /\ Cardinality(B) = IF hi + 1 > new - 1 THEN 0 ELSE (new - 1) - (hi + 1) + 1
  BY <1>1, FS_Interval
<1>5. Cardinality(B) = IF new - hi - 1 > 0 THEN new - hi - 1 ELSE 0
  BY <1>1, <1>4
<1>. HIDE DEF A, B, C
<1>6. Cardinality(A \cup B) = Cardinality(A) + Cardinality(B) - Cardinality(A \cap B)
  BY <1>3, <1>4, FS_Union
<1>7. Cardinality(A \cap B) = 0 /\ Cardinality(A) \in Nat
  BY <1>2, <1>3, FS_EmptySet, FS_CardinalityType
<1>8. Cardinality(C) = Cardinality(A) + Cardinality(B)
  <2>1. Cardinality(B) \in Nat
    BY <1>4, FS_CardinalityType
  <2>. QED BY <1>2, <1>6, <1>7, <2>1
<1>9. Cardinality(C) = IF new - hi - 1 > 0 THEN Cardinality(A) + (new - hi - 1) ELSE Cardinality(A)
  BY <1>1, <1>5, <1>7, <1>8
<1>. QED BY <1>9 DEF A, C

\* Sets by the number of their elements: what holds of a set when it holds of those
\* with an element less holds of all subsets of a finite set.
LEMMA BySize ==
  ASSUME NEW S, IsFiniteSet(S), NEW Good, {} \in Good,
         \A t \in SUBSET S : t # {} /\ (\A x \in t : t \ {x} \in Good) => t \in Good
  PROVE  \A t \in SUBSET S : t \in Good
<1>. DEFINE n == Cardinality(S)
            T == {k \in 0 .. n : \A t \in SUBSET S : Cardinality(t) = k => t \in Good}
<1>1. n \in Nat /\ \A t \in SUBSET S : IsFiniteSet(t) /\ Cardinality(t) \in 0 .. n /\ (Cardinality(t) = 0 <=> t = {})
  <2>1. n \in Nat
    BY FS_CardinalityType
  <2>2. ASSUME NEW t \in SUBSET S PROVE IsFiniteSet(t) /\ Cardinality(t) \in 0 .. n /\ (Cardinality(t) = 0 <=> t = {})
    <3>1. IsFiniteSet(t) /\ Cardinality(t) <= n
      BY FS_Subset
    <3>2. Cardinality(t) \in Nat
      BY <3>1, FS_CardinalityType
    <3>. QED BY <2>1, <3>1, <3>2, FS_EmptySet
  <2>. QED BY <2>1, <2>2
<1>. HIDE DEF n
<1>2. 0 \in T
  <2>1. \A t \in SUBSET S : Cardinality(t) = 0 => t \in Good
    BY <1>1
  <2>2. 0 \in 0 .. n
    BY <1>1
  <2>. QED BY <2>1, <2>2
<1>3. ASSUME NEW k \in 0 .. n - 1, k \in T PROVE k + 1 \in T
  <2>1. k \in Nat /\ k + 1 \in 0 .. n
    BY <1>1
  <2>2. ASSUME NEW t \in SUBSET S, Cardinality(t) = k + 1 PROVE t \in Good
    <3>1. t # {} /\ IsFiniteSet(t)
      BY <1>1, <2>1, <2>2
    <3>2. ASSUME NEW x \in t PROVE t \ {x} \in Good
      <4>1. Cardinality(t \ {x}) = Cardinality(t) - 1
        BY <3>1, FS_RemoveElement
      <4>2. Cardinality(t \ {x}) = k /\ t \ {x} \in SUBSET S
        BY <2>1, <2>2, <4>1
      <4>. QED BY <1>3, <4>2
    <3>. QED BY <3>1, <3>2
  <2>. QED BY <2>1, <2>2
<1>4. \A k \in 0 .. n : k \in T
  <2>1. \A k \in 0 .. n - 1 : k \in T => k + 1 \in T
    BY <1>3
  <2>. HIDE DEF T
  <2>. QED BY <1>1, <1>2, <2>1, UpTo
<1>5. ASSUME NEW t \in SUBSET S PROVE t \in Good
  <2>1. Cardinality(t) \in 0 .. n
    BY <1>1
  <2>2. Cardinality(t) \in T
    BY <1>4, <2>1
  <2>. QED BY <2>2
<1>. QED BY <1>5
-----------------------------------------------------------------------------
(* Sums over finite sets, which do not depend on the order in which the elements
   are taken *)

Valued(S, v) == IsFiniteSet(S) /\ \A a \in S : v[a] \in Int

\* The sums of the subsets of S, by the element that is chosen of each.
Summed(h, S, v) ==
  /\ h \in [SUBSET S -> Int] /\ h[{}] = 0
  /\ \A t \in SUBSET S : t # {} => /\ (CHOOSE x \in t : TRUE) \in t
                                  /\ h[t] = v[CHOOSE x \in t : TRUE] + h[t \ {CHOOSE x \in t : TRUE}]

\* They exist.
LEMMA SummedExists ==
  ASSUME NEW S, NEW v, Valued(S, v)
  PROVE  \E h : Summed(h, S, v)
<1>. DEFINE ch == [t \in SUBSET S |-> CHOOSE x \in t : TRUE]
            G == [p \in S \X Int |-> v[p[1]] + p[2]]
<1>1. IsFiniteSet(S) /\ \A a \in S : v[a] \in Int
  BY DEF Valued
<1>2. ASSUME NEW t \in SUBSET S, t # {} PROVE (CHOOSE x \in t : TRUE) \in t /\ ch[t] = CHOOSE x \in t : TRUE
  BY <1>2
<1>3. \A e \in S, x \in Int : G[<<e, x>>] = v[e] + x /\ G[<<e, x>>] \in Int
  BY <1>1
<1>. HIDE DEF G, ch
<1>4. Closed(G, S, Int) /\ Chooses(ch, S) /\ 0 \in Int
  BY <1>2, <1>3 DEF Closed, Chooses
<1>5. PICK h : FoldOf(h, S, Int, 0, ch, G)
  BY <1>1, <1>4, FoldExists
<1>6. /\ h \in [SUBSET S -> Int] /\ h[{}] = 0
      /\ \A t \in SUBSET S : t # {} => h[t] = G[<<ch[t], h[t \ {ch[t]}]>>]
  BY <1>5 DEF FoldOf
<1>7. ASSUME NEW t \in SUBSET S, t # {}
      PROVE  h[t] = v[CHOOSE x \in t : TRUE] + h[t \ {CHOOSE x \in t : TRUE}]
  <2>. DEFINE c == CHOOSE x \in t : TRUE
  <2>1. c \in S /\ t \ {c} \in SUBSET S /\ ch[t] = c
    BY <1>2, <1>7
  <2>. HIDE DEF c
  <2>2. h[t] = G[<<c, h[t \ {c}]>>] /\ h[t \ {c}] \in Int
    BY <1>6, <1>7, <2>1
  <2>3. h[t] = v[c] + h[t \ {c}]
    BY <1>3, <2>1, <2>2
  <2>. QED BY <2>3 DEF c
<1>8. Summed(h, S, v)
  BY <1>2, <1>6, <1>7 DEF Summed
<1>. QED BY <1>8

\* What a fold of the community modules computes are the sums.
LEMMA SumsFound ==
  ASSUME NEW S, NEW v, Valued(S, v), NEW it, it = [t \in SUBSET S |-> it[t]], it[{}] = 0,
         \A t \in SUBSET S : t # {} => it[t] = v[CHOOSE x \in t : TRUE] + it[t \ {CHOOSE x \in t : TRUE}]
  PROVE  Summed(it, S, v)
<1>. DEFINE Good == {t \in SUBSET S : it[t] \in Int}
<1>1. IsFiniteSet(S) /\ \A a \in S : v[a] \in Int
  BY DEF Valued
<1>2. \A t \in SUBSET S : t # {} => (CHOOSE x \in t : TRUE) \in t
  OBVIOUS
<1>3. {} \in Good
  OBVIOUS
<1>4. ASSUME NEW t \in SUBSET S, t # {}, \A x \in t : t \ {x} \in Good PROVE t \in Good
  <2>. DEFINE c == CHOOSE x \in t : TRUE
  <2>1. c \in t /\ c \in S /\ it[t] = v[c] + it[t \ {c}]
    BY <1>4
  <2>. HIDE DEF c
  <2>2. it[t \ {c}] \in Int /\ v[c] \in Int
    BY <1>1, <1>4, <2>1
  <2>. QED BY <2>1, <2>2
<1>5. \A t \in SUBSET S : t \in Good
  <2>. HIDE DEF Good
  <2>. QED BY <1>1, <1>3, <1>4, BySize
<1>6. it \in [SUBSET S -> Int]
  BY <1>5
<1>. QED BY <1>2, <1>6 DEF Summed

\* The sum of a set is the same among the subsets of any set.
LEMMA SumsAgree ==
  ASSUME NEW S, NEW v, Valued(S, v), NEW U \in SUBSET S, NEW w, \A a \in U : v[a] = w[a],
         NEW h, Summed(h, S, v), NEW g, Summed(g, U, w)
  PROVE  \A t \in SUBSET U : h[t] = g[t]
<1>. DEFINE Good == {t \in SUBSET U : h[t] = g[t]}
<1>1. IsFiniteSet(U) /\ \A t \in SUBSET U : t \in SUBSET S
  BY FS_Subset DEF Valued
<1>2. {} \in Good
  BY DEF Summed
<1>3. ASSUME NEW t \in SUBSET U, t # {}, \A x \in t : t \ {x} \in Good PROVE t \in Good
  <2>. DEFINE c == CHOOSE x \in t : TRUE
  <2>1. c \in t /\ h[t] = v[c] + h[t \ {c}] /\ g[t] = w[c] + g[t \ {c}]
    BY <1>1, <1>3 DEF Summed
  <2>. HIDE DEF c
  <2>2. h[t \ {c}] = g[t \ {c}] /\ v[c] = w[c]
    BY <1>3, <2>1
  <2>. QED BY <2>1, <2>2
<1>4. \A t \in SUBSET U : t \in Good
  <2>. HIDE DEF Good
  <2>. QED BY <1>1, <1>2, <1>3, BySize
<1>. QED BY <1>4

Adding(h, S, v) ==
  \A t \in SUBSET S : h[t] \in Int /\ \A x \in t : h[t] = v[x] + h[t \ {x}]

\* The sum of a set is any of its elements and the sum of the others.
LEMMA SumsAdd ==
  ASSUME NEW S, NEW v, Valued(S, v), NEW h, Summed(h, S, v)
  PROVE  Adding(h, S, v)
<1>. DEFINE Good == {t \in SUBSET S : \A x \in t : h[t] = v[x] + h[t \ {x}]}
<1>1. h \in [SUBSET S -> Int] /\ IsFiniteSet(S) /\ \A x \in S : v[x] \in Int
  BY DEF Summed, Valued
<1>2. {} \in Good
  OBVIOUS
<1>3. ASSUME NEW t \in SUBSET S, t # {}, \A x \in t : t \ {x} \in Good PROVE t \in Good
  <2>. DEFINE c == CHOOSE x \in t : TRUE
  <2>1. c \in t /\ h[t] = v[c] + h[t \ {c}]
    BY <1>3 DEF Summed
  <2>. HIDE DEF c
  <2>2. ASSUME NEW x \in t, x # c PROVE h[t] = v[x] + h[t \ {x}]
    <3>1. x \in t \ {c} /\ c \in t \ {x} /\ (t \ {c}) \ {x} = (t \ {x}) \ {c}
      BY <2>1, <2>2
    <3>2. h[t \ {c}] = v[x] + h[(t \ {c}) \ {x}]
      BY <1>3, <2>1, <3>1
    <3>3. h[t \ {x}] = v[c] + h[(t \ {x}) \ {c}]
      BY <1>3, <3>1
    <3>. DEFINE rest == (t \ {x}) \ {c}
    <3>4. v[x] \in Int /\ v[c] \in Int /\ h[rest] \in Int
      BY <1>1, <2>1
    <3>5. h[t \ {c}] = v[x] + h[rest] /\ h[t \ {x}] = v[c] + h[rest]
      BY <3>1, <3>2, <3>3
    <3>. HIDE DEF rest
    <3>. QED BY <2>1, <3>4, <3>5
  <2>. QED BY <2>1, <2>2
<1>4. \A t \in SUBSET S : t \in Good
  <2>. HIDE DEF Good
  <2>. QED BY <1>1, <1>2, <1>3, BySize
<1>. QED BY <1>1, <1>4 DEF Adding
=============================================================================
