---------------------------- MODULE SearchProofs ----------------------------
(***************************************************************************)
(* What a search finds, how its pages divide it and what is counted beside *)
(* it, for any documents, queries, tenants and facets, whatever changes    *)
(* between the pages.                                                      *)
(*                                                                         *)
(* First what the operators do: a tree of codes selects what it denotes    *)
(* (both are recursive functions, whose existence is shown from the last   *)
(* node back), the filters are the wanted ones, two sorted arrangements    *)
(* under a total order are the same, and the places of the buckets of two  *)
(* languages agree.  Then the inductive invariant SearchInv, which says    *)
(* where each page and each answer came from.                              *)
(***************************************************************************)
EXTENDS Search, TLAPS, NaturalsInduction, SequenceTheorems, FiniteSetTheorems,
        WellFoundedInduction

-----------------------------------------------------------------------------
(* Numbers and arrangements. *)

\* A nonempty set of numbers has a least one.
LEMMA LeastOne ==
    ASSUME NEW I, I \subseteq Nat, I # {}
    PROVE  \E x \in I : \A y \in I : x <= y
  <1> DEFINE R == OpToRel(<, Nat)
  <1>1. \A x \in Nat, y \in Nat : <<y, x>> \in R <=> y < x
    BY DEF OpToRel
  <1>2. IsWellFoundedOn(R, Nat)
    BY NatLessThanWellFounded
  <1> HIDE DEF R
  <1>3. PICK x \in I : \A y \in I : ~ (<<y, x>> \in R)
    BY <1>2, WFMin
  <1>4. \A y \in I : x \in Nat /\ y \in Nat /\ ~ (y < x)
    BY <1>1, <1>3
  <1> QED
    BY <1>4

\* What holds of a place if it holds of all later ones holds of every place.
LEMMA FromTheLast ==
    ASSUME NEW N \in Nat, NEW I,
           \A i \in 1..N : (i + 1)..N \subseteq I => i \in I
    PROVE  1..N \subseteq I
  <1> DEFINE Bad == {m \in 0..(N - 1) : N - m \notin I}
  <1> SUFFICES ASSUME NEW j \in 1..N, j \notin I PROVE FALSE
    OBVIOUS
  <1>1. Bad \subseteq Nat /\ N - j \in Bad
    <2>1. N - j \in 0..(N - 1) /\ N - (N - j) = j
      OBVIOUS
    <2> QED
      BY <2>1
  <1>2. PICK m \in Bad : \A l \in Bad : m <= l
    <2> HIDE DEF Bad
    <2> QED
      BY <1>1, LeastOne
  <1>3. N - m \in 1..N /\ N - m \notin I
    BY <1>2
  <1>4. ASSUME NEW k \in (N - m + 1)..N PROVE k \in I
    <2>1. N - k \in 0..(N - 1) /\ ~(m <= N - k) /\ N - (N - k) = k
      BY <1>2
    <2> QED
      BY <1>2, <2>1
  <1> QED
    BY <1>3, <1>4

\* An arrangement of a finite set has each of its elements, once.
LEMMA Arranges ==
    ASSUME NEW S, IsFiniteSet(S), NEW s \in SetToSeqs(S)
    PROVE  /\ Cardinality(S) \in Nat /\ Len(s) = Cardinality(S)
           /\ DOMAIN s = 1..Cardinality(S) /\ s \in Seq(S)
           /\ \A i, j \in DOMAIN s : s[i] = s[j] => i = j
           /\ \A x \in S : \E i \in DOMAIN s : s[i] = x
  <1> DEFINE N == Cardinality(S)
  <1>1. N \in Nat
    BY FS_CardinalityType
  <1>2. s \in [1..N -> S] /\ \A i, j \in 1..N : i # j => s[i] # s[j]
    BY DEF SetToSeqs
  <1> HIDE DEF N
  <1>3. s \in Seq(S) /\ Len(s) = N /\ DOMAIN s = 1..N
    BY <1>1, <1>2
  <1>4. s \in Injection(1..N, S)
    BY <1>2 DEF Injection, IsInjective
  <1>5. IsFiniteSet(1..N) /\ Cardinality(1..N) = N
    BY <1>1, FS_Interval
  <1>6. s \in Surjection(1..N, S)
    BY <1>4, <1>5, FS_Injection DEF N
  <1> QED
    BY <1>1, <1>2, <1>3, <1>6 DEF N, Surjection

-----------------------------------------------------------------------------
(* Ranking. *)

\* The sum of the boosts of the predicted codes is a number.
LEMMA BoostIsInt ==
    ASSUME NEW b, NEW d, Len(b.predicted) \in Nat
    PROVE  CodeBoost(b, d) \in Int
  <1> DEFINE N == Len(b.predicted)
             More(i) == IF b.predicted[i] \in d.codes THEN 100 + 50 \div i ELSE 0
             Sums(n, f) == /\ f \in [0..n -> Int]
                           /\ \A i \in 0..n : f[i] = IF i = 0 THEN 0 ELSE f[i - 1] + More(i)
             Fails == {n \in Nat : ~ \E f : Sums(n, f)}
  <1>1. \A i \in Nat \ {0} : More(i) \in Int
    OBVIOUS
  <1> HIDE DEF More
  <1>2. Sums(0, [i \in 0..0 |-> 0])
    OBVIOUS
  <1>3. ASSUME NEW n \in Nat, NEW f, Sums(n, f)
        PROVE  \E g : Sums(n + 1, g)
    <2> DEFINE g == [i \in 0..(n + 1) |-> IF i = n + 1 THEN f[n] + More(n + 1) ELSE f[i]]
    <2>1. g \in [0..(n + 1) -> Int]
      BY <1>1, <1>3
    <2>2. ASSUME NEW i \in 0..(n + 1)
          PROVE  g[i] = IF i = 0 THEN 0 ELSE g[i - 1] + More(i)
      <3>1. CASE i = n + 1
        BY <3>1
      <3>2. CASE i # n + 1
        <4>1. i \in 0..n /\ g[i] = f[i]
          BY <3>2
        <4>2. i # 0 => i - 1 \in 0..(n + 1) /\ i - 1 # n + 1 /\ g[i - 1] = f[i - 1]
          BY <4>1
        <4> QED
          BY <1>3, <4>1, <4>2
      <3> QED
        BY <3>1, <3>2
    <2> HIDE DEF g
    <2> QED
      BY <2>1, <2>2
  <1> HIDE DEF Sums
  <1>4. Fails = {}
    <2> SUFFICES ASSUME Fails # {} PROVE FALSE
      OBVIOUS
    <2>1. PICK n \in Fails : \A m \in Fails : n <= m
      BY LeastOne
    <2>2. n \in Nat /\ n # 0
      BY <1>2
    <2>3. n - 1 \in Nat /\ n - 1 \notin Fails
      BY <2>1, <2>2
    <2> QED
      BY <1>3, <2>1, <2>3
  <1>5. PICK f : Sums(N, f)
    BY <1>4
  <1> DEFINE Body(g) == [i \in 0..N |-> IF i = 0 THEN 0 ELSE g[i - 1] + More(i)]
             boost == CHOOSE g : g = Body(g)
  <1>6. f = Body(f)
    BY <1>5 DEF Sums
  <1>7. boost = Body(boost)
    BY <1>6, Zenon
  <1> HIDE DEF boost
  <1>8. {i \in 0..N : boost[i] \notin Int} = {}
    <2> DEFINE Bad == {i \in 0..N : boost[i] \notin Int}
    <2> SUFFICES ASSUME Bad # {} PROVE FALSE
      OBVIOUS
    <2>1. Bad \subseteq Nat
      OBVIOUS
    <2>2. PICK i \in Bad : \A j \in Bad : i <= j
      <3> HIDE DEF Bad
      <3> QED
        BY <2>1, LeastOne
    <2>3. boost[i] = IF i = 0 THEN 0 ELSE boost[i - 1] + More(i)
      BY <1>7
    <2>4. i # 0 => boost[i - 1] \in Int /\ More(i) \in Int
      BY <1>1, <2>2
    <2> QED
      BY <2>3, <2>4
  <1>9. CodeBoost(b, d) = boost[N]
    BY Zenon DEF boost, More, CodeBoost
  <1> QED
    BY <1>8, <1>9

LEMMA ScoreIsInt ==
    ASSUME NEW q \in Queries, NEW b, Len(b.predicted) \in Nat, NEW d \in Docs
    PROVE  Score(q, b, d) \in Int
  <1>1. /\ d.priority \in Int
        /\ d.point # None => d.point \in Int
        /\ q.coords # None => q.coords \in Int
    BY SearchAssumption
  <1>2. CodeBoost(b, d) \in Int
    BY BoostIsInt
  <1>3. q.coords # None /\ d.point # None => Away(q, d) \in Nat
    BY <1>1 DEF Away, Distance
  <1>4. \A x : Bit(x) \in Int
    BY DEF Bit
  <1> HIDE DEF Bit
  <1>5. (IF q.word = None THEN 0
         ELSE 30 * Bit(q.word \in d.title) + 2 * Bit(q.word \in d.words)) \in Int
    BY <1>4
  <1>6. (IF b.vector THEN 200 * Bit(q.word \in d.meaning) ELSE 0) \in Int
    BY <1>4
  <1>7. (IF q.coords = None \/ d.point = None THEN 0 ELSE 3 \div (1 + Away(q, d))) \in Int
    BY <1>3
  <1>8. (IF b.pinned THEN 10 * Bit(d.pinned) + 2 * d.priority ELSE 0) \in Int
    BY <1>1, <1>4
  <1> QED
    BY <1>2, <1>5, <1>6, <1>7, <1>8 DEF Score

\* Of two sequences of as many numbers, one is above the other.
LEMMA AboveIsTotal ==
    ASSUME NEW N \in Nat, NEW k1 \in [1..N -> Int], NEW k2 \in [1..N -> Int],
           NEW n \in 1..N, k1[n] # k2[n]
    PROVE  Above(k1, k2) \/ Above(k2, k1)
  <1> DEFINE Differ == {m \in 1..N : k1[m] # k2[m]}
  <1>1. Differ \subseteq Nat /\ Differ # {}
    OBVIOUS
  <1> HIDE DEF Differ
  <1>2. PICK m \in Differ : \A l \in Differ : m <= l
    BY <1>1, LeastOne
  <1>3. m \in 1..N /\ k1[m] # k2[m] /\ k1[m] \in Int /\ k2[m] \in Int
    BY <1>2 DEF Differ
  <1>4. \A l \in 1..(m - 1) : k1[l] = k2[l]
    <2> SUFFICES ASSUME NEW l \in 1..(m - 1) PROVE k1[l] = k2[l]
      OBVIOUS
    <2>1. l \in 1..N /\ ~(m <= l)
      BY <1>3
    <2> QED
      BY <1>2, <2>1 DEF Differ
  <1>5. CASE k1[m] > k2[m]
    BY <1>3, <1>4, <1>5 DEF Above
  <1>6. CASE k2[m] > k1[m]
    BY <1>3, <1>4, <1>6 DEF Above
  <1> QED
    BY <1>3, <1>5, <1>6

\* The keys of two documents are never all equal when the last one is the id.
LEMMA KeysTellApart ==
    ASSUME NEW q \in Queries, OneOrder(q), NEW b, Len(b.predicted) \in Nat,
           NEW d \in Docs, NEW e \in Docs, d # e
    PROVE  \/ Above(Keys(q, b, d), Keys(q, b, e))
           \/ Above(Keys(q, b, e), Keys(q, b, d))
  <1>1. \A x \in {d, e} : x.id \in Int /\ x.priority \in Int
    BY SearchAssumption
  <1>2. d.id # e.id
    BY SearchAssumption
  <1>3. \A x \in {d, e} : Score(q, b, x) \in Int
    BY ScoreIsInt
  <1>4. \A x : Bit(x) \in Int
    BY DEF Bit
  <1> HIDE DEF Bit, Score
  <1> DEFINE k(x) == Keys(q, b, x)
  <1>5. CASE q.type = "hybrid" /\ b.pinned
    <2>1. \A x \in {d, e} : k(x) = <<Score(q, b, x), -x.id>>
      BY <1>5 DEF Keys, HybridKeys
    <2>2. \A x \in {d, e} : k(x) \in [1..2 -> Int] /\ k(x)[2] = -x.id
      BY <1>1, <1>3, <2>1
    <2> HIDE DEF k
    <2>3. k(d) \in [1..2 -> Int] /\ k(e) \in [1..2 -> Int]
      BY <2>2
    <2>4. k(d)[2] # k(e)[2]
      BY <1>1, <1>2, <2>2
    <2>5. Above(k(d), k(e)) \/ Above(k(e), k(d))
      <3>1. 2 \in Nat /\ 2 \in 1..2
        OBVIOUS
      <3> QED
        BY <2>3, <2>4, <3>1, AboveIsTotal
    <2> QED
      BY <2>5 DEF k
  <1>6. CASE q.type = "hybrid" /\ ~b.pinned
    <2>1. \A x \in {d, e} :
            k(x) = <<Bit(x.pinned), x.priority, Score(q, b, x), -x.id>>
      BY <1>6 DEF Keys, HybridKeys
    <2>2. \A x \in {d, e} : k(x) \in [1..4 -> Int] /\ k(x)[4] = -x.id
      BY <1>1, <1>3, <1>4, <2>1
    <2> HIDE DEF k
    <2>3. k(d) \in [1..4 -> Int] /\ k(e) \in [1..4 -> Int]
      BY <2>2
    <2>4. k(d)[4] # k(e)[4]
      BY <1>1, <1>2, <2>2
    <2>5. Above(k(d), k(e)) \/ Above(k(e), k(d))
      <3>1. 4 \in Nat /\ 4 \in 1..4
        OBVIOUS
      <3> QED
        BY <2>3, <2>4, <3>1, AboveIsTotal
    <2> QED
      BY <2>5 DEF k
  <1>7. CASE q.type # "hybrid"
    <2>1. \A x \in {d, e} : k(x) = <<x.priority, -x.id>>
      BY <1>7 DEF Keys, ClassicKeys, OneOrder
    <2>2. \A x \in {d, e} : k(x) \in [1..2 -> Int] /\ k(x)[2] = -x.id
      BY <1>1, <2>1
    <2> HIDE DEF k
    <2>3. k(d) \in [1..2 -> Int] /\ k(e) \in [1..2 -> Int]
      BY <2>2
    <2>4. k(d)[2] # k(e)[2]
      BY <1>1, <1>2, <2>2
    <2>5. Above(k(d), k(e)) \/ Above(k(e), k(d))
      <3>1. 2 \in Nat /\ 2 \in 1..2
        OBVIOUS
      <3> QED
        BY <2>3, <2>4, <3>1, AboveIsTotal
    <2> QED
      BY <2>5 DEF k
  <1> QED
    BY <1>5, <1>6, <1>7

\* So there is one order, whichever Elasticsearch picks.
LEMMA OneSortedArrangement ==
    ASSUME NEW q \in Queries, OneOrder(q), NEW b, Len(b.predicted) \in Nat,
           NEW hits, hits \subseteq Docs,
           NEW s \in Orders(q, b, hits), NEW t \in Orders(q, b, hits)
    PROVE  s = t
  <1> DEFINE N == Cardinality(hits)
             Differ == {i \in 1..N : s[i] # t[i]}
  <1>1. IsFiniteSet(hits)
    BY SearchAssumption, FS_Subset
  <1>2. /\ s \in SetToSeqs(hits) /\ t \in SetToSeqs(hits)
        /\ \A i, j \in DOMAIN s : i < j => ~Above(Keys(q, b, s[j]), Keys(q, b, s[i]))
        /\ \A i, j \in DOMAIN t : i < j => ~Above(Keys(q, b, t[j]), Keys(q, b, t[i]))
    <2>1. \A u \in SetToSeqs(hits) : \A i \in DOMAIN u : u[i] \in hits
      BY DEF SetToSeqs
    <2> QED
      BY <2>1 DEF Orders
  <1>3. /\ N \in Nat
        /\ \A u \in {s, t} : /\ DOMAIN u = 1..N /\ u \in Seq(hits)
                             /\ \A i, j \in 1..N : u[i] = u[j] => i = j
                             /\ \A x \in hits : \E i \in 1..N : u[i] = x
                             /\ \A i \in 1..N : u[i] \in hits
    <2>1. N \in Nat
      BY <1>1, FS_CardinalityType
    <2>2. ASSUME NEW u \in {s, t}
          PROVE  /\ DOMAIN u = 1..N /\ u \in Seq(hits)
                 /\ \A i, j \in 1..N : u[i] = u[j] => i = j
                 /\ \A x \in hits : \E i \in 1..N : u[i] = x
                 /\ \A i \in 1..N : u[i] \in hits
      <3>1. u \in SetToSeqs(hits)
        BY <1>2
      <3>2. /\ DOMAIN u = 1..N /\ u \in Seq(hits) /\ Len(u) = N
            /\ \A i, j \in 1..N : u[i] = u[j] => i = j
            /\ \A x \in hits : \E i \in 1..N : u[i] = x
        BY <1>1, <3>1, Arranges
      <3> HIDE DEF N
      <3> QED
        BY <3>2, ElementOfSeq
    <2> QED
      BY <2>1, <2>2
  <1> HIDE DEF N
  <1>4. Differ = {}
    <2> SUFFICES ASSUME Differ # {} PROVE FALSE
      OBVIOUS
    <2>1. Differ \subseteq Nat
      OBVIOUS
    <2> HIDE DEF Differ
    <2>2. PICK i \in Differ : \A j \in Differ : i <= j
      BY <2>1, LeastOne
    <2>3. i \in 1..N /\ s[i] # t[i] /\ \A j \in 1..N : j < i => s[j] = t[j]
      BY <2>2, <1>3 DEF Differ
    <2>4. PICK j \in 1..N : t[j] = s[i]
      BY <1>3, <2>3
    <2>5. PICK k \in 1..N : s[k] = t[i]
      BY <1>3, <2>3
    <2>6. i < j /\ i < k
      <3>1. j # i /\ k # i
        BY <2>3, <2>4, <2>5
      <3>2. ~(j < i)
        <4> SUFFICES ASSUME j < i PROVE FALSE
          OBVIOUS
        <4>1. s[j] = s[i]
          BY <2>3, <2>4
        <4> QED
          BY <1>3, <2>3, <3>1, <4>1
      <3>3. ~(k < i)
        <4> SUFFICES ASSUME k < i PROVE FALSE
          OBVIOUS
        <4>1. t[k] = t[i]
          BY <2>3, <2>5
        <4> QED
          BY <1>3, <2>3, <3>1, <4>1
      <3> QED
        BY <2>3, <3>1, <3>2, <3>3
    <2>7. ~Above(Keys(q, b, t[i]), Keys(q, b, s[i]))
      BY <1>2, <1>3, <2>3, <2>5, <2>6
    <2>8. ~Above(Keys(q, b, s[i]), Keys(q, b, t[i]))
      BY <1>2, <1>3, <2>3, <2>4, <2>6
    <2>9. s[i] \in Docs /\ t[i] \in Docs
      BY <1>3, <2>3
    <2> QED
      BY <2>3, <2>7, <2>8, <2>9, KeysTellApart
  <1>5. \A i \in 1..N : s[i] = t[i]
    BY <1>4
  <1>6. s \in [1..N -> hits] /\ t \in [1..N -> hits]
    BY <1>2 DEF SetToSeqs, N
  <1>7. s = [i \in 1..N |-> s[i]] /\ t = [i \in 1..N |-> t[i]]
    BY <1>6
  <1>8. [i \in 1..N |-> s[i]] = [i \in 1..N |-> t[i]]
    BY <1>5
  <1> QED
    BY <1>7, <1>8, Zenon

-----------------------------------------------------------------------------
(* Pages. *)

\* A slice has the elements from one place on, as far as there are any.
SliceEnd(s, from, size) == IF from + size < Len(s) THEN from + size ELSE Len(s)

Takes(S, t, s, from, end) ==
    /\ t \in Seq(S)
    /\ Len(t) = IF from < end THEN end - from ELSE 0
    /\ \A n \in DOMAIN t : from + n \in 1..end /\ t[n] = s[from + n]

LEMMA SliceTakes ==
    ASSUME NEW S, NEW s \in Seq(S), NEW from \in Nat, NEW size \in Nat
    PROVE  Takes(S, Slice(s, from, size), s, from, SliceEnd(s, from, size))
  <1> DEFINE t == Slice(s, from, size)
             end == SliceEnd(s, from, size)
  <1>1. Len(s) \in Nat /\ end \in Nat /\ end <= Len(s)
    BY LenProperties DEF SliceEnd
  <1>2. t = SubSeq(s, from + 1, end)
    BY DEF Slice, SliceEnd
  <1> HIDE DEF t, end
  <1>3. \A i \in (from + 1)..end : s[i] \in S
    BY <1>1, ElementOfSeq
  <1>4. /\ t \in Seq(S)
        /\ Len(t) = IF from + 1 <= end THEN end - (from + 1) + 1 ELSE 0
        /\ \A i \in 1..(end - (from + 1) + 1) : t[i] = s[from + 1 + i - 1]
    BY <1>1, <1>2, <1>3, SubSeqProperties
  <1>5. Len(t) = IF from < end THEN end - from ELSE 0
    BY <1>1, <1>4
  <1>6. DOMAIN t = 1..Len(t)
    BY <1>4, LenProperties
  <1>7. ASSUME NEW n \in DOMAIN t PROVE from + n \in 1..end /\ t[n] = s[from + n]
    <2>1. n \in 1..(end - (from + 1) + 1) /\ from + n \in 1..end
      BY <1>1, <1>5, <1>6
    <2>2. from + 1 + n - 1 = from + n
      BY <2>1
    <2> QED
      BY <1>4, <2>1, <2>2
  <1> QED
    BY <1>4, <1>5, <1>7 DEF Takes, t, end

\* The first places of pages are a page apart.
LEMMA PagesApart ==
    ASSUME NEW L \in Nat, NEW i \in Nat, NEW j \in Nat, i < j
    PROVE  /\ i * L \in Nat /\ (i - 1) * L \in Int /\ (j - 1) * L \in Nat
           /\ (i - 1) * L + L = i * L
           /\ i * L <= (j - 1) * L
  <1>1. (j - 1 - i) * L \in Nat
    OBVIOUS
  <1>2. (j - 1) * L = i * L + (j - 1 - i) * L
    OBVIOUS
  <1>3. i * L \in Nat /\ (i - 1) * L \in Int /\ (i - 1) * L + L = i * L
    OBVIOUS
  <1>4. (j - 1) * L \in Nat
    <2>1. j - 1 \in Nat
      OBVIOUS
    <2> QED
      BY <2>1
  <1> QED
    BY <1>1, <1>2, <1>3, <1>4

\* Every place is on a page.
LEMMA PageOfPlace ==
    ASSUME NEW L \in Nat \ {0}, NEW p \in Nat \ {0}
    PROVE  \E i \in Nat \ {0} : (i - 1) * L < p /\ p <= i * L
  <1> DEFINE I == {i \in Nat : p <= i * L}
  <1>1. p \in I
    <2>1. p * L = p + p * (L - 1) /\ p * (L - 1) \in Nat
      <3>1. L - 1 \in Nat
        OBVIOUS
      <3> QED
        BY <3>1
    <2> QED
      BY <2>1
  <1>2. I \subseteq Nat /\ I # {}
    BY <1>1
  <1> HIDE DEF I
  <1>3. PICK i \in I : \A j \in I : i <= j
    BY <1>2, LeastOne
  <1>4. i \in Nat /\ p <= i * L /\ i # 0
    BY <1>3 DEF I
  <1>5. i - 1 \in Nat /\ (i - 1) * L \in Nat /\ i - 1 \notin I
    <2>1. i - 1 \in Nat
      BY <1>4
    <2>2. (i - 1) * L \in Nat
      BY <2>1
    <2>3. ~(i <= i - 1)
      BY <1>4
    <2> QED
      BY <1>3, <2>1, <2>2, <2>3
  <1> QED
    BY <1>4, <1>5 DEF I

\* The pages of one arrangement share nothing, and leave nothing out once a
\* page is not full.
Divide(shown, P, L, S) ==
    /\ \A i, j \in 1..P : \A m \in DOMAIN shown[i], n \in DOMAIN shown[j] :
            shown[i][m] = shown[j][n] => i = j /\ m = n
    /\ \/ \A i \in 1..P : Len(shown[i]) = L
       \/ UNION {ToSet(shown[i]) : i \in 1..P} = S

LEMMA PagesOfOneOrder ==
    ASSUME NEW S, IsFiniteSet(S), NEW s \in SetToSeqs(S), NEW L \in Nat \ {0},
           NEW P \in Nat, NEW shown,
           \A i \in 1..P : shown[i] = Slice(s, (i - 1) * L, L)
    PROVE  Divide(shown, P, L, S)
  <1> DEFINE N == Cardinality(S)
  <1>1. /\ N \in Nat /\ Len(s) = N /\ s \in Seq(S) /\ DOMAIN s = 1..N
        /\ \A i, j \in 1..N : s[i] = s[j] => i = j
        /\ \A x \in S : \E i \in 1..N : s[i] = x
    BY Arranges
  <1> HIDE DEF N
  <1>2. ASSUME NEW i \in 1..P
        PROVE  /\ (i - 1) * L \in Nat /\ (i - 1) * L + L = i * L
               /\ Len(shown[i]) = IF i * L < N THEN L
                                  ELSE IF (i - 1) * L < N THEN N - (i - 1) * L ELSE 0
               /\ DOMAIN shown[i] = 1..Len(shown[i])
               /\ Len(shown[i]) \in Nat /\ Len(shown[i]) <= L
               /\ \A n \in DOMAIN shown[i] : /\ (i - 1) * L + n \in 1..N
                                             /\ shown[i][n] = s[(i - 1) * L + n]
    <2>1. i - 1 \in Nat
      OBVIOUS
    <2>2. (i - 1) * L \in Nat /\ (i - 1) * L + L = i * L
      BY <2>1
    <2> DEFINE from == (i - 1) * L
               end == SliceEnd(s, from, L)
    <2>3. /\ shown[i] \in Seq(S)
          /\ Len(shown[i]) = IF from < end THEN end - from ELSE 0
          /\ \A n \in DOMAIN shown[i] : /\ from + n \in 1..end
                                        /\ shown[i][n] = s[from + n]
      <3>1. from \in Nat /\ shown[i] = Slice(s, from, L)
        BY <2>2
      <3> HIDE DEF from
      <3>2. s \in Seq(S) /\ L \in Nat
        BY <1>1
      <3>3. Takes(S, Slice(s, from, L), s, from, SliceEnd(s, from, L))
        BY <3>1, <3>2, SliceTakes
      <3> QED
        BY <3>1, <3>3 DEF Takes
    <2>4. DOMAIN shown[i] = 1..Len(shown[i])
      BY <2>3, LenProperties
    <2>5. from \in Nat /\ from + L = i * L
      BY <2>2
    <2> HIDE DEF from
    <2>6. end \in Nat /\ end <= N /\ end = IF i * L < N THEN i * L ELSE N
      BY <1>1, <2>5 DEF SliceEnd
    <2> HIDE DEF end
    <2>7. \A n \in DOMAIN shown[i] : from + n \in 1..N
      BY <1>1, <2>3, <2>5, <2>6
    <2>8. Len(shown[i]) = IF i * L < N THEN L ELSE IF from < N THEN N - from ELSE 0
      BY <1>1, <2>3, <2>5, <2>6
    <2>9. Len(shown[i]) \in Nat /\ Len(shown[i]) <= L
      BY <1>1, <2>5, <2>8
    <2> QED
      BY <2>3, <2>4, <2>5, <2>7, <2>8, <2>9 DEF from
  <1>7. \A i \in 1..P : \A n \in DOMAIN shown[i] : n \in Nat /\ 0 < n /\ n <= L
    <2> SUFFICES ASSUME NEW i \in 1..P, NEW n \in DOMAIN shown[i]
                 PROVE  n \in Nat /\ 0 < n /\ n <= L
      OBVIOUS
    <2>1. /\ DOMAIN shown[i] = 1..Len(shown[i])
          /\ Len(shown[i]) \in Nat /\ Len(shown[i]) <= L
      BY <1>2
    <2> QED
      BY <2>1
  <1>3. ASSUME NEW i \in 1..P, NEW j \in 1..P, i < j,
               NEW m \in DOMAIN shown[i], NEW n \in DOMAIN shown[j]
        PROVE  shown[i][m] # shown[j][n]
    <2>1. i * L <= (j - 1) * L
      BY <1>3, PagesApart
    <2>2. m \in Nat /\ n \in Nat /\ m <= L /\ 0 < n
      BY <1>7
    <2>3. /\ (i - 1) * L + m \in 1..N /\ (j - 1) * L + n \in 1..N
          /\ shown[i][m] = s[(i - 1) * L + m] /\ shown[j][n] = s[(j - 1) * L + n]
      BY <1>2
    <2>4. (i - 1) * L + L = i * L /\ (i - 1) * L \in Nat /\ (j - 1) * L \in Nat
      BY <1>2
    <2>5. (i - 1) * L + m < (j - 1) * L + n
      BY <2>1, <2>2, <2>4
    <2> QED
      BY <1>1, <2>3, <2>5
  <1>4. ASSUME NEW i \in 1..P, NEW m \in DOMAIN shown[i], NEW n \in DOMAIN shown[i],
               shown[i][m] = shown[i][n]
        PROVE  m = n
    <2>1. (i - 1) * L \in Nat /\ m \in Nat /\ n \in Nat
      BY <1>2, <1>7
    <2> DEFINE a == (i - 1) * L
    <2>2. /\ a + m \in 1..N /\ shown[i][m] = s[a + m]
          /\ a + n \in 1..N /\ shown[i][n] = s[a + n]
      BY <1>2
    <2> HIDE DEF a
    <2>3. a + m = a + n
      BY <1>1, <1>4, <2>2
    <2> QED
      BY <2>1, <2>3 DEF a
  <1>5. ASSUME NEW i \in 1..P, NEW j \in 1..P, NEW m \in DOMAIN shown[i],
               NEW n \in DOMAIN shown[j], shown[i][m] = shown[j][n]
        PROVE  i = j /\ m = n
    <2>1. CASE i < j
      BY <1>3, <1>5, <2>1
    <2>2. CASE j < i
      BY <1>3, <1>5, <2>2
    <2>3. CASE i = j
      BY <1>4, <1>5, <2>3
    <2> QED
      BY <2>1, <2>2, <2>3
  <1>6. ASSUME NEW k \in 1..P, Len(shown[k]) # L
        PROVE  UNION {ToSet(shown[i]) : i \in 1..P} = S
    <2>1. N <= k * L
      <3>1. k * L < N => Len(shown[k]) = L
        BY <1>2
      <3>2. k * L \in Nat
        OBVIOUS
      <3> QED
        BY <1>1, <1>6, <3>1, <3>2
    <2>2. ASSUME NEW x \in S PROVE \E i \in 1..P : x \in ToSet(shown[i])
      <3>1. PICK p \in 1..N : s[p] = x
        BY <1>1
      <3>2. PICK i \in Nat \ {0} : (i - 1) * L < p /\ p <= i * L
        <4>1. p \in Nat \ {0}
          BY <1>1
        <4> QED
          BY <4>1, PageOfPlace
      <3>3. i <= k
        <4> SUFFICES ASSUME k < i PROVE FALSE
          BY <3>2
        <4>1. k * L <= (i - 1) * L /\ k * L \in Nat /\ (i - 1) * L \in Nat
          BY PagesApart
        <4> QED
          BY <1>1, <2>1, <3>2, <4>1
      <3>4. i \in 1..P
        BY <3>2, <3>3
      <3>5. (i - 1) * L \in Nat /\ (i - 1) * L + L = i * L
        BY <1>2, <3>4
      <3>6. p - (i - 1) * L \in 1..Len(shown[i])
        <4> DEFINE a == (i - 1) * L
                   b == i * L
        <4>1. /\ a \in Nat /\ a + L = b /\ a < p /\ p <= b
              /\ Len(shown[i]) = IF b < N THEN L ELSE IF a < N THEN N - a ELSE 0
          BY <1>2, <3>2, <3>4, <3>5
        <4> HIDE DEF a, b
        <4>2. p - a \in 1..Len(shown[i])
          BY <1>1, <4>1
        <4> QED
          BY <4>2 DEF a
      <3>7. (i - 1) * L + (p - (i - 1) * L) = p
        BY <3>5
      <3>8. shown[i][p - (i - 1) * L] = x
        BY <1>2, <3>1, <3>4, <3>6, <3>7
      <3> QED
        BY <1>2, <3>4, <3>6, <3>8 DEF ToSet
    <2>3. ASSUME NEW i \in 1..P, NEW x \in ToSet(shown[i]) PROVE x \in S
      <3>1. PICK n \in DOMAIN shown[i] : x = shown[i][n]
        BY DEF ToSet
      <3> QED
        BY <1>1, <1>2, <3>1, ElementOfSeq
    <2> QED
      BY <2>2, <2>3
  <1> QED
    BY <1>5, <1>6 DEF Divide

-----------------------------------------------------------------------------
(* Complex queries. *)

\* What a node's value is made of: f has the values of the nodes after it.
SatisfiedAt(d, tree, i, f) ==
    IF IsLeaf(tree[i]) THEN tree[i].code \in d.codes
    ELSE IF tree[i].or # None
         THEN tree[i].or = <<>> \/ \E k \in ToSet(tree[i].or) : f[k]
         ELSE \A k \in ToSet(tree[i].and) : f[k]

DenotedAt(tree, S, i, f) ==
    IF IsLeaf(tree[i]) THEN {d \in S : tree[i].code \in d.codes}
    ELSE IF tree[i].or # None THEN UNION {f[k] : k \in ToSet(tree[i].or)}
    ELSE S \ UNION {S \ f[k] : k \in ToSet(tree[i].and)}

\* The operands of a node come after it.
LEMMA OperandsFollow ==
    ASSUME NEW tree, IsTree(tree)
    PROVE  /\ Len(tree) \in Nat \ {0} /\ DOMAIN tree = 1..Len(tree)
           /\ \A i \in 1..Len(tree) : ~IsLeaf(tree[i]) =>
                /\ tree[i].or # None => ToSet(tree[i].or) \subseteq (i + 1)..Len(tree)
                /\ tree[i].or = None => /\ tree[i].and # None
                                        /\ ToSet(tree[i].and) \subseteq (i + 1)..Len(tree)
  <1>1. Len(tree) \in Nat \ {0} /\ DOMAIN tree = 1..Len(tree)
    BY EmptySeq, LenProperties DEF IsTree
  <1>2. \A T, list : list \in Seq(T) => ToSet(list) \subseteq T
    BY ElementOfSeq, LenProperties DEF ToSet
  <1>3. ASSUME NEW i \in 1..Len(tree), ~IsLeaf(tree[i])
        PROVE  /\ tree[i].or # None \/ tree[i].and # None
               /\ tree[i].or # None => tree[i].or \in Seq((i + 1)..Len(tree))
               /\ tree[i].and # None => tree[i].and \in Seq((i + 1)..Len(tree))
    BY <1>1, <1>3 DEF IsTree, IsLeaf
  <1> QED
    BY <1>1, <1>2, <1>3

LEMMA SatisfiedLooksAhead ==
    ASSUME NEW d, NEW tree, IsTree(tree), NEW i \in 1..Len(tree), NEW f, NEW g,
           \A k \in (i + 1)..Len(tree) : f[k] = g[k]
    PROVE  SatisfiedAt(d, tree, i, f) = SatisfiedAt(d, tree, i, g)
  <1>1. CASE IsLeaf(tree[i])
    BY <1>1 DEF SatisfiedAt
  <1>2. CASE ~IsLeaf(tree[i]) /\ tree[i].or # None
    <2>1. \A k \in ToSet(tree[i].or) : f[k] = g[k]
      BY <1>2, OperandsFollow
    <2> QED
      BY <1>2, <2>1, Zenon DEF SatisfiedAt
  <1>3. CASE ~IsLeaf(tree[i]) /\ tree[i].or = None
    <2>1. \A k \in ToSet(tree[i].and) : f[k] = g[k]
      BY <1>3, OperandsFollow
    <2> QED
      BY <1>3, <2>1, Zenon DEF SatisfiedAt
  <1> QED
    BY <1>1, <1>2, <1>3

LEMMA DenotedLooksAhead ==
    ASSUME NEW S, NEW tree, IsTree(tree), NEW i \in 1..Len(tree), NEW f, NEW g,
           \A k \in (i + 1)..Len(tree) : f[k] = g[k]
    PROVE  DenotedAt(tree, S, i, f) = DenotedAt(tree, S, i, g)
  <1>1. CASE IsLeaf(tree[i])
    BY <1>1 DEF DenotedAt
  <1>2. CASE ~IsLeaf(tree[i]) /\ tree[i].or # None
    <2>1. \A k \in ToSet(tree[i].or) : f[k] = g[k]
      BY <1>2, OperandsFollow
    <2> QED
      BY <1>2, <2>1 DEF DenotedAt
  <1>3. CASE ~IsLeaf(tree[i]) /\ tree[i].or = None
    <2>1. \A k \in ToSet(tree[i].and) : f[k] = g[k]
      BY <1>3, OperandsFollow
    <2> QED
      BY <1>3, <2>1 DEF DenotedAt
  <1> QED
    BY <1>1, <1>2, <1>3

\* A function that fits the last m nodes can be changed to fit one more; so
\* there is one that fits them all.
LEMMA SatisfiedIsDefined ==
    ASSUME NEW d, NEW tree, IsTree(tree)
    PROVE  \A i \in 1..Len(tree) :
                Satisfied(d, tree)[i] = SatisfiedAt(d, tree, i, Satisfied(d, tree))
  <1> DEFINE N == Len(tree)
             Fits(m, f) == /\ DOMAIN f = 1..N /\ f = [i \in 1..N |-> f[i]]
                           /\ \A i \in (N + 1 - m)..N : f[i] = SatisfiedAt(d, tree, i, f)
             Fails == {m \in 0..N : ~ \E f : Fits(m, f)}
  <1>1. N \in Nat \ {0} /\ DOMAIN tree = 1..N
    BY OperandsFollow
  <1> HIDE DEF N
  <1>2. \E f : Fits(0, f)
    <2> DEFINE f == [i \in 1..N |-> TRUE]
    <2>1. (N + 1 - 0)..N = {}
      BY <1>1
    <2>2. DOMAIN f = 1..N /\ f = [i \in 1..N |-> f[i]]
      OBVIOUS
    <2> HIDE DEF f
    <2> QED
      BY <2>1, <2>2
  <1>3. ASSUME NEW m \in 0..(N - 1), NEW f, Fits(m, f)
        PROVE  \E g : Fits(m + 1, g)
    <2> DEFINE n == N - m
               g == [f EXCEPT ![n] = SatisfiedAt(d, tree, n, f)]
    <2>1. n \in 1..N
      BY <1>1
    <2>2. /\ DOMAIN g = 1..N /\ g = [i \in 1..N |-> g[i]]
          /\ g[n] = SatisfiedAt(d, tree, n, f)
          /\ \A i \in 1..N : i # n => g[i] = f[i]
      BY <1>3, <2>1
    <2> HIDE DEF g
    <2>3. ASSUME NEW i \in n..N PROVE g[i] = SatisfiedAt(d, tree, i, g)
      <3>1. i \in 1..N /\ \A k \in (i + 1)..N : k \in 1..N /\ k # n
        BY <1>1, <2>1
      <3>2. SatisfiedAt(d, tree, i, f) = SatisfiedAt(d, tree, i, g)
        BY <2>2, <3>1, SatisfiedLooksAhead DEF N
      <3>3. i # n => i \in (N + 1 - m)..N /\ g[i] = f[i]
        BY <1>1, <2>2, <3>1
      <3> QED
        BY <1>3, <2>2, <3>2, <3>3
    <2>4. N + 1 - (m + 1) = n
      BY <1>1
    <2> QED
      BY <2>2, <2>3, <2>4
  <1> HIDE DEF Fits
  <1>4. Fails = {}
    <2> SUFFICES ASSUME Fails # {} PROVE FALSE
      OBVIOUS
    <2>1. Fails \subseteq Nat
      OBVIOUS
    <2>2. PICK m \in Fails : \A l \in Fails : m <= l
      <3> HIDE DEF Fails
      <3> QED
        BY <2>1, LeastOne
    <2>3. m \in 0..N /\ m # 0
      BY <1>2
    <2>4. m - 1 \in 0..(N - 1) /\ m - 1 \in 0..N /\ m - 1 \notin Fails /\ m - 1 + 1 = m
      BY <1>1, <2>2, <2>3
    <2>5. PICK f : Fits(m - 1, f)
      BY <2>4
    <2>6. \E g : Fits(m - 1 + 1, g)
      BY <1>3, <2>4, <2>5
    <2> QED
      BY <2>2, <2>4, <2>6
  <1>5. PICK f : Fits(N, f)
    BY <1>1, <1>4
  <1> DEFINE Body(g) == [i \in DOMAIN tree |-> SatisfiedAt(d, tree, i, g)]
             satisfied == CHOOSE g : g = Body(g)
  <1>6. f = Body(f)
    <2>1. N + 1 - N = 1
      BY <1>1
    <2>2. f = [i \in 1..N |-> f[i]] /\ \A i \in 1..N : f[i] = SatisfiedAt(d, tree, i, f)
      BY <1>5, <2>1 DEF Fits
    <2> QED
      BY <1>1, <2>2, Zenon
  <1>7. satisfied = Body(satisfied)
    BY <1>6, Zenon
  <1>8. Satisfied(d, tree) = satisfied
    BY Zenon DEF Satisfied, SatisfiedAt
  <1> HIDE DEF satisfied
  <1> QED
    BY <1>1, <1>7, <1>8, Zenon DEF N

LEMMA DenotedIsDefined ==
    ASSUME NEW S, NEW tree, IsTree(tree)
    PROVE  \A i \in 1..Len(tree) :
                Denotation(tree, S)[i] = DenotedAt(tree, S, i, Denotation(tree, S))
  <1> DEFINE N == Len(tree)
             Fits(m, f) == /\ DOMAIN f = 1..N /\ f = [i \in 1..N |-> f[i]]
                           /\ \A i \in (N + 1 - m)..N : f[i] = DenotedAt(tree, S, i, f)
             Fails == {m \in 0..N : ~ \E f : Fits(m, f)}
  <1>1. N \in Nat \ {0} /\ DOMAIN tree = 1..N
    BY OperandsFollow
  <1> HIDE DEF N
  <1>2. \E f : Fits(0, f)
    <2> DEFINE f == [i \in 1..N |-> {}]
    <2>1. (N + 1 - 0)..N = {}
      BY <1>1
    <2>2. DOMAIN f = 1..N /\ f = [i \in 1..N |-> f[i]]
      OBVIOUS
    <2> HIDE DEF f
    <2> QED
      BY <2>1, <2>2
  <1>3. ASSUME NEW m \in 0..(N - 1), NEW f, Fits(m, f)
        PROVE  \E g : Fits(m + 1, g)
    <2> DEFINE n == N - m
               g == [f EXCEPT ![n] = DenotedAt(tree, S, n, f)]
    <2>1. n \in 1..N
      BY <1>1
    <2>2. /\ DOMAIN g = 1..N /\ g = [i \in 1..N |-> g[i]]
          /\ g[n] = DenotedAt(tree, S, n, f)
          /\ \A i \in 1..N : i # n => g[i] = f[i]
      BY <1>3, <2>1
    <2> HIDE DEF g
    <2>3. ASSUME NEW i \in n..N PROVE g[i] = DenotedAt(tree, S, i, g)
      <3>1. i \in 1..N /\ \A k \in (i + 1)..N : k \in 1..N /\ k # n
        BY <1>1, <2>1
      <3>2. DenotedAt(tree, S, i, f) = DenotedAt(tree, S, i, g)
        BY <2>2, <3>1, DenotedLooksAhead DEF N
      <3>3. i # n => i \in (N + 1 - m)..N /\ g[i] = f[i]
        BY <1>1, <2>2, <3>1
      <3> QED
        BY <1>3, <2>2, <3>2, <3>3
    <2>4. N + 1 - (m + 1) = n
      BY <1>1
    <2> QED
      BY <2>2, <2>3, <2>4
  <1> HIDE DEF Fits
  <1>4. Fails = {}
    <2> SUFFICES ASSUME Fails # {} PROVE FALSE
      OBVIOUS
    <2>1. Fails \subseteq Nat
      OBVIOUS
    <2>2. PICK m \in Fails : \A l \in Fails : m <= l
      <3> HIDE DEF Fails
      <3> QED
        BY <2>1, LeastOne
    <2>3. m \in 0..N /\ m # 0
      BY <1>2
    <2>4. m - 1 \in 0..(N - 1) /\ m - 1 \in 0..N /\ m - 1 \notin Fails /\ m - 1 + 1 = m
      BY <1>1, <2>2, <2>3
    <2>5. PICK f : Fits(m - 1, f)
      BY <2>4
    <2>6. \E g : Fits(m - 1 + 1, g)
      BY <1>3, <2>4, <2>5
    <2> QED
      BY <2>2, <2>4, <2>6
  <1>5. PICK f : Fits(N, f)
    BY <1>1, <1>4
  <1> DEFINE Body(g) == [i \in DOMAIN tree |-> DenotedAt(tree, S, i, g)]
             denoted == CHOOSE g : g = Body(g)
  <1>6. f = Body(f)
    <2>1. N + 1 - N = 1
      BY <1>1
    <2>2. f = [i \in 1..N |-> f[i]] /\ \A i \in 1..N : f[i] = DenotedAt(tree, S, i, f)
      BY <1>5, <2>1 DEF Fits
    <2> QED
      BY <1>1, <2>2, Zenon
  <1>7. denoted = Body(denoted)
    BY <1>6, Zenon
  <1>8. Denotation(tree, S) = denoted
    BY Zenon DEF Denotation, DenotedAt
  <1> HIDE DEF denoted
  <1> QED
    BY <1>1, <1>7, <1>8, Zenon DEF N

\* A tree denotes documents of S.
LEMMA DenotesWithin ==
    ASSUME NEW tree, IsTree(tree), NEW S
    PROVE  Denoted(tree, S) \subseteq S
  <1> DEFINE N == Len(tree)
             t == Denotation(tree, S)
             I == {i \in 1..N : t[i] \subseteq S}
  <1>1. N \in Nat \ {0}
    BY OperandsFollow
  <1>2. \A i \in 1..N : t[i] = DenotedAt(tree, S, i, t)
    BY DenotedIsDefined
  <1> HIDE DEF t
  <1>3. ASSUME NEW i \in 1..N, (i + 1)..N \subseteq I PROVE i \in I
    <2>1. CASE IsLeaf(tree[i])
      BY <1>2, <2>1 DEF DenotedAt
    <2>2. CASE ~IsLeaf(tree[i]) /\ tree[i].or # None
      <3>1. ToSet(tree[i].or) \subseteq (i + 1)..N
        BY <2>2, OperandsFollow
      <3>2. \A k \in ToSet(tree[i].or) : t[k] \subseteq S
        BY <1>3, <3>1
      <3>3. t[i] = UNION {t[k] : k \in ToSet(tree[i].or)}
        BY <1>2, <2>2 DEF DenotedAt
      <3>4. UNION {t[k] : k \in ToSet(tree[i].or)} \subseteq S
        BY <3>2
      <3> QED
        BY <3>3, <3>4
    <2>3. CASE ~IsLeaf(tree[i]) /\ tree[i].or = None
      BY <1>2, <2>3 DEF DenotedAt
    <2> QED
      BY <2>1, <2>2, <2>3
  <1> HIDE DEF N, I
  <1>4. 1..N \subseteq I
    BY <1>1, <1>3, FromTheLast
  <1> QED
    BY <1>1, <1>4 DEF I, t, Denoted

\* Where every list has two operands, a document satisfies what it is denoted by.
LEMMA SatisfiesWhatIsDenoted ==
    ASSUME NEW tree, IsTree(tree), Proper(tree), NEW S, NEW d \in S
    PROVE  Satisfies(d, tree) <=> d \in Denoted(tree, S)
  <1> DEFINE N == Len(tree)
             s == Satisfied(d, tree)
             t == Denotation(tree, S)
             Agree(i) == s[i] <=> d \in t[i]
  <1>1. N \in Nat \ {0} /\ DOMAIN tree = 1..N
    BY OperandsFollow
  <1>2. /\ \A i \in 1..N : s[i] = SatisfiedAt(d, tree, i, s)
        /\ \A i \in 1..N : t[i] = DenotedAt(tree, S, i, t)
    BY SatisfiedIsDefined, DenotedIsDefined
  <1> HIDE DEF s, t
  <1>3. ASSUME NEW i \in 1..N, \A k \in (i + 1)..N : Agree(k)
        PROVE  Agree(i)
    <2>1. CASE IsLeaf(tree[i])
      <3>1. SatisfiedAt(d, tree, i, s) <=> tree[i].code \in d.codes
        BY <2>1, Zenon DEF SatisfiedAt
      <3>2. d \in DenotedAt(tree, S, i, t) <=> tree[i].code \in d.codes
        BY <2>1, Zenon DEF DenotedAt
      <3> QED
        BY <1>2, <3>1, <3>2, Zenon
    <2>2. CASE ~IsLeaf(tree[i]) /\ tree[i].or # None
      <3>1. ToSet(tree[i].or) \subseteq (i + 1)..N
        BY <2>2, OperandsFollow
      <3>2. tree[i].or # <<>>
        <4>1. tree[i].or \in Lists(tree[i])
          BY <2>2 DEF Lists
        <4>2. Len(tree[i].or) >= 2
          BY <1>1, <2>2, <4>1 DEF Proper
        <4>3. Len(<<>>) = 0
          OBVIOUS
        <4> QED
          BY <4>2, <4>3
      <3>3. SatisfiedAt(d, tree, i, s) <=> \E k \in ToSet(tree[i].or) : s[k]
        BY <2>2, <3>2, Zenon DEF SatisfiedAt
      <3>4. d \in DenotedAt(tree, S, i, t) <=> \E k \in ToSet(tree[i].or) : d \in t[k]
        BY <2>2 DEF DenotedAt
      <3>5. \A k \in ToSet(tree[i].or) : s[k] <=> d \in t[k]
        BY <1>3, <3>1, Zenon
      <3> QED
        BY <1>2, <3>3, <3>4, <3>5, Zenon
    <2>3. CASE ~IsLeaf(tree[i]) /\ tree[i].or = None
      <3>1. ToSet(tree[i].and) \subseteq (i + 1)..N
        BY <2>3, OperandsFollow
      <3>3. SatisfiedAt(d, tree, i, s) <=> \A k \in ToSet(tree[i].and) : s[k]
        BY <2>3, Zenon DEF SatisfiedAt
      <3>4. d \in DenotedAt(tree, S, i, t) <=> \A k \in ToSet(tree[i].and) : d \in t[k]
        BY <2>3 DEF DenotedAt
      <3>5. \A k \in ToSet(tree[i].and) : s[k] <=> d \in t[k]
        BY <1>3, <3>1, Zenon
      <3> QED
        BY <1>2, <3>3, <3>4, <3>5, Zenon
    <2> QED
      BY <2>1, <2>2, <2>3
  <1>4. 1..N \subseteq {i \in 1..N : Agree(i)}
    <2> DEFINE I == {i \in 1..N : Agree(i)}
    <2> HIDE DEF Agree, N
    <2>1. ASSUME NEW i \in 1..N, (i + 1)..N \subseteq I PROVE i \in I
      BY <1>3, <2>1
    <2> HIDE DEF I
    <2> QED
      BY <1>1, <2>1, FromTheLast DEF I
  <1>5. Agree(1)
    <2> HIDE DEF Agree
    <2> QED
      BY <1>1, <1>4
  <1> QED
    BY <1>5, Zenon DEF Agree, s, t, Satisfies, Denoted

-----------------------------------------------------------------------------
(* What is found is what is wanted. *)

LEMMA AgeIsWanted ==
    ASSUME NEW q \in Queries, NEW d \in Docs
    PROVE  AgeFits(q, d) <=> (q.age # None => q.age \in Ages(d))
BY SearchAssumption DEF AgeFits, Ages

LEMMA PlaceIsReached ==
    ASSUME NEW q \in Queries, NEW d \in Docs
    PROVE  GeoFits(q, d) <=> Reached(q, d)
  <1>1. /\ q.distance \in Nat
        /\ d.point # None => d.point \in Int
        /\ q.coords # None => q.coords \in Int
    BY SearchAssumption
  <1>2. CASE q.geoType = "boundary"
    <2>1. q.geometry \cap d.area # {} <=> \E p \in q.geometry : p \in d.area
      OBVIOUS
    <2> QED
      BY <1>2, <2>1 DEF GeoFits, Reached
  <1>3. CASE q.geoType # "boundary" /\ q.coords # None
    <2>1. d.point # None => Distance(d.point, q.coords) \in Nat
      BY <1>1, <1>3 DEF Distance
    <2>2. WithinRadius(q, d) <=>
            \/ q.distance = 0 \/ d.point = None
            \/ Distance(d.point, q.coords) \in 0..q.distance
      BY <1>1, <2>1 DEF WithinRadius
    <2> QED
      BY <1>3, <2>2 DEF GeoFits, Reached
  <1>4. CASE q.geoType # "boundary" /\ q.coords = None
    BY <1>4 DEF GeoFits, Reached
  <1> QED
    BY <1>2, <1>3, <1>4

\* What a search finds: all it asks for, or all it does not overlook.
Findable(q, b, S) == Wanted(q, S) \ IF b.attributes THEN {} ELSE Overlooked(q, S)

\* The documents a search matches are those its query and filters ask for.
LEMMA MatchesWhatIsWanted ==
    ASSUME NEW q \in Queries, NEW b, NEW S, S \subseteq Docs,
           q.form = "complex" => Proper(q.tree)
    PROVE  Matching(q, b, S) = Findable(q, b, S)
  <1> DEFINE Rest(d) == /\ d.tenant = q.tenant
                        /\ q.age # None => q.age \in Ages(d)
                        /\ Reached(q, d)
                        /\ \A f \in q.filters : f[2] \in d.facets[f[1]] \/ f[2] \in d.facetsEn[f[1]]
             Coded(d) == \E p \in q.codes : \E c \in d.codes : p \in FoundBy[c]
             Known(d) == q.word \in d.words \cup d.title
             Queried(d) == IF q.type = "hybrid" THEN q.scope = {} \/ \E c \in q.scope : c \in d.codes
                         ELSE IF q.form = "complex" THEN Satisfies(d, q.tree)
                         ELSE IF q.type = "taxonomy" THEN Coded(d)
                         ELSE IF ~AsksForWord(q) THEN TRUE
                         ELSE q.word \in d.words \cup d.title \cup d.attributes
             Missed(d) == AsksForWord(q) /\ ~b.attributes /\ ~Known(d)
  <1>1. ASSUME NEW d \in S PROVE d.tenant = q.tenant /\ Filtered(q, d) <=> Rest(d)
    <2>1. AgeFits(q, d) <=> (q.age # None => q.age \in Ages(d))
      BY AgeIsWanted
    <2>2. GeoFits(q, d) <=> Reached(q, d)
      BY PlaceIsReached
    <2>3. \A f \in q.filters : HasFacet(d, f[1], f[2])
                <=> f[2] \in d.facets[f[1]] \/ f[2] \in d.facetsEn[f[1]]
      BY DEF HasFacet
    <2> QED
      BY <2>1, <2>2, <2>3, Zenon DEF Filtered
  <1> HIDE DEF Rest
  <1>2. ASSUME NEW d \in S PROVE d \in Matching(q, b, S) <=> Queried(d) /\ Rest(d) /\ ~Missed(d)
    <2>1. InScope(q.scope, d) <=> \E c \in q.scope : c \in d.codes
      BY DEF InScope
    <2>2. CASE q.type = "hybrid"
      <3>1. d \in Matching(q, b, S) <=> Hybrid(q, d)
        BY <2>2, Zenon DEF Matching
      <3>2. Queried(d) <=> q.scope = {} \/ InScope(q.scope, d)
        BY <2>1, <2>2, Zenon
      <3>3. ~Missed(d)
        BY <2>2 DEF AsksForWord
      <3> HIDE DEF Queried, Missed
      <3> QED
        BY <1>1, <3>1, <3>2, <3>3, Zenon DEF Hybrid
    <2>3. CASE q.type # "hybrid"
      <3> DEFINE asked == IF q.form = "complex" THEN Satisfies(d, q.tree)
                          ELSE IF q.type = "taxonomy" THEN \E c \in d.codes : q.codes \cap FoundBy[c] # {}
                          ELSE (q.type = "text" /\ q.word = None) \/ q.word \in Searched(b, d)
      <3>1. d \in Matching(q, b, S) <=> Classic(q, b, d)
        BY <2>3, Zenon DEF Matching
      <3>2. Classic(q, b, d) <=> d.tenant = q.tenant /\ asked /\ Filtered(q, d)
        BY Zenon DEF Classic
      <3>3. asked <=> Queried(d) /\ ~Missed(d)
        <4>1. CASE q.form = "complex"
          BY <2>3, <4>1 DEF AsksForWord
        <4>2. CASE q.form # "complex" /\ q.type = "taxonomy"
          BY <2>3, <4>2 DEF AsksForWord
        <4>3. CASE q.form # "complex" /\ q.type # "taxonomy"
          BY <2>3, <4>3 DEF AsksForWord, Searched
        <4> QED
          BY <4>1, <4>2, <4>3
      <3> HIDE DEF Queried, Missed, asked
      <3> QED
        BY <1>1, <3>1, <3>2, <3>3, Zenon
    <2> QED
      BY <2>2, <2>3
  <1>3. ASSUME NEW d \in S PROVE d \in Wanted(q, S) <=> Queried(d) /\ Rest(d)
    <2> DEFINE base == IF q.type = "hybrid" THEN {e \in S : q.scope = {} \/ \E c \in q.scope : c \in e.codes}
                       ELSE IF q.form = "complex" THEN Denoted(q.tree, S)
                       ELSE IF q.type = "taxonomy"
                       THEN {e \in S : \E p \in q.codes : \E c \in e.codes : p \in FoundBy[c]}
                       ELSE IF ~AsksForWord(q) THEN S
                       ELSE {e \in S : q.word \in e.words \cup e.title \cup e.attributes}
    <2>1. d \in Wanted(q, S) <=> d \in base /\ Rest(d)
      BY Zenon DEF Wanted, Rest
    <2>2. q.form = "complex" => (Satisfies(d, q.tree) <=> d \in Denoted(q.tree, S))
      BY SearchAssumption, SatisfiesWhatIsDenoted
    <2>3. d \in base <=> Queried(d)
      BY <2>2
    <2> HIDE DEF base, Queried
    <2> QED
      BY <2>1, <2>3, Zenon
  <1>4. Matching(q, b, S) \subseteq S
    BY DEF Matching
  <1>5. Wanted(q, S) \subseteq S
    <2>1. q.form = "complex" => Denoted(q.tree, S) \subseteq S
      BY SearchAssumption, DenotesWithin
    <2> QED
      BY <2>1 DEF Wanted
  <1>6. ASSUME NEW d \in S
        PROVE  d \in Findable(q, b, S) <=> d \in Wanted(q, S) /\ ~Missed(d)
    <2> HIDE DEF Queried
    <2> QED
      BY DEF Findable, Overlooked
  <1>7. Findable(q, b, S) \subseteq S
    BY <1>5 DEF Findable
  <1> HIDE DEF Queried, Missed
  <1> QED
    BY <1>2, <1>3, <1>4, <1>6, <1>7

-----------------------------------------------------------------------------
(* The inductive invariant. *)

Codes == UNION {q.meant : q \in Queries}
Bases == [facets : SUBSET FacetKeys, attributes : BOOLEAN, vector : BOOLEAN,
          pinned : BOOLEAN, predicted : Seq(Codes)]
Pages == [basis : Bases, index : SUBSET Docs, hits : Seq(Docs)]

\* The n-th page of a query is that slice of an order of what it matched then.
PageFits(p, q, n) ==
    \E order \in Orders(q, p.basis, Matching(q, p.basis, p.index)) :
        p.hits = Slice(order, (n - 1) * q.limit, q.limit)

PagesFit ==
    /\ seen \in Seq(Pages)
    /\ pc # "idle" => \A i \in DOMAIN seen : PageFits(seen[i], query, i)

LastMatching == Matching(query, Last(seen).basis, Last(seen).index)

\* An answer is that of the last page, with the total and the facets of it.
ReplyFits ==
    /\ seen # <<>> /\ page = Len(seen)
    /\ reply.total = Total(query, Cardinality(LastMatching))
    /\ reply.hits = Last(seen).hits
    /\ reply.facets = [key \in Last(seen).basis.facets |-> Facet(LastMatching, key)]

SearchFits ==
    /\ index \subseteq Docs
    /\ pc \in {"idle", "config", "predict", "search", "done"}
    /\ pc # "idle" => query \in Queries
    /\ pc \in {"predict", "search"} => basis \in Bases
    /\ pc \in {"config", "predict", "search"} => page = Len(seen) + 1
    /\ pc = "done" /\ reply.status = "200" => ReplyFits

\* The count of an option is that of the index it was counted in.
OptionFits(tenant, o) ==
    IF o.step = "counted" /\ o.codes # {}
    THEN o.count = Cardinality({d \in o.at : d.tenant = tenant /\ InScope(o.codes, d)})
    ELSE o.count = 0

OptionsFit ==
    ai # None =>
        /\ ai = [tenant |-> ai.tenant, status |-> ai.status, scenario |-> ai.scenario,
                 options |-> [n \in DOMAIN ai.options |-> ai.options[n]]]
        /\ \A n \in DOMAIN ai.options : OptionFits(ai.tenant, ai.options[n])

\* A count that Redis keeps is that of its tenant and its codes.
CountsFit ==
    \A c \in counts :
        c.count = IF c.ok THEN Cardinality({d \in c.at : d.tenant = c.key[1] /\ InScope(c.key[2], d)})
                  ELSE 0

SearchInv == PagesFit /\ SearchFits /\ OptionsFit /\ CountsFit

LEMMA InitFits == Init => SearchInv
  <1> SUFFICES ASSUME Init PROVE SearchInv
    OBVIOUS
  <1>1. seen \in Seq(Pages)
    BY EmptySeq DEF Init
  <1> QED
    BY <1>1 DEF Init, SearchInv, PagesFit, SearchFits, OptionsFit, CountsFit

\* A search goes on: the pages seen stay, and the classification does.
LEMMA SearchMoves ==
    ASSUME SearchInv, pc # "idle", pc' \in {"config", "predict", "search", "done"},
           UNCHANGED <<index, query, seen, ai, counts>>,
           pc' \in {"predict", "search"} => basis' \in Bases,
           pc' # "done" => page' = Len(seen) + 1,
           pc' = "done" => reply'.status # "200"
    PROVE  SearchInv'
  <1>1. PagesFit'
    BY DEF SearchInv, PagesFit
  <1>2. SearchFits'
    BY DEF SearchInv, SearchFits
  <1>3. OptionsFit' /\ CountsFit'
    BY DEF SearchInv, OptionsFit, OptionFits, CountsFit
  <1> QED
    BY <1>1, <1>2, <1>3 DEF SearchInv

LEMMA AskFits == ASSUME SearchInv, NEW q \in Queries, Ask(q) PROVE SearchInv'
  <1>1. seen' = <<>> /\ <<>> \in Seq(Pages)
    BY EmptySeq DEF Ask
  <1>2. PagesFit'
    BY <1>1 DEF PagesFit
  <1>3. SearchFits'
    BY <1>1 DEF SearchInv, SearchFits, Ask, Start
  <1>4. OptionsFit' /\ CountsFit'
    BY DEF SearchInv, OptionsFit, OptionFits, CountsFit, Ask, Start
  <1> QED
    BY <1>2, <1>3, <1>4 DEF SearchInv

LEMMA NextPageFits == ASSUME SearchInv, NextPage PROVE SearchInv'
  <1>1. page = Len(seen) /\ Len(seen) \in Nat
    BY LenProperties DEF SearchInv, SearchFits, ReplyFits, PagesFit, NextPage
  <1> QED
    BY <1>1, SearchMoves DEF NextPage, Start

LEMMA ConfigureFits == ASSUME SearchInv, Configure PROVE SearchInv'
  <1>1. PICK facets \in {FacetKeys, {}}, attributes \in BOOLEAN, vector \in BOOLEAN,
             pinned \in BOOLEAN :
            /\ basis' = [facets |-> facets, attributes |-> attributes, vector |-> vector,
                         pinned |-> pinned, predicted |-> <<>>]
            /\ pc' = IF vector THEN "predict" ELSE "search"
    BY DEF Configure
  <1>2. <<>> \in Seq(Codes)
    BY EmptySeq
  <1>3. basis' \in Bases
    BY <1>1, <1>2 DEF Bases
  <1>4. page = Len(seen) + 1 /\ pc = "config"
    BY DEF SearchInv, SearchFits, Configure
  <1>5. UNCHANGED <<index, query, page, seen, ai, counts>>
    BY DEF Configure
  <1>6. pc' \in {"predict", "search"}
    BY <1>1
  <1> QED
    BY <1>3, <1>4, <1>5, <1>6, SearchMoves

LEMMA PredictCodesFits == ASSUME SearchInv, PredictCodes PROVE SearchInv'
  <1>1. PICK codes \in {<<>>} \cup SetToSeqs(query.meant) :
            basis' = [basis EXCEPT !.predicted = codes]
    BY DEF PredictCodes
  <1>2. codes \in Seq(Codes)
    <2>1. query \in Queries /\ IsFiniteSet(query.meant)
      BY SearchAssumption DEF SearchInv, SearchFits, PredictCodes
    <2>2. query.meant \subseteq Codes
      BY <2>1 DEF Codes
    <2>3. codes \in Seq(query.meant)
      <3>1. <<>> \in Seq(query.meant)
        BY EmptySeq
      <3>2. codes \in SetToSeqs(query.meant) => codes \in Seq(query.meant)
        BY <2>1, Arranges
      <3> QED
        BY <1>1, <3>1, <3>2
    <2> QED
      BY <2>2, <2>3
  <1>3. basis' \in Bases
    BY <1>1, <1>2 DEF SearchInv, SearchFits, PredictCodes, Bases
  <1>4. page = Len(seen) + 1 /\ pc = "predict" /\ pc' = "search"
    BY DEF SearchInv, SearchFits, PredictCodes
  <1>5. UNCHANGED <<index, query, page, seen, ai, counts>>
    BY DEF PredictCodes
  <1> QED
    BY <1>3, <1>4, <1>5, SearchMoves

LEMMA RefuseFits == ASSUME SearchInv, Refuse PROVE SearchInv'
  <1>1. Refusal(query) \in {None, "400", "501"}
    BY DEF Refusal
  <1>2. reply'.status # "200"
    BY <1>1 DEF Refuse, Answer, Refused
  <1> QED
    BY <1>2, SearchMoves DEF Refuse, Answer

\* The page that Execute adds.
LEMMA ExecuteFits == ASSUME SearchInv, Execute PROVE SearchInv'
  <1>1. CASE Answer(Refused("500")) /\ UNCHANGED seen
    <2>1. reply'.status # "200" /\ pc' = "done"
      BY <1>1 DEF Answer, Refused
    <2> QED
      BY <1>1, <2>1, SearchMoves DEF Execute
  <1>2. ASSUME NEW order \in Orders(query, basis, Matching(query, basis, index)),
               Answer(Found(Matching(query, basis, index), order)),
               seen' = Append(seen, [basis |-> basis, index |-> index, hits |-> reply'.hits])
        PROVE  SearchInv'
    <2> DEFINE hits == Matching(query, basis, index)
               new == [basis |-> basis, index |-> index, hits |-> reply'.hits]
    <2>1. /\ query \in Queries /\ basis \in Bases /\ index \subseteq Docs
          /\ page = Len(seen) + 1 /\ seen \in Seq(Pages) /\ Len(seen) \in Nat
          /\ pc' = "done" /\ UNCHANGED <<index, query, page, basis, ai, counts>>
          /\ \A i \in DOMAIN seen : PageFits(seen[i], query, i)
      BY <1>2, LenProperties DEF SearchInv, SearchFits, PagesFit, Execute, Answer
    <2>2. /\ reply'.total = Total(query, Cardinality(hits))
          /\ reply'.hits = Slice(order, (page - 1) * query.limit, query.limit)
          /\ reply'.facets = [key \in basis.facets |-> Facet(hits, key)]
      BY <1>2 DEF Answer, Found
    <2>3. new \in Pages
      <3>1. IsFiniteSet(hits) /\ hits \subseteq Docs
        BY <2>1, SearchAssumption, FS_Subset DEF Matching
      <3>2. order \in SetToSeqs(hits)
        BY <1>2 DEF Orders
      <3>3. order \in Seq(hits)
        BY <3>1, <3>2, Arranges
      <3> HIDE DEF hits
      <3>4. order \in Seq(Docs)
        BY <3>1, <3>3
      <3>5. (page - 1) * query.limit \in Nat /\ query.limit \in Nat
        BY <2>1, SearchAssumption
      <3>6. Takes(Docs, Slice(order, (page - 1) * query.limit, query.limit), order,
                  (page - 1) * query.limit,
                  SliceEnd(order, (page - 1) * query.limit, query.limit))
        BY <3>4, <3>5, SliceTakes
      <3>7. reply'.hits \in Seq(Docs)
        BY <2>2, <3>6 DEF Takes
      <3> QED
        BY <2>1, <3>7 DEF Pages
    <2>4. PageFits(new, query, page)
      BY <2>2 DEF PageFits
    <2> HIDE DEF new, hits
    <2>5. /\ seen' \in Seq(Pages) /\ Len(seen') = page /\ DOMAIN seen' = 1..page
          /\ \A i \in 1..(page - 1) : i \in DOMAIN seen /\ seen'[i] = seen[i]
          /\ seen'[page] = new
      BY <1>2, <2>1, <2>3, AppendProperties, LenProperties DEF new
    <2>6. \A i \in DOMAIN seen' : PageFits(seen'[i], query, i)
      <3> SUFFICES ASSUME NEW i \in 1..page PROVE PageFits(seen'[i], query, i)
        BY <2>5
      <3>1. CASE i = page
        BY <2>4, <2>5, <3>1
      <3>2. CASE i # page
        <4>1. i \in DOMAIN seen /\ seen'[i] = seen[i]
          BY <2>1, <2>5, <3>2
        <4> QED
          BY <2>1, <4>1
      <3> QED
        BY <3>1, <3>2
    <2>7. PagesFit'
      BY <2>1, <2>5, <2>6 DEF PagesFit
    <2>8. Last(seen') = new /\ seen' # <<>>
      BY <2>1, <2>5, EmptySeq DEF Last
    <2>9. ReplyFits'
      <3>1. new.basis = basis /\ new.index = index /\ new.hits = reply'.hits
        BY DEF new
      <3>2. page' = Len(seen') /\ query' = query
        BY <2>1, <2>5
      <3> QED
        BY <2>2, <2>8, <3>1, <3>2 DEF ReplyFits, LastMatching, hits, Total
    <2>10. SearchFits'
      BY <2>1, <2>9 DEF SearchFits
    <2>11. OptionsFit' /\ CountsFit'
      BY <2>1 DEF SearchInv, OptionsFit, OptionFits, CountsFit
    <2> QED
      BY <2>7, <2>10, <2>11 DEF SearchInv
  <1> QED
    BY <1>1, <1>2 DEF Execute

\* What only changes the index, or the classification.
LEMMA SearchStays ==
    ASSUME SearchInv, UNCHANGED search, index' \subseteq Docs, OptionsFit', CountsFit'
    PROVE  SearchInv'
  <1>1. PagesFit'
    BY DEF SearchInv, PagesFit, search
  <1>2. SearchFits'
    BY DEF SearchInv, SearchFits, ReplyFits, LastMatching, Matching, Total, search
  <1> QED
    BY <1>1, <1>2 DEF SearchInv

LEMMA ReindexFits == ASSUME SearchInv, NEW d \in Docs, Reindex(d) PROVE SearchInv'
  <1>1. index' \subseteq Docs
    BY DEF SearchInv, SearchFits, Reindex
  <1>2. OptionsFit' /\ CountsFit'
    BY DEF SearchInv, OptionsFit, OptionFits, CountsFit, Reindex
  <1> QED
    BY <1>1, <1>2, SearchStays DEF Reindex

LEMMA ClassifyFits ==
    ASSUME SearchInv, NEW tenant, NEW b \in Broker, Classify(tenant, b)
    PROVE  SearchInv'
  <1>1. \A step : OptionFits(tenant, Option(step))
    BY DEF OptionFits, Option
  <1>2. OptionsFit'
    <2>1. CASE ai' = [tenant |-> tenant, status |-> "200", scenario |-> Scenario(b),
                      options |-> [n \in b.needs |->
                                    Option(IF Clarifies(b) THEN "rerank" ELSE "done")]]
      BY <1>1, <2>1 DEF OptionsFit
    <2>2. CASE \E status \in BrokerErrors :
                 ai' = [tenant |-> tenant, status |-> status, scenario |-> None,
                        options |-> [n \in {} |-> None]]
      BY <2>2 DEF OptionsFit
    <2> QED
      BY <2>1, <2>2 DEF Classify
  <1> QED
    BY <1>2, SearchStays DEF Classify, SearchInv, SearchFits, CountsFit

LEMMA SetOptionFits ==
    ASSUME SearchInv, ai # None, NEW n \in DOMAIN ai.options, NEW option,
           SetOption(n, option), OptionFits(ai.tenant, option), CountsFit'
    PROVE  SearchInv'
  <1>1. /\ ai = [tenant |-> ai.tenant, status |-> ai.status, scenario |-> ai.scenario,
                 options |-> [m \in DOMAIN ai.options |-> ai.options[m]]]
        /\ \A m \in DOMAIN ai.options : OptionFits(ai.tenant, ai.options[m])
    BY DEF SearchInv, OptionsFit
  <1> DEFINE new == [ai.options EXCEPT ![n] = option]
  <1>2. ai' = [ai EXCEPT !.options = new]
    BY DEF SetOption
  <1>3. /\ new = [m \in DOMAIN new |-> new[m]] /\ DOMAIN new = DOMAIN ai.options
        /\ \A m \in DOMAIN new : OptionFits(ai.tenant, new[m])
    BY <1>1
  <1> HIDE DEF new
  <1>4. ai' = [tenant |-> ai.tenant, status |-> ai.status, scenario |-> ai.scenario,
               options |-> new]
    BY <1>1, <1>2
  <1>5. OptionsFit'
    BY <1>3, <1>4 DEF OptionsFit
  <1> QED
    BY <1>5, SearchStays DEF SetOption, SearchInv, SearchFits

LEMMA ReRankFits == ASSUME SearchInv, NEW n, ReRank(n) PROVE SearchInv'
  <1>1. ai # None /\ n \in DOMAIN ai.options
    BY DEF ReRank, Asked
  <1>2. \A codes : OptionFits(ai.tenant, [Option("count") EXCEPT !.codes = codes])
    BY DEF OptionFits, Option
  <1>3. OptionFits(ai.tenant, Option("failed"))
    BY DEF OptionFits, Option
  <1>4. CountsFit'
    BY DEF ReRank, SearchInv, CountsFit
  <1> QED
    BY <1>1, <1>2, <1>3, <1>4, SetOptionFits DEF ReRank

LEMMA CountFits == ASSUME SearchInv, NEW n, Count(n) PROVE SearchInv'
  <1>1. ai # None /\ n \in DOMAIN ai.options
    BY DEF Count, Asked
  <1> DEFINE codes == ai.options[n].codes
             key == CountKey(ai.tenant, codes)
             Fits(c) == c.count = IF c.ok
                            THEN Cardinality({d \in c.at : d.tenant = c.key[1] /\ InScope(c.key[2], d)})
                            ELSE 0
  <1>2. \A c \in counts : Fits(c)
    BY DEF SearchInv, CountsFit
  <1>3. \A c \in Counting(ai.tenant, codes) : c.key = key /\ Fits(c)
    BY DEF Counting, Counted, CountKey
  <1>4. ASSUME codes # {}, NEW c, c.key = key, Fits(c), Show(n, codes, c), CountsFit'
        PROVE  SearchInv'
    <2> DEFINE option == [step |-> IF c.ok THEN "counted" ELSE "failed",
                          codes |-> codes, count |-> c.count, at |-> c.at]
    <2>1. c.key[1] = ai.tenant /\ c.key[2] = codes
      BY <1>4 DEF CountKey
    <2>2. ASSUME c.ok PROVE OptionFits(ai.tenant, option)
      <3>1. c.count = Cardinality({d \in c.at : d.tenant = ai.tenant /\ InScope(codes, d)})
        BY <1>4, <2>1, <2>2
      <3>2. option.codes = codes /\ option.at = c.at /\ option.count = c.count
        OBVIOUS
      <3>3. option.step = "counted"
        BY <2>2
      <3> HIDE DEF option, codes
      <3>4. codes # {}
        BY <1>4
      <3> QED
        BY <3>1, <3>2, <3>3, <3>4 DEF OptionFits
    <2>3. ASSUME ~c.ok PROVE OptionFits(ai.tenant, option)
      <3>1. option.step = "failed" /\ option.count = 0
        BY <1>4, <2>3
      <3> HIDE DEF option
      <3> QED
        BY <3>1 DEF OptionFits
    <2>4. OptionFits(ai.tenant, option)
      BY <2>2, <2>3
    <2> QED
      BY <1>1, <1>4, <2>4, SetOptionFits DEF Show
  <1>5. counts' = counts => CountsFit'
    BY <1>2 DEF CountsFit
  <1>6. CASE SetOption(n, Option("counted")) /\ UNCHANGED counts
    <2>1. OptionFits(ai.tenant, Option("counted"))
      BY DEF OptionFits, Option
    <2> QED
      BY <1>1, <1>5, <1>6, <2>1, SetOptionFits
  <1>7. CASE codes # {} /\ (\E c \in counts : c.key = key /\ Show(n, codes, c)) /\ UNCHANGED counts
    <2> HIDE DEF Fits, codes, key
    <2> QED
      BY <1>2, <1>4, <1>5, <1>7
  <1>8. ASSUME codes # {}, NEW c \in Counting(ai.tenant, codes), Show(n, codes, c),
               counts' \in {counts, {k \in counts : k.key # key} \cup {c}}
        PROVE  SearchInv'
    <2>1. \A k \in counts' : Fits(k)
      <3> HIDE DEF Fits, codes, key
      <3> QED
        BY <1>2, <1>3, <1>8
    <2>2. CountsFit'
      BY <2>1 DEF CountsFit
    <2> HIDE DEF Fits, codes, key
    <2> QED
      BY <1>3, <1>4, <1>8, <2>2
  <1> QED
    BY <1>6, <1>7, <1>8, Zenon DEF Count

LEMMA ExpireFits == ASSUME SearchInv, Expire PROVE SearchInv'
  <1>1. CountsFit'
    BY DEF Expire, SearchInv, CountsFit
  <1>2. OptionsFit'
    BY DEF Expire, SearchInv, OptionsFit, OptionFits
  <1> QED
    BY <1>1, <1>2, SearchStays DEF Expire, SearchInv, SearchFits

LEMMA LeaveFits == ASSUME SearchInv, Leave PROVE SearchInv'
BY SearchStays DEF Leave, OptionsFit, SearchInv, SearchFits, CountsFit

LEMMA NextFits == SearchInv /\ [Next]_vars => SearchInv'
  <1> SUFFICES ASSUME SearchInv, [Next]_vars PROVE SearchInv'
    OBVIOUS
  <1>1. CASE UNCHANGED vars
    <2>1. OptionsFit' /\ CountsFit'
      BY <1>1 DEF SearchInv, OptionsFit, OptionFits, CountsFit, vars
    <2> QED
      BY <1>1, <2>1, SearchStays DEF SearchInv, SearchFits, vars
  <1>2. CASE Next
    BY <1>2, AskFits, NextPageFits, ConfigureFits, PredictCodesFits, ExecuteFits, RefuseFits,
       ReindexFits, ClassifyFits, ReRankFits, CountFits, ExpireFits, LeaveFits DEF Next
  <1> QED
    BY <1>1, <1>2

\* Where every page, every answer and every count came from.
THEOREM SearchInvHolds == Spec => []SearchInv
  <1>1. Init => SearchInv
    BY InitFits
  <1>2. SearchInv /\ [Next]_vars => SearchInv'
    BY NextFits
  <1> QED
    BY <1>1, <1>2, PTL DEF Spec

-----------------------------------------------------------------------------
(* Facets. *)

\* An image of a finite set is finite, and as large if no two elements meet.
LEMMA ImageIsFinite ==
    ASSUME NEW S, IsFiniteSet(S), NEW f, DOMAIN f = S
    PROVE  /\ IsFiniteSet({f[x] : x \in S})
           /\ (\A x, y \in S : f[x] = f[y] => x = y) =>
                Cardinality({f[x] : x \in S}) = Cardinality(S)
  <1> DEFINE T == {f[x] : x \in S}
             g == [x \in S |-> f[x]]
  <1>1. g \in Surjection(S, T)
    BY DEF Surjection
  <1>2. (\A x, y \in S : f[x] = f[y] => x = y) => g \in Injection(S, T)
    BY DEF Injection, IsInjective
  <1> HIDE DEF g, T
  <1> QED
    BY <1>1, <1>2, FS_Surjection DEF T

\* The values of a facet are finitely many.
LEMMA CountsAreFinite ==
    ASSUME NEW hits, hits \subseteq Docs, NEW key \in FacetKeys, NEW lang
    PROVE  /\ IsFiniteSet(Counts(hits, key, lang))
           /\ \A x \in Counts(hits, key, lang) : x.count \in Nat /\ Rank[x.key] \in Int
  <1> DEFINE values == [d \in hits |-> Values(d, key, lang)]
             Of(v) == {d \in hits : v \in Values(d, key, lang)}
             V == UNION {values[d] : d \in hits}
             count == [v \in V |-> [key |-> v, count |-> Cardinality(Of(v))]]
  <1>1. IsFiniteSet(hits)
    BY SearchAssumption, FS_Subset
  <1>2. \A d \in hits : IsFiniteSet(values[d])
    BY SearchAssumption DEF Values
  <1>3. IsFiniteSet({values[d] : d \in hits})
    <2>1. DOMAIN values = hits
      OBVIOUS
    <2> HIDE DEF values
    <2> QED
      BY <1>1, <2>1, ImageIsFinite
  <1>4. IsFiniteSet(V)
    <2> HIDE DEF values
    <2> QED
      BY <1>2, <1>3, FS_UNION
  <1>5. \A v \in V : Cardinality(Of(v)) \in Nat
    <2> SUFFICES ASSUME NEW v \in V PROVE Cardinality(Of(v)) \in Nat
      OBVIOUS
    <2>1. Of(v) \in SUBSET hits
      OBVIOUS
    <2> HIDE DEF Of
    <2> QED
      BY <1>1, <2>1, FS_Subset, FS_CardinalityType
  <1>6. Counts(hits, key, lang) = {count[v] : v \in V}
    BY DEF Counts
  <1>7. \A v \in V : count[v].count = Cardinality(Of(v)) /\ Rank[count[v].key] \in Int
    BY SearchAssumption DEF Values
  <1>8. DOMAIN count = V
    OBVIOUS
  <1> HIDE DEF count, V, Of
  <1>9. IsFiniteSet({count[v] : v \in V})
    BY <1>4, <1>8, ImageIsFinite
  <1> QED
    BY <1>5, <1>6, <1>7, <1>9

\* The first buckets, and those before one.
FirstOf(all) == {x \in all : Place(all, x) <= FacetsLimit}
Earlier(all, x) == {y \in all : Before(y, x)}

\* Values that are not equally frequent have the first places, each its own.
LEMMA PlacesAreTaken ==
    ASSUME NEW all, IsFiniteSet(all), \A x \in all : x.count \in Nat /\ Rank[x.key] \in Int,
           Distinct(all)
    PROVE  /\ \A x, y \in all : Place(all, x) = Place(all, y) => x = y
           /\ Cardinality(FirstOf(all)) \in Nat /\ IsFiniteSet(FirstOf(all))
           /\ \A i \in 1..Cardinality(FirstOf(all)) :
                \E x \in FirstOf(all) : Place(all, x) = i
  <1> DEFINE N == Cardinality(all)
             place == [x \in all |-> Place(all, x)]
  <1>1. N \in Nat
    BY FS_CardinalityType
  <1>2. \A x, y \in all : Before(x, y) <=> x.count > y.count
    BY DEF Before, Distinct
  <1>3. ASSUME NEW x \in all
        PROVE  /\ IsFiniteSet(Earlier(all, x)) /\ Cardinality(Earlier(all, x)) \in Nat
               /\ Earlier(all, x) \subseteq all \ {x}
               /\ Place(all, x) = Cardinality(Earlier(all, x)) + 1
               /\ Place(all, x) \in 1..N
    <2>1. Earlier(all, x) \in SUBSET (all \ {x})
      BY <1>2 DEF Earlier
    <2>2. IsFiniteSet(all \ {x}) /\ Cardinality(all \ {x}) = N - 1
      BY FS_RemoveElement
    <2>3. /\ IsFiniteSet(Earlier(all, x)) /\ Cardinality(Earlier(all, x)) \in Nat
          /\ Cardinality(Earlier(all, x)) <= N - 1
      BY <2>1, <2>2, FS_Subset, FS_CardinalityType
    <2>4. Place(all, x) = Cardinality(Earlier(all, x)) + 1
      BY DEF Place, Earlier
    <2> QED
      BY <1>1, <2>1, <2>3, <2>4
  <1>4. ASSUME NEW x \in all, NEW y \in all, x.count > y.count
        PROVE  Place(all, x) # Place(all, y)
    <2>1. Earlier(all, x) \in SUBSET Earlier(all, y)
      BY <1>2, <1>4 DEF Earlier
    <2>2. x \in Earlier(all, y) /\ x \notin Earlier(all, x)
      BY <1>2, <1>4 DEF Earlier
    <2>3. Cardinality(Earlier(all, x)) # Cardinality(Earlier(all, y))
      BY <1>3, <2>1, <2>2, FS_Subset
    <2> QED
      BY <1>3, <2>3
  <1>5. \A x, y \in all : Place(all, x) = Place(all, y) => x = y
    BY <1>4 DEF Distinct
  <1>6. place \in Injection(all, 1..N)
    BY <1>3, <1>5 DEF Injection, IsInjective
  <1>7. place \in Surjection(all, 1..N)
    <2>1. IsFiniteSet(1..N) /\ Cardinality(1..N) = N
      BY <1>1, FS_Interval
    <2> HIDE DEF place
    <2> QED
      BY <1>6, <2>1, FS_Injection
  <1>8. \A i \in 1..N : \E x \in all : Place(all, x) = i
    BY <1>7 DEF Surjection
  <1> DEFINE first == FirstOf(all)
             ranks == [x \in first |-> Place(all, x)]
  <1>9. first \in SUBSET all /\ \A x \in first : Place(all, x) <= FacetsLimit
    BY DEF FirstOf
  <1>10. IsFiniteSet(first) /\ Cardinality(first) \in Nat /\ Cardinality(first) <= N
    <2> HIDE DEF first
    <2> QED
      BY <1>9, FS_Subset, FS_CardinalityType
  <1>11. Cardinality(first) <= FacetsLimit
    <2>1. FacetsLimit \in Nat
      BY SearchAssumption
    <2>2. IsFiniteSet(1..FacetsLimit) /\ Cardinality(1..FacetsLimit) = FacetsLimit
      BY <2>1, FS_Interval
    <2> HIDE DEF first
    <2>3. \A x \in first : Place(all, x) \in 1..FacetsLimit
      BY <1>1, <1>3, <1>9, <2>1
    <2>4. ranks \in Injection(first, 1..FacetsLimit)
      BY <1>5, <1>9, <2>3 DEF Injection, IsInjective
    <2> HIDE DEF ranks
    <2> QED
      BY <2>2, <2>4, FS_Injection
  <1>12. ASSUME NEW i \in 1..Cardinality(first)
         PROVE  \E x \in first : Place(all, x) = i
    <2> HIDE DEF first
    <2>1. i \in 1..N /\ i <= FacetsLimit
      BY <1>1, <1>10, <1>11, SearchAssumption
    <2>2. PICK x \in all : Place(all, x) = i
      BY <1>8, <2>1
    <2> QED
      BY <2>1, <2>2 DEF first, FirstOf
  <1> QED
    BY <1>5, <1>10, <1>12

\* Each bucket is the one at its place.
LEMMA BucketsAreFirst ==
    ASSUME NEW hits, hits \subseteq Docs, NEW key \in FacetKeys, NEW lang,
           NEW all, all = Counts(hits, key, lang), Distinct(all)
    PROVE  /\ DOMAIN Buckets(hits, key, lang) = 1..Cardinality(FirstOf(all))
           /\ \A i \in DOMAIN Buckets(hits, key, lang) :
                /\ Buckets(hits, key, lang)[i] \in FirstOf(all)
                /\ Place(all, Buckets(hits, key, lang)[i]) = i
  <1>1. IsFiniteSet(all) /\ \A x \in all : x.count \in Nat /\ Rank[x.key] \in Int
    BY CountsAreFinite
  <1>2. Buckets(hits, key, lang) =
            [n \in 1..Cardinality(FirstOf(all)) |-> CHOOSE x \in FirstOf(all) : Place(all, x) = n]
    BY DEF Buckets, FirstOf
  <1>3. \A i \in 1..Cardinality(FirstOf(all)) :
            \E x \in FirstOf(all) : Place(all, x) = i
    BY <1>1, PlacesAreTaken
  <1> QED
    BY <1>2, <1>3

\* The values in the other language are those in English, translated, each as
\* frequent and at the same place.
LEMMA TranslationKeepsPlaces ==
    ASSUME NEW hits, hits \subseteq Docs, NEW key \in FacetKeys, Bilingual(hits),
           NEW all, all = Counts(hits, key, "en"), Distinct(all),
           NEW other, other = Counts(hits, key, "locale"),
           NEW move, move = [x \in all |-> [key |-> Translated[x.key], count |-> x.count]]
    PROVE  /\ other = {move[x] : x \in all} /\ Distinct(other)
           /\ \A x, y \in all : move[x] = move[y] => x = y
           /\ \A x \in all : Place(other, move[x]) = Place(all, x)
  <1> DEFINE V == UNION {d.facetsEn[key] : d \in hits}
             W == UNION {d.facets[key] : d \in hits}
             En(v) == {d \in hits : v \in d.facetsEn[key]}
             Lo(w) == {d \in hits : w \in d.facets[key]}
  <1>1. /\ V \subseteq DOMAIN Translated
        /\ \A u, v \in DOMAIN Translated : Translated[u] = Translated[v] => u = v
        /\ \A d \in hits : d.facets[key] = {Translated[v] : v \in d.facetsEn[key]}
    BY SearchAssumption DEF Bilingual, IsInjective
  <1>2. W = {Translated[v] : v \in V}
    BY <1>1
  <1>3. ASSUME NEW v \in V PROVE Lo(Translated[v]) = En(v)
    BY <1>1
  <1>4. all = {[key |-> v, count |-> Cardinality(En(v))] : v \in V}
    BY DEF Counts, Values
  <1>5. other = {[key |-> w, count |-> Cardinality(Lo(w))] : w \in W}
    BY DEF Counts, Values
  <1> HIDE DEF V, W, En, Lo
  <1>6. other = {[key |-> Translated[v], count |-> Cardinality(En(v))] : v \in V}
    <2>1. other = {[key |-> Translated[v], count |-> Cardinality(Lo(Translated[v]))] : v \in V}
      BY <1>2, <1>5
    <2> QED
      BY <1>3, <2>1
  <1>7. /\ \A x \in all : \E v \in V : /\ x = [key |-> v, count |-> Cardinality(En(v))]
                                       /\ x.key = v /\ x.count = Cardinality(En(v))
        /\ \A v \in V : [key |-> v, count |-> Cardinality(En(v))] \in all
    BY <1>4
  <1>8. \A x \in all : move[x] = [key |-> Translated[x.key], count |-> x.count]
    OBVIOUS
  <1>9. other = {move[x] : x \in all}
    <2>1. ASSUME NEW y \in other PROVE \E x \in all : y = move[x]
      <3>1. PICK v \in V : y = [key |-> Translated[v], count |-> Cardinality(En(v))]
        BY <1>6
      <3> DEFINE x == [key |-> v, count |-> Cardinality(En(v))]
      <3>2. x \in all /\ x.key = v /\ x.count = Cardinality(En(v))
        BY <1>7
      <3> HIDE DEF x
      <3> QED
        BY <1>8, <3>1, <3>2
    <2>2. ASSUME NEW x \in all PROVE move[x] \in other
      BY <1>6, <1>7, <1>8
    <2> QED
      BY <2>1, <2>2
  <1>10. \A x, y \in all : move[x] = move[y] => x = y
    <2> SUFFICES ASSUME NEW x \in all, NEW y \in all, move[x] = move[y] PROVE x = y
      OBVIOUS
    <2>1. x.count = y.count
      BY <1>8
    <2> QED
      BY <2>1 DEF Distinct
  <1>11. \A x \in all : move[x].count = x.count
    BY <1>8
  <1> HIDE <1>8
  <1>12. Distinct(other)
    BY <1>9, <1>11 DEF Distinct
  <1>13. ASSUME NEW x \in all PROVE Place(other, move[x]) = Place(all, x)
    <2>1. /\ IsFiniteSet(all) /\ \A y \in all : y.count \in Nat /\ Rank[y.key] \in Int
          /\ IsFiniteSet(other) /\ \A y \in other : y.count \in Nat /\ Rank[y.key] \in Int
      BY CountsAreFinite
    <2>2. /\ \A y, z \in all : Before(y, z) <=> y.count > z.count
          /\ \A y, z \in other : Before(y, z) <=> y.count > z.count
      BY <1>12, <2>1 DEF Before, Distinct
    <2> DEFINE E == Earlier(all, x)
               f == [y \in E |-> move[y]]
    <2>3. E \in SUBSET all
      BY DEF Earlier
    <2>4. Earlier(other, move[x]) = {move[y] : y \in E}
      BY <1>9, <1>11, <2>2 DEF Earlier
    <2>5. IsFiniteSet(E)
      <3> HIDE DEF E
      <3> QED
        BY <2>1, <2>3, FS_Subset
    <2> HIDE DEF E
    <2>6. DOMAIN f = E /\ \A y, z \in E : f[y] = f[z] => y = z
      BY <1>10, <2>3
    <2>7. {f[y] : y \in E} = {move[y] : y \in E}
      OBVIOUS
    <2> HIDE DEF f
    <2>8. Cardinality({f[y] : y \in E}) = Cardinality(E)
      BY <2>5, <2>6, ImageIsFinite
    <2> QED
      BY <2>4, <2>7, <2>8 DEF Place, Earlier, E
  <1> QED
    BY <1>9, <1>10, <1>12, <1>13

\* So the two lists of buckets pair each value with its translation.
LEMMA BucketsPairUp ==
    ASSUME NEW hits, hits \subseteq Docs, NEW key \in FacetKeys, Bilingual(hits),
           Distinct(Counts(hits, key, "en"))
    PROVE  \A i \in DOMAIN Facet(hits, key) :
                Facet(hits, key)[i].locale = Translated[Facet(hits, key)[i].en]
  <1>1. PICK all : all = Counts(hits, key, "en")
    OBVIOUS
  <1>2. PICK other : other = Counts(hits, key, "locale")
    OBVIOUS
  <1>3. PICK move : move = [x \in all |-> [key |-> Translated[x.key], count |-> x.count]]
    OBVIOUS
  <1>4. PICK en : en = Buckets(hits, key, "en")
    OBVIOUS
  <1>5. PICK local : local = Buckets(hits, key, "locale")
    OBVIOUS
  <1>6. /\ other = {move[x] : x \in all} /\ Distinct(other) /\ Distinct(all)
        /\ \A x, y \in all : move[x] = move[y] => x = y
        /\ \A x \in all : Place(other, move[x]) = Place(all, x)
    BY <1>1, <1>2, <1>3, TranslationKeepsPlaces
  <1>7. /\ DOMAIN en = 1..Cardinality(FirstOf(all))
        /\ \A i \in DOMAIN en : en[i] \in FirstOf(all) /\ Place(all, en[i]) = i
    BY <1>1, <1>4, <1>6, BucketsAreFirst
  <1>8. /\ DOMAIN local = 1..Cardinality(FirstOf(other))
        /\ \A i \in DOMAIN local : local[i] \in FirstOf(other) /\ Place(other, local[i]) = i
    BY <1>2, <1>5, <1>6, BucketsAreFirst
  <1>9. /\ IsFiniteSet(all) /\ \A x \in all : x.count \in Nat /\ Rank[x.key] \in Int
        /\ IsFiniteSet(other) /\ \A x \in other : x.count \in Nat /\ Rank[x.key] \in Int
    BY <1>1, <1>2, CountsAreFinite
  <1>10. Cardinality(FirstOf(other)) = Cardinality(FirstOf(all))
    <2> DEFINE first == FirstOf(all)
               f == [x \in first |-> move[x]]
    <2>1. first \in SUBSET all /\ IsFiniteSet(first)
      BY <1>6, <1>9, PlacesAreTaken DEF FirstOf
    <2>2. FirstOf(other) = {move[x] : x \in first}
      BY <1>6 DEF FirstOf
    <2> HIDE DEF first
    <2>3. DOMAIN f = first /\ {f[x] : x \in first} = {move[x] : x \in first}
          /\ \A x, y \in first : f[x] = f[y] => x = y
      BY <1>6, <2>1
    <2> HIDE DEF f
    <2>4. Cardinality({f[x] : x \in first}) = Cardinality(first)
      BY <2>1, <2>3, ImageIsFinite
    <2> QED
      BY <2>2, <2>3, <2>4 DEF first
  <1>11. ASSUME NEW i \in DOMAIN en PROVE i \in DOMAIN local /\ local[i].key = Translated[en[i].key]
    <2>1. i \in DOMAIN local
      BY <1>7, <1>8, <1>10
    <2>2. local[i] \in other /\ en[i] \in all
      BY <1>7, <1>8, <2>1 DEF FirstOf
    <2>3. PICK x \in all : local[i] = move[x]
      BY <1>6, <2>2
    <2>4. Place(all, x) = i /\ Place(all, en[i]) = i
      BY <1>6, <1>7, <1>8, <2>1, <2>3
    <2>5. x = en[i]
      BY <1>6, <1>9, <2>2, <2>4, PlacesAreTaken
    <2> QED
      BY <1>3, <2>1, <2>3, <2>5
  <1>12. Facet(hits, key) =
            [i \in DOMAIN en |->
                [en |-> en[i].key, count |-> en[i].count,
                 locale |-> IF i \in DOMAIN local THEN local[i].key ELSE en[i].key]]
    BY <1>4, <1>5 DEF Facet
  <1> QED
    BY <1>11, <1>12

-----------------------------------------------------------------------------
(* The properties. *)

\* A search finds what its query and filters ask for, whatever the services
\* gave, but for what it overlooks without the tenant's attributes; each page
\* is as long as what is left for it.
THEOREM SearchesFindWhatIsWanted == Spec => []FindsWhatIsWanted
  <1>1. SearchInv => FindsWhatIsWanted
    <2> SUFFICES ASSUME SearchInv, pc = "done", reply.status = "200",
                        query.form = "complex" => Proper(query.tree),
                        NEW found, found = Findable(query, Last(seen).basis, Last(seen).index),
                        NEW left, left = Cardinality(found) - (page - 1) * query.limit
                 PROVE  /\ ToSet(reply.hits) \subseteq found
                        /\ Len(reply.hits) = IF left <= 0 THEN 0
                                             ELSE IF left < query.limit THEN left ELSE query.limit
                        /\ reply.total = Total(query, Cardinality(found))
      BY Zenon DEF FindsWhatIsWanted, Findable
    <2>1. /\ query \in Queries /\ seen \in Seq(Pages) /\ seen # <<>> /\ page = Len(seen)
          /\ reply.total = Total(query, Cardinality(LastMatching))
          /\ reply.hits = Last(seen).hits
          /\ \A i \in DOMAIN seen : PageFits(seen[i], query, i)
      BY DEF SearchInv, SearchFits, ReplyFits, PagesFit
    <2>2. Len(seen) \in DOMAIN seen /\ Last(seen) = seen[Len(seen)] /\ Last(seen) \in Pages
      BY <2>1, EmptySeq, LenProperties, ElementOfSeq DEF Last
    <2>3. Last(seen).index \subseteq Docs
      BY <2>2 DEF Pages
    <2>4. found = LastMatching
      BY <2>1, <2>3, MatchesWhatIsWanted DEF LastMatching
    <2>5. PICK order \in Orders(query, Last(seen).basis, found) :
            Last(seen).hits = Slice(order, (Len(seen) - 1) * query.limit, query.limit)
      BY <2>1, <2>2, <2>4, Zenon DEF PageFits, LastMatching
    <2>6. IsFiniteSet(found) /\ order \in SetToSeqs(found)
      BY <2>3, <2>4, <2>5, SearchAssumption, FS_Subset DEF LastMatching, Matching, Orders
    <2>7. order \in Seq(found) /\ Len(order) = Cardinality(found) /\ Len(order) \in Nat
      BY <2>6, Arranges, FS_CardinalityType
    <2> DEFINE from == (Len(seen) - 1) * query.limit
    <2>8. from \in Nat /\ query.limit \in Nat /\ left = Len(order) - from
      <3>1. Len(seen) - 1 \in Nat /\ query.limit \in Nat
        BY <2>1, EmptySeq, SearchAssumption
      <3>2. from \in Nat
        BY <3>1
      <3>3. left = Len(order) - from
        BY <2>1, <2>7
      <3> QED
        BY <3>1, <3>2, <3>3
    <2>9. Takes(found, reply.hits, order, from, SliceEnd(order, from, query.limit))
      <3>1. reply.hits = Slice(order, from, query.limit)
        BY <2>1, <2>5
      <3> HIDE DEF from
      <3>2. Takes(found, Slice(order, from, query.limit), order, from,
                  SliceEnd(order, from, query.limit))
        BY <2>7, <2>8, SliceTakes
      <3> QED
        BY <3>1, <3>2
    <2> HIDE DEF from
    <2>10. ToSet(reply.hits) \subseteq found
      BY <2>9, ElementOfSeq, LenProperties DEF Takes, ToSet
    <2>11. Len(reply.hits) = IF left <= 0 THEN 0
                             ELSE IF left < query.limit THEN left ELSE query.limit
      BY <2>7, <2>8, <2>9 DEF Takes, SliceEnd
    <2> QED
      BY <2>1, <2>4, <2>10, <2>11
  <1> QED
    BY <1>1, SearchInvHolds, PTL

\* The pages of a search that is ranked by something unique divide its hits.
THEOREM PagesDivideTheHits == Spec => []PagesPartition
  <1>1. SearchInv => PagesPartition
    <2> SUFFICES ASSUME SearchInv, pc = "done", reply.status = "200", Stable, OneOrder(query)
                 PROVE  /\ \A i, j \in DOMAIN seen :
                            \A m \in DOMAIN seen[i].hits, n \in DOMAIN seen[j].hits :
                                seen[i].hits[m] = seen[j].hits[n] => i = j /\ m = n
                        /\ \/ \A i \in DOMAIN seen : Len(seen[i].hits) = query.limit
                           \/ UNION {ToSet(seen[i].hits) : i \in DOMAIN seen} = LastMatching
      BY Zenon DEF PagesPartition, LastMatching
    <2>1. /\ query \in Queries /\ seen \in Seq(Pages) /\ seen # <<>>
          /\ \A i \in DOMAIN seen : PageFits(seen[i], query, i)
      BY DEF SearchInv, SearchFits, ReplyFits, PagesFit
    <2>2. /\ Len(seen) \in Nat /\ DOMAIN seen = 1..Len(seen) /\ Len(seen) \in DOMAIN seen
          /\ Last(seen) = seen[Len(seen)] /\ Last(seen) \in Pages
      BY <2>1, EmptySeq, LenProperties, ElementOfSeq DEF Last
    <2> DEFINE b == Last(seen).basis
               hits == LastMatching
               shown == [i \in DOMAIN seen |-> seen[i].hits]
               L == query.limit
    <2>3. hits \subseteq Docs /\ IsFiniteSet(hits)
      BY <2>2, SearchAssumption, FS_Subset DEF Pages, LastMatching, Matching
    <2>4. Len(b.predicted) \in Nat /\ L \in Nat \ {0}
      BY <2>1, <2>2, LenProperties, SearchAssumption DEF Pages, Bases
    <2>5. ASSUME NEW i \in DOMAIN seen
          PROVE  \E order \in Orders(query, b, hits) :
                    seen[i].hits = Slice(order, (i - 1) * L, L)
      <3>1. seen[i].index = Last(seen).index /\ seen[i].basis = b
        BY <2>2 DEF Stable
      <3> QED
        BY <2>1, <3>1, Zenon DEF PageFits, LastMatching
    <2> HIDE DEF b, hits, L
    <2>6. PICK order : order \in Orders(query, b, hits)
      BY <2>2, <2>5
    <2>7. \A s \in Orders(query, b, hits) : s = order
      BY <2>1, <2>3, <2>4, <2>6, OneSortedArrangement
    <2>8. order \in SetToSeqs(hits)
      BY <2>6 DEF Orders
    <2>9. \A i \in 1..Len(seen) : shown[i] = Slice(order, (i - 1) * L, L)
      BY <2>2, <2>5, <2>7, Zenon
    <2>10. \A i \in DOMAIN seen : shown[i] = seen[i].hits
      OBVIOUS
    <2> HIDE DEF shown
    <2>11. Divide(shown, Len(seen), L, hits)
      BY <2>2, <2>3, <2>4, <2>8, <2>9, PagesOfOneOrder
    <2>12. UNION {ToSet(shown[i]) : i \in 1..Len(seen)}
                = UNION {ToSet(seen[i].hits) : i \in DOMAIN seen}
      BY <2>2, <2>10
    <2>14. \A i, j \in DOMAIN seen : \A m \in DOMAIN seen[i].hits, n \in DOMAIN seen[j].hits :
                seen[i].hits[m] = seen[j].hits[n] => i = j /\ m = n
      BY <2>2, <2>10, <2>11 DEF Divide
    <2>15. \/ \A i \in DOMAIN seen : Len(seen[i].hits) = L
           \/ UNION {ToSet(seen[i].hits) : i \in DOMAIN seen} = LastMatching
      BY <2>2, <2>10, <2>11, <2>12 DEF Divide, hits
    <2> QED
      BY <2>14, <2>15 DEF L
  <1> QED
    BY <1>1, SearchInvHolds, PTL

\* The count an option shows, of whatever age, is the total of the hybrid
\* search for its codes in the index that was counted.
THEOREM CountsAgreeWithSearch == Spec => []CountsAgree
  <1>1. SearchInv => CountsAgree
    <2> SUFFICES ASSUME SearchInv, ai # None, NEW n \in DOMAIN ai.options, NEW o,
                        o = ai.options[n]
                 PROVE  /\ o.step # "counted" => o.count = 0
                        /\ /\ o.step = "counted" /\ pc = "done" /\ reply.status = "200"
                           /\ SearchesScope(query, ai.tenant, o.codes)
                           /\ Last(seen).index = o.at
                           => reply.total = o.count
      BY Zenon DEF CountsAgree
    <2>1. OptionFits(ai.tenant, o)
      BY DEF SearchInv, OptionsFit
    <2>2. ASSUME o.step = "counted", pc = "done", reply.status = "200",
                 SearchesScope(query, ai.tenant, o.codes), Last(seen).index = o.at
          PROVE  reply.total = o.count
      <3>1. reply.total = Cardinality(LastMatching)
        BY <2>2 DEF SearchInv, SearchFits, ReplyFits, Total, SearchesScope
      <3>2. \A d : Hybrid(query, d) <=> d.tenant = ai.tenant /\ InScope(o.codes, d)
        BY <2>2 DEF SearchesScope, Hybrid, Filtered, AgeFits, GeoFits
      <3>3. LastMatching = {d \in o.at : d.tenant = ai.tenant /\ InScope(o.codes, d)}
        BY <2>2, <3>2 DEF LastMatching, Matching, SearchesScope
      <3> QED
        BY <2>1, <2>2, <3>1, <3>3 DEF OptionFits, SearchesScope
    <2>3. o.step # "counted" => o.count = 0
      BY <2>1 DEF OptionFits
    <2> QED
      BY <2>2, <2>3, Zenon
  <1> QED
    BY <1>1, SearchInvHolds, PTL

\* Each facet value is shown with its own translation.
THEOREM LabelsArePairedUp == Spec => []LabelsPairUp
  <1>1. SearchInv => LabelsPairUp
    <2> SUFFICES ASSUME SearchInv, pc = "done", reply.status = "200",
                        Bilingual(Last(seen).index), NEW key \in DOMAIN reply.facets,
                        Distinct(Counts(LastMatching, key, "en"))
                 PROVE  \A i \in DOMAIN reply.facets[key] :
                            reply.facets[key][i].locale = Translated[reply.facets[key][i].en]
      BY DEF LabelsPairUp, LastMatching
    <2> DEFINE hits == LastMatching
    <2>1. /\ seen \in Seq(Pages) /\ seen # <<>>
          /\ reply.facets = [k \in Last(seen).basis.facets |-> Facet(hits, k)]
      BY DEF SearchInv, SearchFits, ReplyFits, PagesFit
    <2>2. Last(seen) \in Pages
      BY <2>1, EmptySeq, ElementOfSeq DEF Last
    <2>3. key \in FacetKeys /\ reply.facets[key] = Facet(hits, key)
      BY <2>1, <2>2 DEF Pages, Bases
    <2>4. hits \subseteq Docs /\ hits \subseteq Last(seen).index
      BY <2>2 DEF Pages, LastMatching, Matching
    <2>5. Bilingual(hits)
      BY <2>4 DEF Bilingual
    <2> HIDE DEF hits
    <2>6. \A i \in DOMAIN Facet(hits, key) :
            Facet(hits, key)[i].locale = Translated[Facet(hits, key)[i].en]
      BY <2>3, <2>4, <2>5, BucketsPairUp DEF hits
    <2> QED
      BY <2>3, <2>6
  <1> QED
    BY <1>1, SearchInvHolds, PTL

=============================================================================
