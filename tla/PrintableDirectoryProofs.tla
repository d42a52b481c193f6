----------------------- MODULE PrintableDirectoryProofs -----------------------
(***************************************************************************)
(* The properties of PrintableDirectory, for every number of requests,     *)
(* users, directories, sections and sources.                               *)
(*                                                                         *)
(* First the slugs, which need little of the state.  Then the rest:        *)
(* sorting, numbering and reordering keep every item (a rank among n items *)
(* is one of n places, so that the ranks are a permutation); what a save   *)
(* of each kind leaves of the stored sections, as SavesWell; the inductive *)
(* invariant DirectoryInv, action by action; and what a step may do.       *)
(***************************************************************************)
EXTENDS PrintableDirectory, TLAPS, SequenceTheorems, FiniteSetTheorems

-----------------------------------------------------------------------------
(* Slugs. *)

\* No step but a creation or an update touches a slug or a tenant.
SameSlugs ==
    /\ DOMAIN dirs' \subseteq DOMAIN dirs
    /\ \A d \in DOMAIN dirs' :
          /\ dirs'[d].slug = dirs[d].slug
          /\ dirs'[d].tenant = dirs[d].tenant
          /\ {"slug", "tenant"} \subseteq DOMAIN dirs'[d]

\* A collection whose slugs stay, or some of whose directories go, keeps
\* the invariant.
LEMMA SameSlugsKeepInv ==
    ASSUME SlugInv, SameSlugs PROVE SlugInv'
BY DEF SlugInv, SlugsUnique, SameSlugs

\* The collections the program may be started on have unique slugs.
LEMMA InitSlugs == Init => SlugInv
<1> SUFFICES ASSUME Init PROVE SlugInv
    OBVIOUS
<1>1. /\ dirs \in [DOMAIN dirs -> Directory]
      /\ SlugsUnique
    BY InitialDirsAssumption DEF Init, SlugsUnique
<1>2. \A d \in DOMAIN dirs : {"slug", "tenant"} \subseteq DOMAIN dirs[d]
    BY <1>1 DEF Directory
<1> QED
    BY <1>1, <1>2 DEF SlugInv

\* A creation looks for its slug before it inserts the directory.
LEMMA CreateSlugs == ASSUME NEW r \in Requests, SlugInv, Create(r) PROVE SlugInv'
<1>1. CASE SlugTaken(r, job[r].tenant, job[r].slug)
    BY <1>1, SameSlugsKeepInv DEF Create, SameSlugs, SlugInv
<1>2. CASE ~SlugTaken(r, job[r].tenant, job[r].slug)
    <2>1. dirs' = [x \in DOMAIN dirs \cup {r} |-> IF x = r THEN Made(r) ELSE dirs[x]]
        BY <1>2 DEF Create, Write
    <2>2. /\ Made(r).slug = job[r].slug /\ Made(r).tenant = job[r].tenant
          /\ {"slug", "tenant"} \subseteq DOMAIN Made(r)
        BY DEF Made
    <2>3. \A e \in DOMAIN dirs \ {r} :
              ~(job[r].slug # None /\ dirs[e].tenant = job[r].tenant
                  /\ dirs[e].slug = job[r].slug)
        BY <1>2 DEF SlugTaken
    <2> HIDE DEF Made
    <2>4. \A e \in DOMAIN dirs \ {r} : dirs'[e] = dirs[e]
        BY <2>1
    <2>5. dirs'[r] = Made(r) /\ DOMAIN dirs' = DOMAIN dirs \cup {r}
        BY <2>1
    <2> QED
        BY <2>2, <2>3, <2>4, <2>5 DEF SlugInv, SlugsUnique
<1> QED
    BY <1>1, <1>2

\* So does an update, with the slug that is going to be stored.
LEMMA UpdateSlugs == ASSUME NEW r \in Requests, SlugInv, SaveUpdate(r) PROVE SlugInv'
<1> DEFINE d == job[r].dir
<1>1. CASE SlugTaken(d, dirs[d].tenant, NewSlug(r))
    BY <1>1, SameSlugsKeepInv DEF SaveUpdate, SameSlugs, SlugInv
<1>2. CASE ~SlugTaken(d, dirs[d].tenant, NewSlug(r))
    <2>1. /\ d \in DOMAIN dirs
          /\ dirs' = [dirs EXCEPT
                         ![d].policy = Updated(@, copy[r].policy, job[r].policy),
                         ![d].slug = NewSlug(r)]
        BY <1>2 DEF SaveUpdate
    <2>2. \A e \in DOMAIN dirs \ {d} :
              ~(NewSlug(r) # None /\ dirs[e].tenant = dirs[d].tenant
                  /\ dirs[e].slug = NewSlug(r))
        BY <1>2 DEF SlugTaken
    <2> HIDE DEF d
    <2>3. DOMAIN dirs' = DOMAIN dirs /\ \A e \in DOMAIN dirs \ {d} : dirs'[e] = dirs[e]
        BY <2>1
    <2>4. /\ dirs'[d].slug = NewSlug(r) /\ dirs'[d].tenant = dirs[d].tenant
          /\ {"slug", "tenant"} \subseteq DOMAIN dirs'[d]
        BY <2>1 DEF SlugInv
    <2> QED
        BY <2>1, <2>2, <2>3, <2>4 DEF SlugInv, SlugsUnique
<1> QED
    BY <1>1, <1>2 DEF SaveUpdate

\* Every step keeps the invariant.
LEMMA NextSlugs == SlugInv /\ [Next]_vars => SlugInv'
<1> SUFFICES ASSUME SlugInv, [Next]_vars PROVE SlugInv'
    OBVIOUS
<1>1. ASSUME UNCHANGED dirs PROVE SlugInv'
    BY <1>1, SameSlugsKeepInv DEF SameSlugs, SlugInv
<1>2. ASSUME NEW r \in Requests, Start(r) PROVE SlugInv'
    <2>1. \A j : Send(r, j) => dirs' = dirs
        BY DEF Send
    <2>2. UNCHANGED dirs
        BY <1>2, <2>1 DEF Start
    <2> QED
        BY <1>1, <2>2
<1>3. ASSUME NEW r \in Requests, Load(r) \/ SaveRefused(r) PROVE SlugInv'
    BY <1>1, <1>3 DEF Load, SaveRefused
<1>4. ASSUME NEW r \in Requests, Delete(r) PROVE SlugInv'
    BY <1>4, SameSlugsKeepInv DEF Delete, SameSlugs, SlugInv
<1>5. ASSUME NEW r \in Requests, SaveSections(r) PROVE SlugInv'
    <2>1. SameSlugs
        BY <1>5 DEF SaveSections, SameSlugs, SlugInv
    <2> QED
        BY <2>1, SameSlugsKeepInv
<1> QED
    BY <1>1, <1>2, <1>3, <1>4, <1>5, CreateSlugs, UpdateSlugs
        DEF Next, Advance, Finished, vars

\* No two directories of a tenant ever have one slug, so that a public link
\* leads to one directory.
THEOREM SlugsStayUnique == Spec => []SlugsUnique
<1>1. SlugInv => SlugsUnique
    BY DEF SlugInv
<1> QED
    BY <1>1, InitSlugs, NextSlugs, PTL DEF Spec

-----------------------------------------------------------------------------
(* Items that are sorted and numbered. *)

\* The places of the items kept are 1, 2, 3, ..., one for each of them.
LEMMA RankIsPlace ==
    ASSUME NEW T, NEW items \in Seq(T), \A k \in DOMAIN items : items[k].order \in Nat,
           NEW kept \in SUBSET DOMAIN items
    PROVE  /\ Cardinality(kept) \in Nat
           /\ \A k \in kept : Rank(items, kept, k) \in 1..Cardinality(kept)
           /\ \A j, k \in kept : Rank(items, kept, j) = Rank(items, kept, k) => j = k
           /\ \A n \in 1..Cardinality(kept) : \E k \in kept : Rank(items, kept, k) = n
  <1> DEFINE Upto(k) == {j \in kept :
                \/ items[j].order < items[k].order
                \/ items[j].order = items[k].order /\ j <= k}
             N == Cardinality(kept)
             rank == [k \in kept |-> Rank(items, kept, k)]
  <1>1. IsFiniteSet(kept) /\ N \in Nat
    <2>1. Len(items) \in Nat /\ DOMAIN items = 1..Len(items)
      BY LenProperties
    <2>2. IsFiniteSet(1..Len(items))
      BY <2>1, FS_Interval
    <2> QED
      BY <2>1, <2>2, FS_Subset, FS_CardinalityType
  <1>2. \A k \in kept : k \in Nat /\ items[k].order \in Nat
    BY LenProperties
  <1>3. \A k \in kept : Rank(items, kept, k) = Cardinality(Upto(k))
    BY DEF Rank
  <1>4. ASSUME NEW k \in kept
        PROVE  /\ IsFiniteSet(Upto(k)) /\ Cardinality(Upto(k)) \in Nat
               /\ Upto(k) \subseteq kept /\ k \in Upto(k)
    <2>1. Upto(k) \in SUBSET kept /\ k \in Upto(k)
      BY <1>2
    <2> HIDE DEF Upto
    <2> QED
      BY <1>1, <2>1, FS_Subset, FS_CardinalityType
  <1>5. \A k \in kept : Rank(items, kept, k) \in 1..N
    <2> SUFFICES ASSUME NEW k \in kept PROVE Cardinality(Upto(k)) \in 1..N
      BY <1>3
    <2> HIDE DEF Upto
    <2>1. Upto(k) \in SUBSET kept
      BY <1>4
    <2>2. Cardinality(Upto(k)) <= N
      BY <1>1, <2>1, FS_Subset
    <2>3. Cardinality(Upto(k)) # 0
      BY <1>4, FS_EmptySet
    <2> QED
      BY <1>1, <1>4, <2>2, <2>3
  <1>6. ASSUME NEW j \in kept, NEW k \in kept, j # k,
               \/ items[j].order < items[k].order
               \/ items[j].order = items[k].order /\ j < k
        PROVE  Rank(items, kept, j) # Rank(items, kept, k)
    <2>1. Upto(j) \subseteq Upto(k) /\ k \notin Upto(j)
      BY <1>2, <1>6
    <2> HIDE DEF Upto
    <2>2. Upto(j) \in SUBSET Upto(k) /\ Upto(j) # Upto(k)
      BY <1>4, <2>1
    <2>3. Cardinality(Upto(k)) # Cardinality(Upto(j))
      BY <1>4, <2>2, FS_Subset
    <2> QED
      BY <1>3, <2>3
  <1>7. \A j, k \in kept : Rank(items, kept, j) = Rank(items, kept, k) => j = k
    BY <1>2, <1>6
  <1>8. rank \in Injection(kept, 1..N)
    <2>1. rank \in [kept -> 1..N]
      BY <1>5
    <2>2. \A j, k \in kept : rank[j] = rank[k] => j = k
      BY <1>7
    <2> HIDE DEF rank
    <2> QED
      BY <2>1, <2>2 DEF Injection, IsInjective
  <1>9. rank \in Surjection(kept, 1..N)
    <2>1. IsFiniteSet(1..N) /\ Cardinality(1..N) = N
      BY <1>1, FS_Interval
    <2> HIDE DEF rank
    <2> QED
      BY <1>8, <2>1, FS_Injection
  <1>10. \A n \in 1..N : \E k \in kept : Rank(items, kept, k) = n
    BY <1>9 DEF Surjection
  <1> QED
    BY <1>1, <1>5, <1>7, <1>10

\* An array that holds, numbered, the items of old at the positions kept.
Renumbers(old, kept, new) ==
    \E p \in [DOMAIN new -> kept] :
        /\ \A m, n \in DOMAIN new : p[m] = p[n] => m = n
        /\ \A k \in kept : \E n \in DOMAIN new : p[n] = k
        /\ new = [n \in DOMAIN new |-> [old[p[n]] EXCEPT !.order = n - 1]]

\* reindexSections and reindexSources keep the items they are given.
LEMMA ReindexedRenumbers ==
    ASSUME NEW T, NEW items \in Seq(T), \A k \in DOMAIN items : items[k].order \in Nat,
           NEW kept \in SUBSET DOMAIN items
    PROVE  /\ Renumbers(items, kept, Reindexed(items, kept))
           /\ \E n \in Nat : DOMAIN Reindexed(items, kept) = 1..n
  <1> DEFINE N == Cardinality(kept)
             p == [n \in 1..N |-> CHOOSE k \in kept : Rank(items, kept, k) = n]
             new == Reindexed(items, kept)
  <1>1. /\ N \in Nat
        /\ \A k \in kept : Rank(items, kept, k) \in 1..N
        /\ \A j, k \in kept : Rank(items, kept, j) = Rank(items, kept, k) => j = k
        /\ \A n \in 1..N : \E k \in kept : Rank(items, kept, k) = n
    BY RankIsPlace
  <1>2. \A n \in 1..N : p[n] \in kept /\ Rank(items, kept, p[n]) = n
    BY <1>1
  <1>3. DOMAIN new = 1..N /\ DOMAIN p = 1..N
    BY DEF Reindexed
  <1>4. new = [n \in 1..N |-> [items[p[n]] EXCEPT !.order = n - 1]]
    BY DEF Reindexed, Ranked
  <1>5. p \in [1..N -> kept]
    BY <1>2
  <1> HIDE DEF p, new, N
  <1>6. \A m, n \in 1..N : p[m] = p[n] => m = n
    BY <1>2
  <1>7. \A k \in kept : \E n \in 1..N : p[n] = k
    BY <1>1, <1>2
  <1>8. Renumbers(items, kept, new)
    <2>1. /\ p \in [DOMAIN new -> kept]
          /\ \A m, n \in DOMAIN new : p[m] = p[n] => m = n
          /\ \A k \in kept : \E n \in DOMAIN new : p[n] = k
      BY <1>3, <1>5, <1>6, <1>7
    <2>2. new = [n \in DOMAIN new |-> [items[p[n]] EXCEPT !.order = n - 1]]
      BY <1>3, <1>4, Zenon
    <2> QED
      BY <2>1, <2>2, Zenon DEF Renumbers
  <1> QED
    BY <1>1, <1>3, <1>8 DEF new

\* An accepted list of ids names every item once.
LEMMA ExactIdSetPermutes ==
    ASSUME NEW T, NEW items \in Seq(T), NEW ids \in Seq(AllIds),
           ExactIdSet(IdSeq(items), ids)
    PROVE  /\ DOMAIN ids = DOMAIN items
           /\ \A n \in DOMAIN ids : ids[n] \in IdsOf(items)
           /\ \A i \in IdsOf(items) : \E n \in DOMAIN ids : ids[n] = i
           /\ \A m, n \in DOMAIN ids : ids[m] = ids[n] => m = n
  <1> DEFINE N == Len(items)
             expected == IdSeq(items)
  <1>1. N \in Nat /\ DOMAIN items = 1..N
    BY LenProperties
  <1>2. expected \in [1..N -> IdsOf(items)]
    BY <1>1 DEF IdSeq, IdsOf
  <1>3. expected \in Seq(IdsOf(items)) /\ Len(expected) = N /\ DOMAIN expected = 1..N
    BY <1>1, <1>2
  <1>4. ToSet(expected) = IdsOf(items)
    BY <1>1 DEF ToSet, IdSeq, IdsOf
  <1> HIDE DEF expected
  <1>5. /\ Len(ids) = N /\ Cardinality(IdsOf(items)) = N
        /\ Cardinality(ToSet(ids)) = N /\ ToSet(ids) \subseteq IdsOf(items)
    BY <1>3, <1>4 DEF ExactIdSet, expected
  <1> HIDE DEF N
  <1>6. DOMAIN ids = 1..N /\ ids \in [1..N -> ToSet(ids)]
    BY <1>5, LenProperties DEF ToSet
  <1>7. expected \in Surjection(1..N, IdsOf(items)) /\ ids \in Surjection(1..N, ToSet(ids))
    <2>1. ASSUME NEW i \in IdsOf(items) PROVE \E n \in 1..N : expected[n] = i
      BY <1>3, <1>4 DEF ToSet
    <2>2. ASSUME NEW i \in ToSet(ids) PROVE \E n \in 1..N : ids[n] = i
      BY <1>6 DEF ToSet
    <2> QED
      BY <1>2, <1>6, <2>1, <2>2 DEF Surjection
  <1>8. IsFiniteSet(1..N) /\ Cardinality(1..N) = N
    BY <1>1, FS_Interval
  <1>9. IsFiniteSet(IdsOf(items)) /\ ids \in Injection(1..N, ToSet(ids))
    BY <1>5, <1>7, <1>8, FS_Surjection
  <1>10. ToSet(ids) = IdsOf(items)
    BY <1>5, <1>9, FS_Subset
  <1>11. \A m, n \in 1..N : ids[m] = ids[n] => m = n
    BY <1>9 DEF Injection, IsInjective
  <1>12. \A n \in 1..N : ids[n] \in IdsOf(items)
    BY <1>6, <1>10
  <1>13. \A i \in IdsOf(items) : \E n \in 1..N : ids[n] = i
    BY <1>7, <1>10 DEF Surjection
  <1> QED
    BY <1>1, <1>6, <1>11, <1>12, <1>13

\* Find finds the only item that has the id.
LEMMA FindsItem ==
    ASSUME NEW items, NEW i \in IdsOf(items)
    PROVE  /\ Find(items, i) \in DOMAIN items
           /\ items[Find(items, i)].id = i
           /\ UniqueIds(items) => \A k \in DOMAIN items : items[k].id = i => k = Find(items, i)
  <1>1. \E k \in DOMAIN items : items[k].id = i
    BY DEF IdsOf
  <1>2. Find(items, i) \in DOMAIN items /\ items[Find(items, i)].id = i
    BY <1>1 DEF Find
  <1> QED
    BY <1>2 DEF UniqueIds

\* A reordering keeps every item.
LEMMA ReorderedRenumbers ==
    ASSUME NEW T, NEW items \in Seq(T), NEW ids \in Seq(AllIds),
           ExactIdSet(IdSeq(items), ids), UniqueIds(items)
    PROVE  /\ Renumbers(items, DOMAIN items, Reordered(items, ids))
           /\ \E n \in Nat : DOMAIN Reordered(items, ids) = 1..n
  <1> DEFINE p == [n \in DOMAIN ids |-> Find(items, ids[n])]
             new == Reordered(items, ids)
  <1>1. /\ DOMAIN ids = DOMAIN items
        /\ \A n \in DOMAIN ids : ids[n] \in IdsOf(items)
        /\ \A i \in IdsOf(items) : \E n \in DOMAIN ids : ids[n] = i
        /\ \A m, n \in DOMAIN ids : ids[m] = ids[n] => m = n
    BY ExactIdSetPermutes
  <1>2. \A n \in DOMAIN ids :
            /\ Find(items, ids[n]) \in DOMAIN items
            /\ items[Find(items, ids[n])].id = ids[n]
    BY <1>1, FindsItem
  <1>3. DOMAIN new = DOMAIN ids
    BY DEF Reordered
  <1>4. new = [n \in DOMAIN ids |-> [items[p[n]] EXCEPT !.order = n - 1]]
    BY DEF Reordered
  <1>5. p \in [DOMAIN ids -> DOMAIN items] /\ \A n \in DOMAIN ids : items[p[n]].id = ids[n]
    BY <1>2
  <1> HIDE DEF p, new
  <1>6. \A m, n \in DOMAIN ids : p[m] = p[n] => m = n
    BY <1>1, <1>5
  <1>7. ASSUME NEW k \in DOMAIN items PROVE \E n \in DOMAIN ids : p[n] = k
    <2>1. items[k].id \in IdsOf(items)
      BY DEF IdsOf
    <2>2. PICK n \in DOMAIN ids : ids[n] = items[k].id
      BY <1>1, <2>1
    <2>3. items[p[n]].id = items[k].id /\ p[n] \in DOMAIN items
      BY <1>5, <2>2
    <2> QED
      BY <2>3 DEF UniqueIds
  <1>8. Renumbers(items, DOMAIN items, new)
    <2>1. /\ p \in [DOMAIN new -> DOMAIN items]
          /\ \A m, n \in DOMAIN new : p[m] = p[n] => m = n
          /\ \A k \in DOMAIN items : \E n \in DOMAIN new : p[n] = k
      BY <1>3, <1>5, <1>6, <1>7
    <2>2. new = [n \in DOMAIN new |-> [items[p[n]] EXCEPT !.order = n - 1]]
      BY <1>3, <1>4, Zenon
    <2> QED
      BY <2>1, <2>2, Zenon DEF Renumbers
  <1>9. Len(items) \in Nat /\ DOMAIN items = 1..Len(items)
    BY LenProperties
  <1> QED
    BY <1>1, <1>3, <1>8, <1>9 DEF new

\* The items of T have an id and an order, which may be set.
HasOrder(T) ==
    \A x \in T : \A o \in Nat :
        /\ [x EXCEPT !.order = o] \in T
        /\ [x EXCEPT !.order = o].id = x.id /\ [x EXCEPT !.order = o].order = o

\* What the array is then.
NumberedFrom(items, kept, new) ==
    /\ UniqueIds(new) /\ OrdersArePositions(new)
    /\ \A n \in DOMAIN new : \E k \in kept : new[n] = [items[k] EXCEPT !.order = n - 1]
    /\ \A k \in kept : \E n \in DOMAIN new : new[n] = [items[k] EXCEPT !.order = n - 1]
    /\ IdsOf(new) = {items[k].id : k \in kept}

\* What numbers the items also keeps them.
LEMMA RenumberedItems ==
    ASSUME NEW T, HasOrder(T), NEW items \in Seq(T), UniqueIds(items),
           NEW kept \in SUBSET DOMAIN items, NEW new, NEW m \in Nat, DOMAIN new = 1..m,
           Renumbers(items, kept, new)
    PROVE  new \in Seq(T) /\ NumberedFrom(items, kept, new)
  <1>1. PICK p \in [DOMAIN new -> kept] :
            /\ \A j, n \in DOMAIN new : p[j] = p[n] => j = n
            /\ \A k \in kept : \E n \in DOMAIN new : p[n] = k
            /\ new = [n \in DOMAIN new |-> [items[p[n]] EXCEPT !.order = n - 1]]
    BY Zenon DEF Renumbers
  <1>2. \A n \in DOMAIN new : new[n] = [items[p[n]] EXCEPT !.order = n - 1]
    BY <1>1, Zenon
  <1>3. \A k \in DOMAIN items : items[k] \in T
    BY LenProperties
  <1>4. ASSUME NEW n \in DOMAIN new
        PROVE  new[n] \in T /\ new[n].id = items[p[n]].id /\ new[n].order = n - 1
    <2>1. items[p[n]] \in T /\ n - 1 \in Nat
      BY <1>1, <1>3
    <2>2. LET x == [items[p[n]] EXCEPT !.order = n - 1]
          IN  x \in T /\ x.id = items[p[n]].id /\ x.order = n - 1
      BY <2>1, Zenon DEF HasOrder
    <2> QED
      BY <1>2, <2>2, Zenon
  <1>5. new \in [1..m -> T]
    <2>1. new = [n \in 1..m |-> new[n]]
      BY <1>1, Zenon
    <2> QED
      BY <1>4, <2>1, Zenon
  <1>6. new \in Seq(T)
    BY <1>5
  <1>7. UniqueIds(new)
    <2> SUFFICES ASSUME NEW j \in DOMAIN new, NEW n \in DOMAIN new, new[j].id = new[n].id
                 PROVE  j = n
      BY DEF UniqueIds
    <2>1. items[p[j]].id = items[p[n]].id /\ p[j] \in DOMAIN items /\ p[n] \in DOMAIN items
      BY <1>1, <1>4
    <2>2. p[j] = p[n]
      BY <2>1 DEF UniqueIds
    <2> QED
      BY <1>1, <2>2
  <1>8. OrdersArePositions(new)
    BY <1>4 DEF OrdersArePositions
  <1>9. \A n \in DOMAIN new : \E k \in kept : new[n] = [items[k] EXCEPT !.order = n - 1]
    <2>1. \A n \in DOMAIN new : p[n] \in kept
      BY <1>1
    <2> QED
      BY <1>2, <2>1, Zenon
  <1>10. ASSUME NEW k \in kept
         PROVE  \E n \in DOMAIN new : new[n] = [items[k] EXCEPT !.order = n - 1]
    <2>1. PICK n \in DOMAIN new : p[n] = k
      BY <1>1
    <2>2. new[n] = [items[k] EXCEPT !.order = n - 1]
      BY <1>2, <2>1, Zenon
    <2> QED
      BY <2>2, Zenon
  <1>11. IdsOf(new) = {items[k].id : k \in kept}
    BY <1>1, <1>4 DEF IdsOf
  <1> QED
    BY <1>6, <1>7, <1>8, <1>9, <1>10, <1>11 DEF NumberedFrom

-----------------------------------------------------------------------------
(* The sections of a directory. *)

\* What the sections of every directory are.
Fits(S) ==
    /\ S \in Seq(Section) /\ UniqueIds(S)
    /\ \A k \in DOMAIN S :
          UniqueIds(S[k].sources) /\ OrdersArePositions(S[k].sources)

\* Section x has the source y.
HasSrc(S, x, y) == \E k \in DOMAIN S : S[k].id = x /\ y \in IdsOf(S[k].sources)

\* The fields of a source, and of a section.
LEMMA SourceFields ==
    ASSUME NEW x \in Source
    PROVE  x.id \in AllIds /\ x.order \in Nat /\ x.text \in Texts
BY DEF Source

\* Of a section.
LEMMA SectionFields ==
    ASSUME NEW x \in Section
    PROVE  x.id \in AllIds /\ x.order \in Nat /\ x.text \in Texts /\ x.sources \in Seq(Source)
BY DEF Section

\* Sources and sections can be renumbered.
LEMMA SourceHasOrder == HasOrder(Source)
BY DEF HasOrder, Source

\* Sections too.
LEMMA SectionHasOrder == HasOrder(Section)
BY DEF HasOrder, Section

\* The elements of a sequence of sections, and of their sources.
LEMMA InSections ==
    ASSUME NEW S \in Seq(Section)
    PROVE  /\ Len(S) \in Nat /\ DOMAIN S = 1..Len(S)
           /\ \A k \in DOMAIN S :
                 /\ S[k] \in Section /\ S[k].id \in AllIds /\ S[k].order \in Nat
                 /\ S[k].text \in Texts /\ S[k].sources \in Seq(Source)
  <1>1. Len(S) \in Nat /\ DOMAIN S = 1..Len(S) /\ \A k \in DOMAIN S : S[k] \in Section
    BY LenProperties, ElementOfSeq
  <1> QED
    BY <1>1, SectionFields

\* The elements of a sequence of sources.
LEMMA InSources ==
    ASSUME NEW X \in Seq(Source)
    PROVE  /\ Len(X) \in Nat /\ DOMAIN X = 1..Len(X)
           /\ \A k \in DOMAIN X :
                 X[k] \in Source /\ X[k].id \in AllIds /\ X[k].order \in Nat
                   /\ X[k].text \in Texts
  <1>1. Len(X) \in Nat /\ DOMAIN X = 1..Len(X) /\ \A k \in DOMAIN X : X[k] \in Source
    BY LenProperties, ElementOfSeq
  <1> QED
    BY <1>1, SourceFields

\* Sections and sources of one shape have the same ids and orders.
LEMMA ShapeTells ==
    ASSUME NEW S \in Seq(Section), NEW C \in Seq(Section), Shape(C) = Shape(S)
    PROVE  /\ DOMAIN C = DOMAIN S /\ Len(C) = Len(S)
           /\ \A k \in DOMAIN S :
                 /\ C[k].id = S[k].id /\ C[k].order = S[k].order
                 /\ DOMAIN C[k].sources = DOMAIN S[k].sources
                 /\ Len(C[k].sources) = Len(S[k].sources)
                 /\ \A n \in DOMAIN S[k].sources :
                       /\ C[k].sources[n].id = S[k].sources[n].id
                       /\ C[k].sources[n].order = S[k].sources[n].order
                 /\ IdsOf(C[k].sources) = IdsOf(S[k].sources)
           /\ IdsOf(C) = IdsOf(S)
           /\ \A x, y : HasSrc(C, x, y) <=> HasSrc(S, x, y)
  <1>1. DOMAIN C = DOMAIN S
    BY DEF Shape
  <1>2. Len(C) = Len(S)
    BY <1>1, LenProperties
  <1>3. ASSUME NEW k \in DOMAIN S
        PROVE  /\ C[k].id = S[k].id /\ C[k].order = S[k].order
               /\ Places(C[k].sources) = Places(S[k].sources)
    <2>1. Shape(C)[k] = Shape(S)[k]
      OBVIOUS
    <2>2. <<C[k].id, C[k].order, Places(C[k].sources)>>
            = <<S[k].id, S[k].order, Places(S[k].sources)>>
      BY <1>1, <2>1 DEF Shape
    <2> QED
      BY <2>2
  <1>4. ASSUME NEW k \in DOMAIN S
        PROVE  /\ DOMAIN C[k].sources = DOMAIN S[k].sources
               /\ Len(C[k].sources) = Len(S[k].sources)
               /\ \A n \in DOMAIN S[k].sources :
                     /\ C[k].sources[n].id = S[k].sources[n].id
                     /\ C[k].sources[n].order = S[k].sources[n].order
               /\ IdsOf(C[k].sources) = IdsOf(S[k].sources)
    <2> DEFINE X == C[k].sources
               Y == S[k].sources
    <2>1. X \in Seq(Source) /\ Y \in Seq(Source)
      BY <1>1, InSections
    <2>2. Places(X) = Places(Y)
      BY <1>3
    <2> HIDE DEF X, Y
    <2>3. DOMAIN X = DOMAIN Y
      BY <2>2 DEF Places
    <2>4. Len(X) = Len(Y)
      BY <2>1, <2>3, LenProperties
    <2>5. ASSUME NEW n \in DOMAIN Y PROVE X[n].id = Y[n].id /\ X[n].order = Y[n].order
      <3>1. Places(X)[n] = Places(Y)[n]
        BY <2>2
      <3> QED
        BY <2>3, <3>1 DEF Places
    <2>6. IdsOf(X) = IdsOf(Y)
      BY <2>3, <2>5 DEF IdsOf
    <2> QED
      BY <2>3, <2>4, <2>5, <2>6 DEF X, Y
  <1>5. IdsOf(C) = IdsOf(S)
    BY <1>1, <1>3 DEF IdsOf
  <1>6. ASSUME NEW x, NEW y PROVE HasSrc(C, x, y) <=> HasSrc(S, x, y)
    BY <1>1, <1>3, <1>4 DEF HasSrc
  <1> QED
    BY <1>1, <1>2, <1>3, <1>4, <1>5, <1>6

\* A change of one section leaves the others where they are.
LEMMA OneSectionChanged ==
    ASSUME NEW S \in Seq(Section), NEW k \in DOMAIN S, NEW e \in Section
    PROVE  LET new == [S EXCEPT ![k] = e] IN
           /\ new \in Seq(Section) /\ DOMAIN new = DOMAIN S
           /\ new[k] = e
           /\ \A j \in DOMAIN S : j # k => new[j] = S[j]
  <1>1. k \in 1..Len(S) /\ DOMAIN S = 1..Len(S)
    BY LenProperties
  <1> QED
    BY <1>1, ExceptSeq, LenProperties

\* The section whose sources are replaced.
WithSources(S, k, X, new) ==
    /\ Fits(new) /\ IdsOf(new) = IdsOf(S)
    /\ OrdersArePositions(S) => OrdersArePositions(new)
    /\ \A x, y : HasSrc(new, x, y) <=>
          IF x = S[k].id THEN y \in IdsOf(X) ELSE HasSrc(S, x, y)

\* The other sections keep their sources.
LEMMA SourcesReplaced ==
    ASSUME NEW S, Fits(S), NEW k \in DOMAIN S, NEW X \in Seq(Source),
           UniqueIds(X), OrdersArePositions(X),
           NEW new, new = [S EXCEPT ![k].sources = X]
    PROVE  WithSources(S, k, X, new)
  <1> DEFINE e == [S[k] EXCEPT !.sources = X]
  <1>1. S[k] \in Section
    BY InSections DEF Fits
  <1>2. e \in Section /\ e.id = S[k].id /\ e.order = S[k].order /\ e.sources = X
    BY <1>1 DEF Section
  <1>3. new = [S EXCEPT ![k] = e]
    OBVIOUS
  <1> HIDE DEF e
  <1>4. /\ new \in Seq(Section) /\ DOMAIN new = DOMAIN S /\ new[k] = e
        /\ \A j \in DOMAIN S : j # k => new[j] = S[j]
    <2>1. S \in Seq(Section)
      BY DEF Fits
    <2> QED
      BY <1>2, <1>3, <2>1, OneSectionChanged
  <1>5. \A j \in DOMAIN S : new[j].id = S[j].id /\ new[j].order = S[j].order
    BY <1>2, <1>4
  <1>6. UniqueIds(new) /\ IdsOf(new) = IdsOf(S)
    BY <1>4, <1>5 DEF UniqueIds, IdsOf, Fits
  <1>7. Fits(new)
    <2> SUFFICES ASSUME NEW j \in DOMAIN S
                 PROVE  UniqueIds(new[j].sources) /\ OrdersArePositions(new[j].sources)
      BY <1>4, <1>6 DEF Fits
    <2> QED
      BY <1>2, <1>4 DEF Fits
  <1>8. OrdersArePositions(S) => OrdersArePositions(new)
    BY <1>4, <1>5 DEF OrdersArePositions
  <1>9. ASSUME NEW x, NEW y
        PROVE  HasSrc(new, x, y) <=> IF x = S[k].id THEN y \in IdsOf(X) ELSE HasSrc(S, x, y)
    <2>1. CASE x = S[k].id
      <3>1. \A j \in DOMAIN S : new[j].id = x => j = k
        BY <1>5, <2>1 DEF Fits, UniqueIds
      <3> QED
        BY <1>2, <1>4, <2>1, <3>1 DEF HasSrc
    <2>2. CASE x # S[k].id
      <3>1. \A j \in DOMAIN S : new[j].id = x => j # k /\ new[j] = S[j]
        BY <1>2, <1>4, <2>2
      <3>2. \A j \in DOMAIN S : S[j].id = x => j # k /\ new[j] = S[j]
        BY <1>4, <2>2
      <3> QED
        BY <1>4, <2>2, <3>1, <3>2 DEF HasSrc
    <2> QED
      BY <2>1, <2>2
  <1> QED
    BY <1>6, <1>7, <1>8, <1>9 DEF WithSources

\* The section, or the source of a section, whose text is replaced.
SectionTextWritten(S, k, t, new) ==
    /\ Fits(new) /\ Shape(new) = Shape(S) /\ DOMAIN new = DOMAIN S
    /\ new[k].text = t /\ new[k].sources = S[k].sources
    /\ \A j \in DOMAIN S : j # k => new[j] = S[j]

\* The text of a section is the only thing that changes.
LEMMA SectionTextReplaced ==
    ASSUME NEW S, Fits(S), NEW k \in DOMAIN S, NEW t \in Texts,
           NEW new, new = [S EXCEPT ![k].text = t]
    PROVE  SectionTextWritten(S, k, t, new)
  <1> DEFINE e == [S[k] EXCEPT !.text = t]
  <1>1. S[k] \in Section
    BY InSections DEF Fits
  <1>2. /\ e \in Section /\ e.id = S[k].id /\ e.order = S[k].order
        /\ e.sources = S[k].sources /\ e.text = t
    BY <1>1 DEF Section
  <1>3. new = [S EXCEPT ![k] = e]
    OBVIOUS
  <1> HIDE DEF e
  <1>4. /\ new \in Seq(Section) /\ DOMAIN new = DOMAIN S /\ new[k] = e
        /\ \A j \in DOMAIN S : j # k => new[j] = S[j]
    <2>1. S \in Seq(Section)
      BY DEF Fits
    <2>2. e \in Section
      BY <1>2
    <2> QED
      BY <1>3, <2>1, <2>2, OneSectionChanged
  <1>5. \A j \in DOMAIN S :
            new[j].id = S[j].id /\ new[j].order = S[j].order /\ new[j].sources = S[j].sources
    BY <1>2, <1>4
  <1>6. Fits(new)
    BY <1>4, <1>5 DEF Fits, UniqueIds
  <1>7. Shape(new) = Shape(S)
    BY <1>4, <1>5 DEF Shape
  <1> QED
    BY <1>2, <1>4, <1>6, <1>7 DEF SectionTextWritten

SourceTextWritten(S, k, n, t, new) ==
    /\ Fits(new) /\ Shape(new) = Shape(S) /\ DOMAIN new = DOMAIN S
    /\ new[k].sources[n].text = t
    /\ \A j \in DOMAIN S : new[j].text = S[j].text
    /\ \A j \in DOMAIN S : j # k => new[j] = S[j]
    /\ \A m \in DOMAIN S[k].sources : m # n => new[k].sources[m] = S[k].sources[m]

\* So is the text of a source.
LEMMA SourceTextReplaced ==
    ASSUME NEW S, Fits(S), NEW k \in DOMAIN S, NEW n \in DOMAIN S[k].sources,
           NEW t \in Texts, NEW new, new = [S EXCEPT ![k].sources[n].text = t]
    PROVE  SourceTextWritten(S, k, n, t, new)
  <1> DEFINE old == S[k].sources
             X == [old EXCEPT ![n].text = t]
             f == [old[n] EXCEPT !.text = t]
             e == [S[k] EXCEPT !.sources = X]
  <1>1. S[k] \in Section /\ old \in Seq(Source) /\ DOMAIN old = 1..Len(old)
    BY InSections, LenProperties DEF Fits
  <1>2. f \in Source /\ f.id = old[n].id /\ f.order = old[n].order /\ f.text = t
    <2>1. old[n] \in Source
      BY <1>1, InSources
    <2> QED
      BY <2>1 DEF Source
  <1>3. X = [old EXCEPT ![n] = f]
    OBVIOUS
  <1>4. /\ X \in Seq(Source) /\ DOMAIN X = DOMAIN old /\ X[n] = f
        /\ \A m \in DOMAIN old : m # n => X[m] = old[m]
    <2> HIDE DEF f, X, old
    <2>1. n \in 1..Len(old)
      BY <1>1 DEF old
    <2>2. X \in Seq(Source) /\ \A m \in 1..Len(old) : X[m] = IF m = n THEN f ELSE old[m]
      BY <1>1, <1>2, <1>3, <2>1, ExceptSeq
    <2>3. DOMAIN X = DOMAIN old
      BY <1>3
    <2> QED
      BY <1>1, <2>1, <2>2, <2>3
  <1>5. new = [S EXCEPT ![k] = e]
    OBVIOUS
  <1> HIDE DEF X, f
  <1>6. e \in Section /\ e.id = S[k].id /\ e.order = S[k].order /\ e.text = S[k].text
          /\ e.sources = X
    BY <1>1, <1>4 DEF Section
  <1> HIDE DEF e
  <1>7. /\ new \in Seq(Section) /\ DOMAIN new = DOMAIN S /\ new[k] = e
        /\ \A j \in DOMAIN S : j # k => new[j] = S[j]
    <2>1. S \in Seq(Section)
      BY DEF Fits
    <2>2. e \in Section
      BY <1>6
    <2>3. LET y == [S EXCEPT ![k] = e] IN
          /\ y \in Seq(Section) /\ DOMAIN y = DOMAIN S /\ y[k] = e
          /\ \A j \in DOMAIN S : j # k => y[j] = S[j]
      BY <2>1, <2>2, OneSectionChanged
    <2> QED
      BY <1>5, <2>3, Zenon
  <1>8. \A m \in DOMAIN old : X[m].id = old[m].id /\ X[m].order = old[m].order
    BY <1>2, <1>4
  <1>9. Places(X) = Places(old)
    BY <1>4, <1>8 DEF Places
  <1>10. \A j \in DOMAIN S :
             /\ new[j].id = S[j].id /\ new[j].order = S[j].order /\ new[j].text = S[j].text
             /\ Places(new[j].sources) = Places(S[j].sources)
    BY <1>6, <1>7, <1>9
  <1>11. Shape(new) = Shape(S)
    <2>1. Shape(new) = [j \in DOMAIN S |-> <<new[j].id, new[j].order, Places(new[j].sources)>>]
      BY <1>7 DEF Shape
    <2> QED
      BY <1>10, <2>1 DEF Shape
  <1>12. UniqueIds(X) /\ OrdersArePositions(X)
    <2>1. UniqueIds(old) /\ OrdersArePositions(old)
      BY DEF Fits
    <2> QED
      BY <1>4, <1>8, <2>1 DEF UniqueIds, OrdersArePositions
  <1>13. Fits(new)
    <2>1. UniqueIds(new)
      BY <1>7, <1>10 DEF UniqueIds, Fits
    <2>2. \A j \in DOMAIN S : UniqueIds(new[j].sources) /\ OrdersArePositions(new[j].sources)
      BY <1>6, <1>7, <1>12 DEF Fits
    <2> QED
      BY <1>7, <2>1, <2>2 DEF Fits
  <1>14. new[k].sources = X /\ X[n].text = t
    BY <1>2, <1>4, <1>6, <1>7
  <1> QED
    BY <1>4, <1>7, <1>10, <1>11, <1>13, <1>14 DEF SourceTextWritten

\* A section that is pushed.
LEMMA SectionPushed ==
    ASSUME NEW S, Fits(S), NEW e \in Section, e.id \notin IdsOf(S),
           UniqueIds(e.sources), OrdersArePositions(e.sources),
           NEW new, new = Append(S, e)
    PROVE  /\ Fits(new) /\ IdsOf(new) = IdsOf(S) \cup {e.id}
           /\ OrdersArePositions(S) /\ e.order = Len(S) => OrdersArePositions(new)
           /\ \A x, y : HasSrc(new, x, y) <=>
                 HasSrc(S, x, y) \/ (x = e.id /\ y \in IdsOf(e.sources))
  <1>1. S \in Seq(Section) /\ Len(S) \in Nat /\ DOMAIN S = 1..Len(S)
    BY InSections DEF Fits
  <1>2. /\ new \in Seq(Section) /\ DOMAIN new = 1..(Len(S) + 1)
        /\ new[Len(S) + 1] = e /\ \A k \in 1..Len(S) : new[k] = S[k]
    BY <1>1, AppendProperties, LenProperties
  <1>3. \A k \in DOMAIN new : k \in DOMAIN S \/ k = Len(S) + 1
    BY <1>1, <1>2
  <1>4. DOMAIN S \subseteq DOMAIN new /\ Len(S) + 1 \in DOMAIN new
    BY <1>1, <1>2
  <1>5. \A k \in DOMAIN S : S[k].id # e.id
    BY DEF IdsOf
  <1>6. UniqueIds(new)
    <2> SUFFICES ASSUME NEW j \in DOMAIN new, NEW k \in DOMAIN new, new[j].id = new[k].id
                 PROVE  j = k
      BY DEF UniqueIds
    <2>1. UniqueIds(S)
      BY DEF Fits
    <2>2. CASE j \in DOMAIN S /\ k \in DOMAIN S
      BY <1>1, <1>2, <2>1, <2>2 DEF UniqueIds
    <2> QED
      BY <1>1, <1>2, <1>3, <1>5, <2>2
  <1>7. \A k \in DOMAIN new : UniqueIds(new[k].sources) /\ OrdersArePositions(new[k].sources)
    BY <1>1, <1>2, <1>3 DEF Fits
  <1>8. Fits(new)
    BY <1>2, <1>6, <1>7 DEF Fits
  <1>9. IdsOf(new) = IdsOf(S) \cup {e.id}
    BY <1>1, <1>2, <1>3, <1>4 DEF IdsOf
  <1>10. OrdersArePositions(S) /\ e.order = Len(S) => OrdersArePositions(new)
    BY <1>1, <1>2, <1>3 DEF OrdersArePositions
  <1>11. ASSUME NEW x, NEW y
         PROVE  HasSrc(new, x, y) <=>
                  HasSrc(S, x, y) \/ (x = e.id /\ y \in IdsOf(e.sources))
    BY <1>1, <1>2, <1>3, <1>4 DEF HasSrc
  <1> QED
    BY <1>8, <1>9, <1>10, <1>11

\* Sections that are renumbered.
LEMMA SectionsRenumbered ==
    ASSUME NEW S, Fits(S), NEW kept \in SUBSET DOMAIN S, NEW new,
           NEW m \in Nat, DOMAIN new = 1..m, Renumbers(S, kept, new)
    PROVE  /\ Fits(new) /\ OrdersArePositions(new)
           /\ IdsOf(new) = {S[k].id : k \in kept}
           /\ \A x, y : HasSrc(new, x, y) <=>
                 \E k \in kept : S[k].id = x /\ y \in IdsOf(S[k].sources)
  <1>1. /\ new \in Seq(Section) /\ UniqueIds(new) /\ OrdersArePositions(new)
        /\ \A n \in DOMAIN new : \E k \in kept : new[n] = [S[k] EXCEPT !.order = n - 1]
        /\ \A k \in kept : \E n \in DOMAIN new : new[n] = [S[k] EXCEPT !.order = n - 1]
        /\ IdsOf(new) = {S[k].id : k \in kept}
    <2>1. S \in Seq(Section) /\ UniqueIds(S)
      BY DEF Fits
    <2>2. new \in Seq(Section) /\ NumberedFrom(S, kept, new)
      BY <2>1, SectionHasOrder, RenumberedItems
    <2> QED
      BY <2>2, Zenon DEF NumberedFrom
  <1>2. \A k \in kept : S[k] \in Section
    BY InSections DEF Fits
  <1>3. ASSUME NEW n \in DOMAIN new
        PROVE  \E k \in kept : new[n].id = S[k].id /\ new[n].sources = S[k].sources
    <2>1. PICK k \in kept : new[n] = [S[k] EXCEPT !.order = n - 1]
      BY <1>1
    <2> QED
      BY <1>2, <2>1 DEF Section
  <1>4. ASSUME NEW k \in kept
        PROVE  \E n \in DOMAIN new : new[n].id = S[k].id /\ new[n].sources = S[k].sources
    <2>1. PICK n \in DOMAIN new : new[n] = [S[k] EXCEPT !.order = n - 1]
      BY <1>1
    <2> QED
      BY <1>2, <2>1 DEF Section
  <1>5. \A n \in DOMAIN new : UniqueIds(new[n].sources) /\ OrdersArePositions(new[n].sources)
    BY <1>3 DEF Fits
  <1>6. ASSUME NEW x, NEW y
        PROVE  HasSrc(new, x, y) <=> \E k \in kept : S[k].id = x /\ y \in IdsOf(S[k].sources)
    BY <1>3, <1>4 DEF HasSrc
  <1> QED
    BY <1>1, <1>5, <1>6 DEF Fits

-----------------------------------------------------------------------------
(* What a save makes of the stored sections, for each kind of request. *)

\* A request that is about to save, and the sections that are stored.
Ready(r, S) ==
    /\ pc[r] = "save" /\ JobFits(job[r]) /\ Loaded(r) /\ Fits(S)
    /\ r \notin IdsOf(S) /\ \A x : ~HasSrc(S, x, r)
    /\ Checks(r) => Shape(copy[r].sections) = Shape(S)

\* What it leaves: all but what it removes, and nothing else than what it adds.
SavesWell(r, S, new) ==
    /\ Fits(new)
    /\ OrdersArePositions(S) =>
          \/ OrdersArePositions(new)
          \/ job[r].kind = "createSection" /\ Len(copy[r].sections) # Len(S)
    /\ \A x \in IdsOf(S) :
          x \in IdsOf(new) \/ (job[r].kind = "removeSection" /\ x = job[r].section)
    /\ \A x, y : HasSrc(S, x, y) =>
          \/ HasSrc(new, x, y)
          \/ job[r].kind = "removeSection" /\ x = job[r].section
          \/ job[r].kind = "removeSource" /\ x = job[r].section /\ y = job[r].source
    /\ \A x \in IdsOf(new) :
          x \in IdsOf(S) \/ (job[r].kind = "createSection" /\ x = r)
    /\ \A x, y : HasSrc(new, x, y) =>
          \/ HasSrc(S, x, y)
          \/ job[r].kind \in {"createSection", "createSource"} /\ y = r
    /\ ~Increments(r) => Shape(new) = Shape(S)

\* The copy, and the section and the source that are edited in it.
LEMMA CopyFits ==
    ASSUME NEW r \in Requests, Loaded(r)
    PROVE  /\ Fits(copy[r].sections)
           /\ job[r].kind \in SectionKinds \cup SourceKinds =>
                 LET k == Find(copy[r].sections, job[r].section) IN
                 /\ k \in DOMAIN copy[r].sections
                 /\ copy[r].sections[k].id = job[r].section
                 /\ SectionOf(r, copy[r]) = copy[r].sections[k]
  <1>1. Fits(copy[r].sections)
    BY DEF Loaded, Fits, WellFormed, Directory
  <1>2. ASSUME job[r].kind \in SectionKinds \cup SourceKinds
        PROVE  job[r].section \in IdsOf(copy[r].sections)
    BY <1>2 DEF Loaded
  <1> QED
    BY <1>1, <1>2, FindsItem DEF SectionOf

\* The section that is edited, where it is stored.
LEMMA EditedSection ==
    ASSUME NEW r \in Requests, NEW S, Ready(r, S), Changed(r),
           job[r].kind \in (SectionKinds \cup SourceKinds) \ {"removeSection"}
    PROVE  LET C == copy[r].sections
               k == Find(C, job[r].section)
           IN  /\ Fits(C) /\ Fits(S) /\ k \in DOMAIN S /\ k \in DOMAIN C
               /\ S[k].id = job[r].section /\ C[k].id = job[r].section
               /\ SectionOf(r, copy[r]) = C[k]
               /\ S[k].sources \in Seq(Source) /\ C[k].sources \in Seq(Source)
               /\ Len(S[k].sources) = Len(C[k].sources)
               /\ DOMAIN S[k].sources = DOMAIN C[k].sources
               /\ \A n \in DOMAIN S[k].sources : S[k].sources[n].id = C[k].sources[n].id
               /\ IdsOf(S[k].sources) = IdsOf(C[k].sources)
               /\ UniqueIds(S[k].sources) /\ OrdersArePositions(S[k].sources)
               /\ UniqueIds(C[k].sources) /\ OrdersArePositions(C[k].sources)
  <1> DEFINE C == copy[r].sections
             k == Find(C, job[r].section)
  <1>1. Fits(S) /\ Loaded(r)
    BY DEF Ready
  <1>2. /\ Fits(C) /\ k \in DOMAIN C /\ C[k].id = job[r].section
        /\ SectionOf(r, copy[r]) = C[k]
    BY <1>1, CopyFits
  <1>3. Shape(C) = Shape(S)
    BY DEF Ready, Checks, SectionKinds, SourceKinds
  <1> HIDE DEF C, k
  <1>4. S \in Seq(Section) /\ C \in Seq(Section)
    BY <1>1, <1>2 DEF Fits
  <1>5. /\ k \in DOMAIN S /\ C[k].id = S[k].id
        /\ DOMAIN C[k].sources = DOMAIN S[k].sources
        /\ Len(C[k].sources) = Len(S[k].sources)
        /\ \A n \in DOMAIN S[k].sources : C[k].sources[n].id = S[k].sources[n].id
        /\ IdsOf(C[k].sources) = IdsOf(S[k].sources)
    BY <1>2, <1>3, <1>4, ShapeTells
  <1>6. S[k].sources \in Seq(Source) /\ C[k].sources \in Seq(Source)
    BY <1>2, <1>4, <1>5, InSections
  <1>7. /\ UniqueIds(S[k].sources) /\ OrdersArePositions(S[k].sources)
        /\ UniqueIds(C[k].sources) /\ OrdersArePositions(C[k].sources)
    BY <1>1, <1>2, <1>5 DEF Fits
  <1> QED
    BY <1>1, <1>2, <1>5, <1>6, <1>7 DEF C, k

\* The last element of an array is the one that was pushed.
LEMMA LastPushed ==
    ASSUME NEW T, NEW s \in Seq(T), NEW e
    PROVE  Last(Append(s, e)) = e
BY DEF Last

\* A push of a section; its order may be stale.
LEMMA CreateSectionSaves ==
    ASSUME NEW r \in Requests, NEW S, Ready(r, S), Changed(r),
           job[r].kind = "createSection"
    PROVE  SavesWell(r, S, Written(r, S))
  <1> DEFINE C == copy[r].sections
             e == NewSection(r, Len(C))
             sources == IF job[r].withSource THEN <<NewSource(r, 0)>> ELSE <<>>
             new == Written(r, S)
  <1>1. Fits(S) /\ Fits(C)
    BY CopyFits DEF Ready
  <1>2. C \in Seq(Section) /\ Len(C) \in Nat
    BY <1>1, InSections DEF Fits
  <1>3. new = Append(S, Last(Append(C, e)))
    BY DEF Written, EditedSections
  <1>4. Last(Append(C, e)) = e
    <2> HIDE DEF e, C
    <2> QED
      BY <1>2, LastPushed
  <1>5. job[r].text \in Texts /\ r \in AllIds
    BY DEF Ready, JobFits, AllIds
  <1>6. e = [id |-> r, order |-> Len(C), text |-> job[r].text, sources |-> sources]
    BY DEF NewSection
  <1>7. NewSource(r, 0) \in Source /\ NewSource(r, 0).id = r /\ NewSource(r, 0).order = 0
    BY <1>5 DEF NewSource, Source
  <1>8. /\ sources \in Seq(Source) /\ UniqueIds(sources) /\ OrdersArePositions(sources)
        /\ IdsOf(sources) \subseteq {r}
    <2> HIDE DEF C, e, new
    <2>1. CASE job[r].withSource
      <3>1. sources = <<NewSource(r, 0)>>
        BY <2>1
      <3> HIDE DEF sources
      <3> QED
        BY <1>7, <3>1 DEF UniqueIds, OrdersArePositions, IdsOf
    <2>2. CASE ~job[r].withSource
      <3>1. sources = <<>>
        BY <2>2
      <3> HIDE DEF sources
      <3> QED
        BY <3>1 DEF UniqueIds, OrdersArePositions, IdsOf
    <2> QED
      BY <2>1, <2>2
  <1> HIDE DEF sources
  <1>9. e \in Section /\ e.id = r /\ e.sources = sources /\ e.order = Len(C)
    BY <1>2, <1>5, <1>6, <1>8 DEF Section
  <1> HIDE DEF e, new
  <1>10. e.id \notin IdsOf(S)
    BY <1>9 DEF Ready
  <1>11. /\ Fits(new) /\ IdsOf(new) = IdsOf(S) \cup {e.id}
         /\ OrdersArePositions(S) /\ e.order = Len(S) => OrdersArePositions(new)
         /\ \A x, y : HasSrc(new, x, y) <=>
               HasSrc(S, x, y) \/ (x = e.id /\ y \in IdsOf(e.sources))
    <2>1. UniqueIds(e.sources) /\ OrdersArePositions(e.sources) /\ e \in Section
      BY <1>8, <1>9
    <2>2. Fits(S) /\ new = Append(S, e)
      BY <1>1, <1>3, <1>4
    <2> QED
      BY <1>10, <2>1, <2>2, SectionPushed
  <1>12. Increments(r)
    BY DEF Increments
  <1>13. OrdersArePositions(S) => OrdersArePositions(new) \/ Len(C) # Len(S)
    BY <1>9, <1>11
  <1>14. SavesWell(r, S, new)
    BY <1>8, <1>9, <1>11, <1>12, <1>13 DEF SavesWell
  <1> QED
    BY <1>14 DEF new

\* Whole arrays of sections.
LEMMA RemoveSectionSaves ==
    ASSUME NEW r \in Requests, NEW S, Ready(r, S), Changed(r),
           job[r].kind = "removeSection"
    PROVE  SavesWell(r, S, Written(r, S))
  <1> DEFINE C == copy[r].sections
             kept == Without(C, job[r].section)
             new == Written(r, S)
  <1>1. Fits(S) /\ Fits(C) /\ Shape(C) = Shape(S)
    BY CopyFits DEF Ready, Checks
  <1>2. new = Reindexed(C, kept)
    BY DEF Written, EditedSections
  <1>3. kept \in SUBSET DOMAIN C /\ \A k \in DOMAIN C : k \in kept <=> C[k].id # job[r].section
    BY DEF Without
  <1> HIDE DEF C, kept, new
  <1>4. S \in Seq(Section) /\ C \in Seq(Section) /\ \A k \in DOMAIN C : C[k].order \in Nat
    BY <1>1, InSections DEF Fits
  <1>5. Renumbers(C, kept, new) /\ \E m \in Nat : DOMAIN new = 1..m
    BY <1>2, <1>3, <1>4, ReindexedRenumbers
  <1>6. /\ Fits(new) /\ OrdersArePositions(new)
        /\ IdsOf(new) = {C[k].id : k \in kept}
        /\ \A x, y : HasSrc(new, x, y) <=>
              \E k \in kept : C[k].id = x /\ y \in IdsOf(C[k].sources)
    BY <1>1, <1>3, <1>5, SectionsRenumbered
  <1>7. IdsOf(C) = IdsOf(S) /\ \A x, y : HasSrc(C, x, y) <=> HasSrc(S, x, y)
    BY <1>1, <1>4, ShapeTells
  <1>8. \A x : x \in IdsOf(new) <=> x \in IdsOf(S) /\ x # job[r].section
    <2>1. IdsOf(S) = {C[k].id : k \in DOMAIN C}
      BY <1>7 DEF IdsOf
    <2> QED
      BY <1>3, <1>6, <2>1
  <1>9. ASSUME NEW x, NEW y
        PROVE  HasSrc(new, x, y) <=> HasSrc(S, x, y) /\ x # job[r].section
    <2>1. HasSrc(C, x, y) <=> HasSrc(S, x, y)
      BY <1>7
    <2>2. HasSrc(new, x, y) <=> \E k \in kept : C[k].id = x /\ y \in IdsOf(C[k].sources)
      BY <1>6
    <2> QED
      BY <1>3, <2>1, <2>2 DEF HasSrc
  <1>10. Increments(r)
    BY DEF Increments
  <1>11. SavesWell(r, S, new)
    BY <1>6, <1>8, <1>9, <1>10 DEF SavesWell
  <1> QED
    BY <1>11 DEF new

\* A reorder of sections writes those it read, in the order asked for.
LEMMA ReorderSectionsSaves ==
    ASSUME NEW r \in Requests, NEW S, Ready(r, S), Changed(r),
           job[r].kind = "reorderSections"
    PROVE  SavesWell(r, S, Written(r, S))
  <1> DEFINE C == copy[r].sections
             ids == job[r].ids
             new == Written(r, S)
  <1>1. Fits(S) /\ Fits(C) /\ Shape(C) = Shape(S)
    BY CopyFits DEF Ready, Checks
  <1>2. new = Reordered(C, ids)
    BY DEF Written, EditedSections
  <1>3. ids \in Seq(AllIds) /\ ExactIdSet(IdSeq(C), ids)
    BY DEF Ready, JobFits, Loaded
  <1> HIDE DEF C, ids, new
  <1>4. S \in Seq(Section) /\ C \in Seq(Section) /\ UniqueIds(C)
    BY <1>1 DEF Fits
  <1>5. Renumbers(C, DOMAIN C, new) /\ \E m \in Nat : DOMAIN new = 1..m
    BY <1>2, <1>3, <1>4, ReorderedRenumbers
  <1>6. /\ Fits(new) /\ OrdersArePositions(new)
        /\ IdsOf(new) = {C[k].id : k \in DOMAIN C}
        /\ \A x, y : HasSrc(new, x, y) <=>
              \E k \in DOMAIN C : C[k].id = x /\ y \in IdsOf(C[k].sources)
    BY <1>1, <1>5, SectionsRenumbered
  <1>7. IdsOf(C) = IdsOf(S) /\ \A x, y : HasSrc(C, x, y) <=> HasSrc(S, x, y)
    BY <1>1, <1>4, ShapeTells
  <1>8. IdsOf(new) = IdsOf(S)
    BY <1>6, <1>7 DEF IdsOf
  <1>9. \A x, y : HasSrc(new, x, y) <=> HasSrc(S, x, y)
    BY <1>6, <1>7 DEF HasSrc
  <1>10. Increments(r)
    BY DEF Increments
  <1>11. SavesWell(r, S, new)
    BY <1>6, <1>8, <1>9, <1>10 DEF SavesWell
  <1> QED
    BY <1>11 DEF new

\* The sources of one section.
LEMMA SourcesSaves ==
    ASSUME NEW r \in Requests, NEW S, Ready(r, S), Increments(r),
           job[r].kind \in {"createSource", "removeSource", "reorderSources"},
           NEW k \in DOMAIN S, S[k].id = job[r].section,
           NEW X \in Seq(Source), UniqueIds(X), OrdersArePositions(X),
           \A y \in IdsOf(S[k].sources) :
               y \in IdsOf(X) \/ (job[r].kind = "removeSource" /\ y = job[r].source),
           \A y \in IdsOf(X) :
               y \in IdsOf(S[k].sources) \/ (job[r].kind = "createSource" /\ y = r),
           NEW new, new = [S EXCEPT ![k].sources = X]
    PROVE  SavesWell(r, S, new)
  <1>1. Fits(S)
    BY DEF Ready
  <1>2. /\ Fits(new) /\ IdsOf(new) = IdsOf(S)
        /\ OrdersArePositions(S) => OrdersArePositions(new)
        /\ \A x, y : HasSrc(new, x, y) <=>
              IF x = S[k].id THEN y \in IdsOf(X) ELSE HasSrc(S, x, y)
    <2>1. WithSources(S, k, X, new)
      BY <1>1, SourcesReplaced
    <2> QED
      BY <2>1 DEF WithSources
  <1>3. \A y : HasSrc(S, S[k].id, y) <=> y \in IdsOf(S[k].sources)
    BY <1>1 DEF Fits, UniqueIds, HasSrc
  <1>4. ASSUME NEW x, NEW y, HasSrc(S, x, y)
        PROVE  \/ HasSrc(new, x, y)
               \/ job[r].kind = "removeSource" /\ x = job[r].section /\ y = job[r].source
    <2>1. CASE x = S[k].id
      <3>1. y \in IdsOf(S[k].sources)
        BY <1>3, <1>4, <2>1
      <3> QED
        BY <1>2, <2>1, <3>1
    <2>2. CASE x # S[k].id
      BY <1>2, <1>4, <2>2
    <2> QED
      BY <2>1, <2>2
  <1>5. ASSUME NEW x, NEW y, HasSrc(new, x, y)
        PROVE  HasSrc(S, x, y) \/ (job[r].kind = "createSource" /\ y = r)
    <2>1. CASE x = S[k].id
      <3>1. y \in IdsOf(X)
        BY <1>2, <1>5, <2>1
      <3>2. y \in IdsOf(S[k].sources) => HasSrc(S, x, y)
        BY <1>3, <2>1
      <3> QED
        BY <3>1, <3>2
    <2>2. CASE x # S[k].id
      BY <1>2, <1>5, <2>2
    <2> QED
      BY <2>1, <2>2
  <1>6. /\ \A x \in IdsOf(S) : x \in IdsOf(new)
        /\ \A x \in IdsOf(new) : x \in IdsOf(S)
    BY <1>2
  <1>7. \A x, y : HasSrc(S, x, y) =>
            \/ HasSrc(new, x, y)
            \/ job[r].kind = "removeSection" /\ x = job[r].section
            \/ job[r].kind = "removeSource" /\ x = job[r].section /\ y = job[r].source
    BY <1>4
  <1>8. \A x, y : HasSrc(new, x, y) =>
            \/ HasSrc(S, x, y)
            \/ job[r].kind \in {"createSection", "createSource"} /\ y = r
    BY <1>5
  <1>9. Fits(new) /\ (OrdersArePositions(S) => OrdersArePositions(new))
    BY <1>2
  <1> QED
    BY <1>6, <1>7, <1>8, <1>9, Zenon DEF SavesWell

\* A source that is pushed.
LEMMA SourcePushed ==
    ASSUME NEW Y \in Seq(Source), UniqueIds(Y), OrdersArePositions(Y),
           NEW e \in Source, e.id \notin IdsOf(Y), e.order = Len(Y),
           NEW new, new = Append(Y, e)
    PROVE  /\ new \in Seq(Source) /\ UniqueIds(new) /\ OrdersArePositions(new)
           /\ IdsOf(new) = IdsOf(Y) \cup {e.id}
  <1>1. Len(Y) \in Nat /\ DOMAIN Y = 1..Len(Y)
    BY InSources
  <1>2. /\ new \in Seq(Source) /\ DOMAIN new = 1..(Len(Y) + 1)
        /\ new[Len(Y) + 1] = e /\ \A k \in 1..Len(Y) : new[k] = Y[k]
    BY <1>1, AppendProperties, LenProperties
  <1>3. \A k \in DOMAIN new : k \in DOMAIN Y \/ k = Len(Y) + 1
    BY <1>1, <1>2
  <1>4. DOMAIN Y \subseteq DOMAIN new /\ Len(Y) + 1 \in DOMAIN new
    BY <1>1, <1>2
  <1>5. \A k \in DOMAIN Y : Y[k].id # e.id
    BY DEF IdsOf
  <1>6. UniqueIds(new)
    <2> SUFFICES ASSUME NEW j \in DOMAIN new, NEW k \in DOMAIN new, new[j].id = new[k].id
                 PROVE  j = k
      BY DEF UniqueIds
    <2>1. CASE j \in DOMAIN Y /\ k \in DOMAIN Y
      BY <1>1, <1>2, <2>1 DEF UniqueIds
    <2> QED
      BY <1>1, <1>2, <1>3, <1>5, <2>1
  <1>7. OrdersArePositions(new)
    BY <1>1, <1>2, <1>3 DEF OrdersArePositions
  <1>8. IdsOf(new) = IdsOf(Y) \cup {e.id}
    BY <1>1, <1>2, <1>3, <1>4 DEF IdsOf
  <1> QED
    BY <1>2, <1>6, <1>7, <1>8

\* A push of a source, whose order was computed from the copy.
LEMMA CreateSourceSaves ==
    ASSUME NEW r \in Requests, NEW S, Ready(r, S), Changed(r),
           job[r].kind = "createSource"
    PROVE  SavesWell(r, S, Written(r, S))
  <1> DEFINE C == copy[r].sections
             k == Find(C, job[r].section)
             X == C[k].sources
             Y == S[k].sources
             e == NewSource(r, Len(X))
             new == Written(r, S)
             pushed == Append(Y, e)
  <1>1. /\ Fits(C) /\ Fits(S) /\ k \in DOMAIN S /\ k \in DOMAIN C
        /\ S[k].id = job[r].section /\ SectionOf(r, copy[r]) = C[k]
        /\ Y \in Seq(Source) /\ X \in Seq(Source) /\ Len(Y) = Len(X)
        /\ UniqueIds(Y) /\ OrdersArePositions(Y)
    BY EditedSection DEF SectionKinds, SourceKinds
  <1>2. EditedSources(r) = Append(X, e)
    BY <1>1 DEF EditedSources
  <1>3. new = [S EXCEPT ![k].sources = Append(Y, Last(EditedSources(r)))]
    BY DEF Written
  <1>4. job[r].text \in Texts /\ r \in AllIds
    BY DEF Ready, JobFits, AllIds
  <1>5. Len(X) \in Nat
    <2> HIDE DEF X
    <2> QED
      BY <1>1, InSources
  <1>6. e \in Source /\ e.id = r /\ e.order = Len(X)
    BY <1>4, <1>5 DEF NewSource, Source
  <1>7. Last(EditedSources(r)) = e
    <2> HIDE DEF e, X
    <2> QED
      BY <1>1, <1>2, LastPushed
  <1>8. new = [S EXCEPT ![k].sources = pushed]
    BY <1>3, <1>7
  <1>9. r \notin IdsOf(Y)
    BY <1>1 DEF Ready, HasSrc
  <1>10. Increments(r)
    BY DEF Increments
  <1> HIDE DEF C, k, X, Y, e, new
  <1>11. /\ pushed \in Seq(Source) /\ UniqueIds(pushed) /\ OrdersArePositions(pushed)
         /\ IdsOf(pushed) = IdsOf(Y) \cup {r}
    BY <1>1, <1>6, <1>9, SourcePushed
  <1> HIDE DEF pushed
  <1>12. /\ \A y \in IdsOf(S[k].sources) : y \in IdsOf(pushed)
         /\ \A y \in IdsOf(pushed) : y \in IdsOf(S[k].sources) \/ y = r
    BY <1>11 DEF Y
  <1>13. SavesWell(r, S, new)
    BY <1>1, <1>8, <1>10, <1>11, <1>12, SourcesSaves
  <1> QED
    BY <1>13 DEF new

\* The sources without the one that is removed, renumbered.
LEMMA RemoveSourceSaves ==
    ASSUME NEW r \in Requests, NEW S, Ready(r, S), Changed(r),
           job[r].kind = "removeSource"
    PROVE  SavesWell(r, S, Written(r, S))
  <1> DEFINE C == copy[r].sections
             k == Find(C, job[r].section)
             X == C[k].sources
             kept == Without(X, job[r].source)
             edited == Reindexed(X, kept)
             new == Written(r, S)
  <1>1. /\ Fits(C) /\ Fits(S) /\ k \in DOMAIN S
        /\ S[k].id = job[r].section /\ SectionOf(r, copy[r]) = C[k]
        /\ X \in Seq(Source) /\ UniqueIds(X) /\ IdsOf(S[k].sources) = IdsOf(X)
    BY EditedSection DEF SectionKinds, SourceKinds
  <1>2. EditedSources(r) = edited
    BY <1>1 DEF EditedSources
  <1>3. new = [S EXCEPT ![k].sources = edited]
    BY <1>2 DEF Written
  <1>4. kept \in SUBSET DOMAIN X /\ \A n \in DOMAIN X : n \in kept <=> X[n].id # job[r].source
    BY DEF Without
  <1>5. Increments(r)
    BY DEF Increments
  <1> HIDE DEF C, k, X, kept, new
  <1>6. \A n \in DOMAIN X : X[n].order \in Nat
    BY <1>1, InSources
  <1>7. Renumbers(X, kept, edited) /\ \E m \in Nat : DOMAIN edited = 1..m
    BY <1>1, <1>4, <1>6, ReindexedRenumbers
  <1> HIDE DEF edited
  <1>8. edited \in Seq(Source) /\ NumberedFrom(X, kept, edited)
    BY <1>1, <1>4, <1>7, SourceHasOrder, RenumberedItems
  <1>9. /\ UniqueIds(edited) /\ OrdersArePositions(edited)
        /\ IdsOf(edited) = {X[n].id : n \in kept}
    BY <1>8 DEF NumberedFrom
  <1>10. \A y : y \in IdsOf(edited) <=> y \in IdsOf(S[k].sources) /\ y # job[r].source
    <2>1. IdsOf(S[k].sources) = {X[n].id : n \in DOMAIN X}
      BY <1>1 DEF IdsOf
    <2> QED
      BY <1>4, <1>9, <2>1
  <1>11. SavesWell(r, S, new)
    BY <1>1, <1>3, <1>5, <1>8, <1>9, <1>10, SourcesSaves
  <1> QED
    BY <1>11 DEF new

\* The sources of a section, in the order asked for.
LEMMA ReorderSourcesSaves ==
    ASSUME NEW r \in Requests, NEW S, Ready(r, S), Changed(r),
           job[r].kind = "reorderSources"
    PROVE  SavesWell(r, S, Written(r, S))
  <1> DEFINE C == copy[r].sections
             k == Find(C, job[r].section)
             X == C[k].sources
             ids == job[r].ids
             edited == Reordered(X, ids)
             new == Written(r, S)
  <1>1. /\ Fits(C) /\ Fits(S) /\ k \in DOMAIN S
        /\ S[k].id = job[r].section /\ SectionOf(r, copy[r]) = C[k]
        /\ X \in Seq(Source) /\ UniqueIds(X) /\ IdsOf(S[k].sources) = IdsOf(X)
    BY EditedSection DEF SectionKinds, SourceKinds
  <1>2. EditedSources(r) = edited
    BY <1>1 DEF EditedSources
  <1>3. new = [S EXCEPT ![k].sources = edited]
    BY <1>2 DEF Written
  <1>4. ids \in Seq(AllIds) /\ ExactIdSet(IdSeq(X), ids)
    BY <1>1 DEF Ready, JobFits, Loaded
  <1>5. Increments(r)
    BY DEF Increments
  <1> HIDE DEF C, k, X, ids, new
  <1>6. Renumbers(X, DOMAIN X, edited) /\ \E m \in Nat : DOMAIN edited = 1..m
    BY <1>1, <1>4, ReorderedRenumbers
  <1> HIDE DEF edited
  <1>7. edited \in Seq(Source) /\ NumberedFrom(X, DOMAIN X, edited)
    BY <1>1, <1>6, SourceHasOrder, RenumberedItems
  <1>8. /\ UniqueIds(edited) /\ OrdersArePositions(edited)
        /\ IdsOf(edited) = IdsOf(S[k].sources)
    BY <1>1, <1>7 DEF NumberedFrom, IdsOf
  <1>9. SavesWell(r, S, new)
    BY <1>1, <1>3, <1>5, <1>7, <1>8, SourcesSaves
  <1> QED
    BY <1>9 DEF new

\* One text, where it was read.
LEMMA TextSaves ==
    ASSUME NEW r \in Requests, NEW S, Ready(r, S),
           NEW new, Fits(new), Shape(new) = Shape(S)
    PROVE  SavesWell(r, S, new)
  <1>1. S \in Seq(Section) /\ new \in Seq(Section)
    BY DEF Ready, Fits
  <1>2. /\ DOMAIN new = DOMAIN S /\ \A k \in DOMAIN S : new[k].order = S[k].order
        /\ IdsOf(new) = IdsOf(S) /\ \A x, y : HasSrc(new, x, y) <=> HasSrc(S, x, y)
    BY <1>1, ShapeTells
  <1>3. OrdersArePositions(S) => OrdersArePositions(new)
    BY <1>2 DEF OrdersArePositions
  <1> QED
    BY <1>2, <1>3 DEF SavesWell

\* What an edit of a text does where it is stored.
LEMMA UpdateSectionWrites ==
    ASSUME NEW r \in Requests, NEW S, Ready(r, S), Changed(r),
           job[r].kind = "updateSection"
    PROVE  LET k == Find(copy[r].sections, job[r].section)
               new == Written(r, S)
           IN  /\ k \in DOMAIN S /\ S[k].id = job[r].section
               /\ Fits(S) /\ Fits(new) /\ Shape(new) = Shape(S) /\ DOMAIN new = DOMAIN S
               /\ new[k].text = job[r].text /\ new[k].sources = S[k].sources
               /\ \A j \in DOMAIN S : j # k => new[j] = S[j]
  <1> DEFINE k == Find(copy[r].sections, job[r].section)
             new == Written(r, S)
  <1>1. Fits(S) /\ k \in DOMAIN S /\ S[k].id = job[r].section
    BY EditedSection DEF SectionKinds, SourceKinds
  <1>2. new = [S EXCEPT ![k].text = job[r].text]
    BY DEF Written
  <1>3. job[r].text \in Texts
    BY DEF Ready, JobFits
  <1> HIDE DEF k, new
  <1>4. /\ Fits(new) /\ Shape(new) = Shape(S) /\ DOMAIN new = DOMAIN S
        /\ new[k].text = job[r].text /\ new[k].sources = S[k].sources
        /\ \A j \in DOMAIN S : j # k => new[j] = S[j]
    <2>1. SectionTextWritten(S, k, job[r].text, new)
      BY <1>1, <1>2, <1>3, SectionTextReplaced
    <2> QED
      BY <2>1 DEF SectionTextWritten
  <1> QED
    BY <1>1, <1>4 DEF k, new

\* The text of a source.
LEMMA UpdateSourceWrites ==
    ASSUME NEW r \in Requests, NEW S, Ready(r, S), Changed(r),
           job[r].kind = "updateSource"
    PROVE  LET k == Find(copy[r].sections, job[r].section)
               n == Find(SectionOf(r, copy[r]).sources, job[r].source)
               new == Written(r, S)
           IN  /\ k \in DOMAIN S /\ S[k].id = job[r].section
               /\ n \in DOMAIN S[k].sources /\ S[k].sources[n].id = job[r].source
               /\ Fits(S) /\ Fits(new) /\ Shape(new) = Shape(S) /\ DOMAIN new = DOMAIN S
               /\ new[k].sources[n].text = job[r].text
               /\ \A j \in DOMAIN S : new[j].text = S[j].text
               /\ \A j \in DOMAIN S : j # k => new[j] = S[j]
               /\ \A m \in DOMAIN S[k].sources : m # n => new[k].sources[m] = S[k].sources[m]
  <1> DEFINE C == copy[r].sections
             k == Find(C, job[r].section)
             X == SectionOf(r, copy[r]).sources
             n == Find(X, job[r].source)
             new == Written(r, S)
  <1>1. /\ Fits(S) /\ k \in DOMAIN S /\ S[k].id = job[r].section
        /\ DOMAIN S[k].sources = DOMAIN X /\ SectionOf(r, copy[r]) = C[k]
        /\ \A m \in DOMAIN S[k].sources : S[k].sources[m].id = X[m].id
    BY EditedSection DEF SectionKinds, SourceKinds
  <1>2. job[r].source \in IdsOf(X)
    BY DEF Ready, Loaded, SourceKinds
  <1>3. new = [S EXCEPT ![k].sources[n].text = job[r].text]
    BY DEF Written
  <1>4. job[r].text \in Texts
    BY DEF Ready, JobFits
  <1> HIDE DEF C, k, X, n, new
  <1>5. n \in DOMAIN X /\ X[n].id = job[r].source
    BY <1>2, FindsItem DEF n
  <1>6. n \in DOMAIN S[k].sources /\ S[k].sources[n].id = job[r].source
    BY <1>1, <1>5
  <1>7. /\ Fits(new) /\ Shape(new) = Shape(S) /\ DOMAIN new = DOMAIN S
        /\ new[k].sources[n].text = job[r].text
        /\ \A j \in DOMAIN S : new[j].text = S[j].text
        /\ \A j \in DOMAIN S : j # k => new[j] = S[j]
        /\ \A m \in DOMAIN S[k].sources : m # n => new[k].sources[m] = S[k].sources[m]
    <2>1. SourceTextWritten(S, k, n, job[r].text, new)
      BY <1>1, <1>3, <1>4, <1>6, SourceTextReplaced
    <2> QED
      BY <2>1 DEF SourceTextWritten
  <1> QED
    BY <1>1, <1>6, <1>7 DEF k, n, X, C, new

\* So every save leaves what it should.
LEMMA SaveSaves ==
    ASSUME NEW r \in Requests, NEW S, Ready(r, S), Changed(r)
    PROVE  SavesWell(r, S, Written(r, S))
  <1>1. job[r].kind \in EditKinds
    BY DEF Ready, Loaded
  <1>2. CASE job[r].kind = "updateSection"
    BY <1>2, UpdateSectionWrites, TextSaves
  <1>3. CASE job[r].kind = "updateSource"
    BY <1>3, UpdateSourceWrites, TextSaves
  <1> QED
    BY <1>1, <1>2, <1>3, CreateSectionSaves, RemoveSectionSaves, ReorderSectionsSaves,
       CreateSourceSaves, RemoveSourceSaves, ReorderSourcesSaves
       DEF EditKinds, SectionKinds, SourceKinds

-----------------------------------------------------------------------------
(* The inductive invariant, action by action. *)

Pcs == Answers \cup {"idle", "create", "load", "delete", "save", "saveUpdate"}

\* A directory that is not new keeps its owner, and its shape or its version.
DirsKept ==
    \A d \in DOMAIN dirs' :
        \/ d \notin Settled
        \/ /\ d \in DOMAIN dirs /\ dirs'[d].owner = dirs[d].owner
           /\ dirs[d].v \in Nat /\ dirs'[d].v \in Nat /\ dirs[d].v <= dirs'[d].v
           /\ dirs'[d].v = dirs[d].v => Shape(dirs'[d].sections) = Shape(dirs[d].sections)

\* A step of request r.
Moves(r, step) ==
    /\ pc[r] # "ok" /\ step \in Pcs /\ pc' = [pc EXCEPT ![r] = step]
    /\ DOMAIN job' = Requests /\ DOMAIN copy' = Requests
    /\ \A q \in Requests \ {r} : job'[q] = job[q] /\ copy'[q] = copy[q]

\* What has been made stays made.
LEMMA SettledGrows ==
    ASSUME NEW r \in Requests, NEW step, TypeOK, Moves(r, step)
    PROVE  /\ Settled \subseteq Settled' /\ Settled' \subseteq Settled \cup {r}
           /\ step = "ok" => r \in Settled'
           /\ \A q \in Requests \ {r} : pc'[q] = pc[q]
           /\ pc'[r] = step /\ pc' \in [Requests -> Pcs]
  <1>1. pc \in [Requests -> Pcs]
    BY DEF TypeOK, Pcs
  <1>2. /\ \A q \in Requests \ {r} : pc'[q] = pc[q]
        /\ pc'[r] = step /\ pc' \in [Requests -> Pcs]
    BY <1>1 DEF Moves
  <1> QED
    BY <1>2 DEF Settled, Moves

\* The same in a state with more that is settled.
LEMMA OldStays ==
    ASSUME Settled \subseteq Settled', NEW dir, NEW dir2, dir2 = dir, Old(dir)
    PROVE  \A k \in DOMAIN dir2.sections :
               /\ dir2.sections[k].id \in Settled'
               /\ IdsOf(dir2.sections[k].sources) \subseteq Settled'
BY DEF Old

\* What is assumed of a request holds on while another one moves.
LEMMA OthersFit ==
    ASSUME DirectoryInv, NEW r \in Requests, NEW step, Moves(r, step), DirsKept,
           NEW q \in Requests \ {r}
    PROVE  RequestFits(q)' /\ VersionGuards(q)'
  <1>1. /\ Settled \subseteq Settled' /\ pc'[q] = pc[q] /\ job'[q] = job[q]
        /\ copy'[q] = copy[q]
    BY SettledGrows DEF DirectoryInv, Moves
  <1>2. RequestFits(q) /\ VersionGuards(q)
    BY DEF DirectoryInv, VersionGuardsShape
  <1>3. JobFits(job[q]) => JobFits(job[q])'
    BY <1>1 DEF JobFits
  <1>4. Loaded(q) => Loaded(q)'
    <2>1. ASSUME Old(copy[q]) PROVE Old(copy[q])'
      BY <1>1, <2>1, OldStays DEF Old
    <2>2. SectionOf(q, copy[q])' = SectionOf(q, copy[q])
      BY <1>1 DEF SectionOf
    <2> QED
      BY <1>1, <2>1, <2>2 DEF Loaded
  <1>5. ASSUME JobFits(job[q]), job[q].dir \in DOMAIN dirs'
        PROVE  /\ job[q].dir \in DOMAIN dirs
               /\ dirs'[job[q].dir].owner = dirs[job[q].dir].owner
               /\ dirs[job[q].dir].v \in Nat /\ dirs'[job[q].dir].v \in Nat
               /\ dirs[job[q].dir].v <= dirs'[job[q].dir].v
               /\ dirs'[job[q].dir].v = dirs[job[q].dir].v =>
                     Shape(dirs'[job[q].dir].sections) = Shape(dirs[job[q].dir].sections)
    <2>1. job[q].dir \in Settled
      BY <1>5 DEF JobFits
    <2> QED
      BY <1>5, <2>1 DEF DirsKept
  <1>6. RequestFits(q)'
    <2>1. (pc[q] = "create" => job[q] \in Creations)'
      BY <1>1, <1>2 DEF RequestFits, Creations
    <2>2. (pc[q] \in {"load", "delete", "save", "saveUpdate"} => JobFits(job[q]))'
      BY <1>1, <1>2, <1>3 DEF RequestFits
    <2>3. (pc[q] = "save" => Loaded(q))'
      BY <1>1, <1>2, <1>4 DEF RequestFits
    <2>4. (pc[q] = "saveUpdate" => job[q].kind = "update")'
      BY <1>1, <1>2 DEF RequestFits
    <2>5. (pc[q] = "delete" =>
              /\ job[q].kind = "remove"
              /\ job[q].dir \in DOMAIN dirs => dirs[job[q].dir].owner = job[q].user)'
      BY <1>1, <1>2, <1>5 DEF RequestFits
    <2> QED
      BY <2>1, <2>2, <2>3, <2>4, <2>5 DEF RequestFits
  <1>7. VersionGuards(q)'
    <2> SUFFICES ASSUME pc'[q] = "save", job'[q].dir \in DOMAIN dirs'
                 PROVE  /\ copy'[q].v <= dirs'[job'[q].dir].v
                        /\ copy'[q].v = dirs'[job'[q].dir].v =>
                              Shape(copy'[q].sections) = Shape(dirs'[job'[q].dir].sections)
      BY DEF VersionGuards
    <2> DEFINE d == job[q].dir
    <2>1. JobFits(job[q]) /\ copy[q] \in Directory
      BY <1>1, <1>2 DEF RequestFits, Loaded
    <2>2. copy[q].v \in Nat
      BY <2>1 DEF Directory
    <2>3. /\ copy[q].v <= dirs[d].v
          /\ copy[q].v = dirs[d].v => Shape(copy[q].sections) = Shape(dirs[d].sections)
          /\ dirs[d].v \in Nat /\ dirs'[d].v \in Nat /\ dirs[d].v <= dirs'[d].v
          /\ dirs'[d].v = dirs[d].v => Shape(dirs'[d].sections) = Shape(dirs[d].sections)
      BY <1>1, <1>2, <1>5, <2>1 DEF VersionGuards
    <2> HIDE DEF d
    <2>4. /\ copy[q].v <= dirs'[d].v
          /\ copy[q].v = dirs'[d].v => Shape(copy[q].sections) = Shape(dirs'[d].sections)
      BY <2>2, <2>3
    <2> QED
      BY <1>1, <2>4 DEF d
  <1> QED
    BY <1>6, <1>7

\* A directory that was made or written by the step.
WrittenWell(d) ==
    /\ d \in Settled' /\ dirs'[d] \in Directory /\ WellFormed(dirs'[d])
    /\ \A k \in DOMAIN dirs'[d].sections :
          /\ dirs'[d].sections[k].id \in Settled'
          /\ IdsOf(dirs'[d].sections[k].sources) \subseteq Settled'
    /\ \/ d \notin Settled
       \/ /\ d \in DOMAIN dirs /\ dirs'[d].owner = dirs[d].owner
          /\ dirs[d].v <= dirs'[d].v
          /\ dirs'[d].v = dirs[d].v => Shape(dirs'[d].sections) = Shape(dirs[d].sections)

\* The other directories are as they were.
LEMMA DirsStayFit ==
    ASSUME DirectoryInv, NEW r \in Requests, NEW step, Moves(r, step),
           dirs' = [d \in DOMAIN dirs' |-> dirs'[d]],
           \A d \in DOMAIN dirs' : (d \in DOMAIN dirs /\ dirs'[d] = dirs[d]) \/ WrittenWell(d)
    PROVE  /\ DirsKept /\ DirsInv'
           /\ DOMAIN dirs' \subseteq AllIds /\ dirs' \in [DOMAIN dirs' -> Directory]
  <1>1. Settled \subseteq Settled'
    BY SettledGrows DEF DirectoryInv
  <1>2. ASSUME NEW d \in DOMAIN dirs
        PROVE  d \in Settled /\ dirs[d] \in Directory /\ dirs[d].v \in Nat
                 /\ WellFormed(dirs[d]) /\ Old(dirs[d])
    <2>1. d \in Settled /\ dirs[d] \in Directory /\ WellFormed(dirs[d]) /\ Old(dirs[d])
      BY DEF DirectoryInv, TypeOK, DirsInv
    <2> QED
      BY <2>1 DEF Directory
  <1>3. \A d \in DOMAIN dirs' : WrittenWell(d) => dirs'[d].v \in Nat
    BY DEF WrittenWell, Directory
  <1>4. DirsKept
    BY <1>2, <1>3 DEF DirsKept, WrittenWell
  <1>5. ASSUME NEW d \in DOMAIN dirs'
        PROVE  /\ d \in Settled' /\ dirs'[d] \in Directory /\ WellFormed(dirs'[d])
               /\ \A k \in DOMAIN dirs'[d].sections :
                     /\ dirs'[d].sections[k].id \in Settled'
                     /\ IdsOf(dirs'[d].sections[k].sources) \subseteq Settled'
    <2>1. CASE d \in DOMAIN dirs /\ dirs'[d] = dirs[d]
      <3>1. Old(dirs[d])
        BY <1>2, <2>1
      <3> QED
        BY <1>1, <1>2, <2>1, <3>1, OldStays
    <2>2. CASE WrittenWell(d)
      BY <2>2 DEF WrittenWell
    <2> QED
      BY <2>1, <2>2
  <1>6. DirsInv'
    BY <1>5 DEF DirsInv, WellFormed, Old
  <1>7. Settled' \subseteq AllIds
    BY DEF Settled, AllIds
  <1>8. dirs' \in [DOMAIN dirs' -> Directory]
    BY <1>5, Zenon
  <1> QED
    BY <1>4, <1>5, <1>6, <1>7, <1>8

\* So a step keeps the invariant if the request that moves still fits.
LEMMA StepKeepsInv ==
    ASSUME DirectoryInv, NEW r \in Requests, NEW step, Moves(r, step),
           dirs' = [d \in DOMAIN dirs' |-> dirs'[d]],
           \A d \in DOMAIN dirs' : (d \in DOMAIN dirs /\ dirs'[d] = dirs[d]) \/ WrittenWell(d),
           job'[r] = None \/ job'[r].kind \in Kinds,
           copy'[r] = None \/ copy'[r] \in Directory,
           RequestFits(r)', VersionGuards(r)'
    PROVE  DirectoryInv'
  <1>1. /\ DirsKept /\ DirsInv' /\ DOMAIN dirs' \subseteq AllIds
        /\ dirs' \in [DOMAIN dirs' -> Directory]
    BY DirsStayFit
  <1>2. \A q \in Requests \ {r} : RequestFits(q)' /\ VersionGuards(q)'
    BY <1>1, OthersFit
  <1>3. pc' \in [Requests -> Pcs]
    BY SettledGrows DEF DirectoryInv
  <1>4. \A q \in Requests :
            /\ job'[q] = None \/ job'[q].kind \in Kinds
            /\ copy'[q] = None \/ copy'[q] \in Directory
    BY DEF Moves, DirectoryInv, TypeOK
  <1>5. TypeOK'
    BY <1>1, <1>3, <1>4 DEF TypeOK, Pcs
  <1>6. (\A q \in Requests : RequestFits(q))' /\ VersionGuardsShape'
    BY <1>2 DEF VersionGuardsShape
  <1>7. DOMAIN job' = Requests /\ DOMAIN copy' = Requests
    BY DEF Moves
  <1> QED
    BY <1>1, <1>5, <1>6, <1>7 DEF DirectoryInv

\* A step of r to step that leaves its job and its copy.
LEMMA Going ==
    ASSUME DirectoryInv, NEW r \in Requests, NEW step \in Pcs, pc[r] # "ok",
           Goto(r, step), UNCHANGED <<job, copy>>
    PROVE  /\ Moves(r, step) /\ pc'[r] = step
           /\ job'[r] = None \/ job'[r].kind \in Kinds
           /\ copy'[r] = None \/ copy'[r] \in Directory
BY DEF Goto, Moves, DirectoryInv, TypeOK, Pcs

\* An answer asks nothing of the request any more.
LEMMA Answered ==
    ASSUME DirectoryInv, NEW r \in Requests, NEW step \in Answers, pc[r] # "ok",
           Goto(r, step), UNCHANGED <<job, copy>>,
           dirs' = [d \in DOMAIN dirs' |-> dirs'[d]],
           \A d \in DOMAIN dirs' : (d \in DOMAIN dirs /\ dirs'[d] = dirs[d]) \/ WrittenWell(d)
    PROVE  DirectoryInv'
  <1>1. step \in Pcs
    BY DEF Pcs
  <1>2. /\ Moves(r, step) /\ pc'[r] = step
        /\ job'[r] = None \/ job'[r].kind \in Kinds
        /\ copy'[r] = None \/ copy'[r] \in Directory
    BY <1>1, Going
  <1>3. RequestFits(r)' /\ VersionGuards(r)'
    BY <1>2 DEF RequestFits, VersionGuards, Answers
  <1> QED
    BY <1>2, <1>3, StepKeepsInv

\* The collection is a function, whether or not it is changed.
LEMMA SameDirs ==
    ASSUME DirectoryInv, UNCHANGED dirs
    PROVE  /\ dirs' = [d \in DOMAIN dirs' |-> dirs'[d]]
           /\ \A d \in DOMAIN dirs' : d \in DOMAIN dirs /\ dirs'[d] = dirs[d]
  <1>1. dirs = [d \in DOMAIN dirs |-> dirs[d]]
    BY DEF DirectoryInv, TypeOK
  <1> QED
    BY <1>1

\* A request about a directory is for one there is.
LEMMA AboutFits ==
    ASSUME DirectoryInv, NEW d \in DOMAIN dirs, NEW j \in About(d)
    PROVE  JobFits(j) /\ j.kind # "create"
  <1> DEFINE S == dirs[d].sections
  <1>1. d \in Settled /\ S \in Seq(Section)
    BY DEF DirectoryInv, DirsInv, TypeOK, Directory
  <1>2. \A X : \A T : X \in Seq(T) /\ IdsOf(X) \subseteq AllIds =>
            Orderings(X) \subseteq Seq(AllIds)
    <2> SUFFICES ASSUME NEW X, NEW T, X \in Seq(T), IdsOf(X) \subseteq AllIds,
                        NEW ids \in [DOMAIN X -> IdsOf(X)]
                 PROVE  ids \in Seq(AllIds)
      BY DEF Orderings
    <2>1. Len(X) \in Nat /\ DOMAIN X = 1..Len(X)
      BY LenProperties
    <2>2. ids \in [1..Len(X) -> AllIds]
      BY <2>1
    <2> QED
      BY <2>1, <2>2
  <1>3. IdsOf(S) \subseteq AllIds
    BY <1>1, InSections DEF IdsOf
  <1>4. Orderings(S) \subseteq Seq(AllIds)
    BY <1>1, <1>2, <1>3
  <1>5. ASSUME NEW k \in DOMAIN S PROVE Orderings(S[k].sources) \subseteq Seq(AllIds)
    <2>1. S[k].sources \in Seq(Source)
      BY <1>1, InSections
    <2>2. IdsOf(S[k].sources) \subseteq AllIds
      BY <2>1, InSources DEF IdsOf
    <2> QED
      BY <1>2, <2>1, <2>2
  <1>6. CASE \E k \in DOMAIN S : j \in WithinSection(d, S[k])
    <2>1. PICK k \in DOMAIN S : j \in WithinSection(d, S[k])
      BY <1>6
    <2> HIDE DEF S
    <2>2. Orderings(S[k].sources) \subseteq Seq(AllIds)
      BY <1>5
    <2>3. /\ j.kind \in {"removeSection", "updateSection", "createSource", "reorderSources",
                         "removeSource", "updateSource"}
          /\ j.dir = d
          /\ j.kind \in {"updateSection", "createSource", "updateSource"} => j.text \in Texts
          /\ j.kind = "reorderSources" => j.ids \in Orderings(S[k].sources)
      BY <2>1 DEF WithinSection
    <2> QED
      BY <1>1, <2>2, <2>3 DEF JobFits, EditKinds, SectionKinds, SourceKinds
  <1>7. CASE ~ \E k \in DOMAIN S : j \in WithinSection(d, S[k])
    <2>1. /\ j.kind \in {"remove", "update", "createSection", "reorderSections"}
          /\ j.dir = d
          /\ j.kind = "update" =>
                j.policy \in Policies \cup {Keep} /\ j.slug \in Slugs \cup {None, Keep}
          /\ j.kind = "createSection" => j.text \in Texts
          /\ j.kind = "reorderSections" => j.ids \in Orderings(S)
      BY <1>7 DEF About
    <2> HIDE DEF S
    <2> QED
      BY <1>1, <1>4, <2>1 DEF JobFits, EditKinds
  <1> QED
    BY <1>6, <1>7

\* Sending a request keeps the invariant: it asks for what there is.
LEMMA StartKeepsInv == ASSUME DirectoryInv, NEW r \in Requests, Start(r) PROVE DirectoryInv'
  <1>1. PICK j : /\ Send(r, j)
                 /\ \/ j \in Creations
                    \/ \E d \in DOMAIN dirs : j \in About(d)
    BY DEF Start
  <1>2. IF j.kind = "create" THEN j \in Creations ELSE JobFits(j)
    BY <1>1, AboutFits DEF Creations
  <1> DEFINE step == IF j.kind = "create" THEN "create" ELSE "load"
  <1>3. /\ j.kind \in Kinds /\ job' = [job EXCEPT ![r] = j] /\ Goto(r, step)
        /\ UNCHANGED <<dirs, copy>>
    BY <1>1 DEF Send
  <1>4. step \in Pcs /\ step \notin {"save", "saveUpdate", "delete"}
    BY DEF Pcs
  <1>5. Moves(r, step) /\ job'[r] = j
    BY <1>3, <1>4 DEF Start, Goto, Moves, DirectoryInv
  <1>6. Settled \subseteq Settled' /\ pc'[r] = step
    BY <1>5, SettledGrows DEF DirectoryInv
  <1>7. copy'[r] = None \/ copy'[r] \in Directory
    BY <1>3 DEF DirectoryInv, TypeOK
  <1>8. VersionGuards(r)'
    BY <1>4, <1>6 DEF VersionGuards
  <1>9. RequestFits(r)'
    <2>1. (pc[r] = "create" => job[r] \in Creations)'
      BY <1>2, <1>5, <1>6
    <2>2. JobFits(j) => JobFits(job[r])'
      BY <1>5, <1>6 DEF JobFits
    <2>3. (pc[r] \in {"load", "delete", "save", "saveUpdate"} => JobFits(job[r]))'
      BY <1>2, <1>6, <2>2
    <2> QED
      BY <1>4, <1>6, <2>1, <2>3 DEF RequestFits
  <1>10. /\ dirs' = [d \in DOMAIN dirs' |-> dirs'[d]]
         /\ \A d \in DOMAIN dirs' : d \in DOMAIN dirs /\ dirs'[d] = dirs[d]
    BY <1>3, SameDirs
  <1> HIDE DEF step
  <1> QED
    BY <1>3, <1>5, <1>7, <1>8, <1>9, <1>10, StepKeepsInv

\* What the read found is in the copy.
LEMMA LoadFinds ==
    ASSUME DirectoryInv, NEW r \in Requests, pc[r] = "load",
           Permitted(r), HasSection(r), HasSource(r), ValidOrder(r),
           job[r].kind \in EditKinds,
           Settled \subseteq Settled', job'[r] = job[r], copy'[r] = dirs[job[r].dir]
    PROVE  Loaded(r)'
  <1> DEFINE dir == dirs[job[r].dir]
  <1>1. dir \in Directory /\ WellFormed(dir) /\ Old(dir)
    BY DEF Permitted, Updatable, DirectoryInv, TypeOK, DirsInv
  <1>2. /\ job[r].kind \in SectionKinds \cup SourceKinds =>
              job[r].section \in IdsOf(dir.sections)
        /\ job[r].kind \in SourceKinds => job[r].source \in IdsOf(SectionOf(r, dir).sources)
        /\ job[r].kind = "reorderSections" => ExactIdSet(IdSeq(dir.sections), job[r].ids)
        /\ job[r].kind = "reorderSources" =>
              ExactIdSet(IdSeq(SectionOf(r, dir).sources), job[r].ids)
    BY DEF HasSection, HasSource, ValidOrder
  <1> HIDE DEF dir
  <1>3. copy'[r] = dir
    BY DEF dir
  <1>4. Old(copy[r])'
    BY <1>1, <1>3, OldStays DEF Old
  <1>5. SectionOf(r, copy[r])' = SectionOf(r, dir)
    BY <1>3 DEF SectionOf
  <1> QED
    BY <1>1, <1>2, <1>3, <1>4, <1>5 DEF Loaded

\* So does the read: the copy has the version and the shape that are stored.
LEMMA LoadKeepsInv == ASSUME DirectoryInv, NEW r \in Requests, Load(r) PROVE DirectoryInv'
  <1> DEFINE d == job[r].dir
             step == CASE job[r].kind = "remove" -> "delete"
                       [] job[r].kind = "update" -> "saveUpdate"
                       [] OTHER -> "save"
  <1>1. /\ pc[r] = "load" /\ JobFits(job[r]) /\ UNCHANGED <<dirs, job>>
        /\ dirs' = [e \in DOMAIN dirs' |-> dirs'[e]]
        /\ \A e \in DOMAIN dirs' : e \in DOMAIN dirs /\ dirs'[e] = dirs[e]
    BY SameDirs DEF Load, DirectoryInv, RequestFits
  <1>2. CASE UNCHANGED copy /\ (Goto(r, "notFound") \/ Goto(r, "invalid"))
    <2>1. PICK answer \in Answers : Goto(r, answer)
      BY <1>2 DEF Answers
    <2> QED
      BY <1>1, <1>2, <2>1, Answered
  <1>3. CASE /\ Permitted(r) /\ HasSection(r) /\ HasSource(r) /\ ValidOrder(r)
             /\ copy' = [copy EXCEPT ![r] = dirs[d]] /\ Goto(r, step)
    <2>1. /\ step \in {"delete", "saveUpdate", "save"} /\ step \in Pcs
          /\ step = "delete" => job[r].kind = "remove"
          /\ step = "saveUpdate" => job[r].kind = "update"
          /\ step = "save" => job[r].kind \in EditKinds
      BY <1>1 DEF JobFits, EditKinds, Pcs
    <2>2. Moves(r, step) /\ copy'[r] = dirs[d] /\ job'[r] = job[r]
      BY <1>1, <1>3, <2>1 DEF Moves, Goto, DirectoryInv
    <2>3. Settled \subseteq Settled' /\ pc'[r] = step
      BY <2>2, SettledGrows DEF DirectoryInv
    <2>4. d \in DOMAIN dirs /\ dirs[d] \in Directory /\ dirs[d].v \in Nat
      <3>1. d \in DOMAIN dirs /\ dirs[d] \in Directory
        BY <1>3 DEF Permitted, Updatable, DirectoryInv, TypeOK
      <3> QED
        BY <3>1 DEF Directory
    <2>5. VersionGuards(r)'
      BY <1>1, <2>2, <2>4 DEF VersionGuards
    <2> HIDE DEF step
    <2>6. step = "save" => Loaded(r)'
      BY <1>1, <1>3, <2>1, <2>2, <2>3, LoadFinds
    <2>7. JobFits(job[r])'
      BY <1>1, <2>3 DEF JobFits
    <2>8. step = "delete" => dirs'[d].owner = job'[r].user
      BY <1>1, <1>3, <2>1 DEF Permitted
    <2>9. RequestFits(r)'
      BY <1>1, <2>1, <2>3, <2>6, <2>7, <2>8 DEF RequestFits
    <2>10. job'[r] = None \/ job'[r].kind \in Kinds
      BY <2>2 DEF DirectoryInv, TypeOK
    <2> QED
      BY <1>1, <2>2, <2>4, <2>5, <2>9, <2>10, StepKeepsInv
  <1> QED
    BY <1>2, <1>3 DEF Load

\* A directory that is made is empty, and new.
LEMMA CreateKeepsInv == ASSUME DirectoryInv, NEW r \in Requests, Create(r) PROVE DirectoryInv'
  <1>1. pc[r] = "create" /\ job[r] \in Creations /\ UNCHANGED <<job, copy>>
    BY DEF Create, DirectoryInv, RequestFits
  <1>2. CASE UNCHANGED dirs /\ Goto(r, "conflict")
    BY <1>1, <1>2, SameDirs, Answered DEF Answers
  <1>3. CASE Write(r, Made(r)) /\ Goto(r, "ok")
    <2> DEFINE dir == Made(r)
    <2>1. dir \in Directory /\ dir.sections = <<>>
      BY <1>1 DEF Made, Creations, Directory
    <2> HIDE DEF dir
    <2>2. dirs' = [x \in DOMAIN dirs \cup {r} |-> IF x = r THEN dir ELSE dirs[x]]
      BY <1>3 DEF Write, dir
    <2>3. DOMAIN dirs' = DOMAIN dirs \cup {r} /\ dirs' = [x \in DOMAIN dirs' |-> dirs'[x]]
      BY <2>2
    <2>4. dirs'[r] = dir /\ \A x \in DOMAIN dirs \ {r} : dirs'[x] = dirs[x]
      BY <2>2
    <2>5. r \notin Settled /\ r \in Settled'
      <3>1. Moves(r, "ok")
        BY <1>1, <1>3, Going DEF Pcs, Answers
      <3> QED
        BY <1>1, <3>1, SettledGrows, DirectoryAssumption DEF Settled, DirectoryInv
    <2>6. WrittenWell(r)
      BY <2>1, <2>4, <2>5 DEF WrittenWell, WellFormed, UniqueIds
    <2>7. \A x \in DOMAIN dirs' : (x \in DOMAIN dirs /\ dirs'[x] = dirs[x]) \/ WrittenWell(x)
      BY <2>3, <2>4, <2>6
    <2> QED
      BY <1>1, <1>3, <2>3, <2>7, Answered DEF Answers
  <1> QED
    BY <1>2, <1>3 DEF Create

\* A removal leaves the other directories.
LEMMA DeleteKeepsInv == ASSUME DirectoryInv, NEW r \in Requests, Delete(r) PROVE DirectoryInv'
  <1>1. /\ pc[r] = "delete" /\ UNCHANGED <<job, copy>> /\ Goto(r, "ok")
        /\ dirs' = [d \in DOMAIN dirs \ {job[r].dir} |-> dirs[d]]
    BY DEF Delete
  <1>2. /\ dirs' = [d \in DOMAIN dirs' |-> dirs'[d]]
        /\ \A d \in DOMAIN dirs' : d \in DOMAIN dirs /\ dirs'[d] = dirs[d]
    BY <1>1
  <1> QED
    BY <1>1, <1>2, Answered DEF Answers

\* An update leaves the sections and the version.
LEMMA SaveUpdateKeepsInv ==
    ASSUME DirectoryInv, NEW r \in Requests, SaveUpdate(r) PROVE DirectoryInv'
  <1> DEFINE d == job[r].dir
             policy == Updated(dirs[d].policy, copy[r].policy, job[r].policy)
             slug == NewSlug(r)
  <1>1. /\ pc[r] = "saveUpdate" /\ d \in DOMAIN dirs /\ UNCHANGED <<job, copy>>
        /\ JobFits(job[r]) /\ job[r].kind = "update"
    BY DEF SaveUpdate, DirectoryInv, RequestFits
  <1>2. CASE UNCHANGED dirs /\ Goto(r, "conflict")
    BY <1>1, <1>2, SameDirs, Answered DEF Answers
  <1>3. CASE /\ dirs' = [dirs EXCEPT ![d].policy = policy, ![d].slug = slug]
             /\ Goto(r, "ok")
    <2>1. d \in Settled /\ dirs[d] \in Directory /\ WellFormed(dirs[d]) /\ Old(dirs[d])
      BY <1>1 DEF DirectoryInv, DirsInv, TypeOK
    <2>2. policy \in Policies /\ slug \in Slugs \cup {None}
      BY <1>1, <2>1 DEF Updated, NewSlug, JobFits, Directory
    <2> HIDE DEF d, policy, slug
    <2>3. /\ dirs'[d] \in Directory /\ dirs'[d].sections = dirs[d].sections
          /\ dirs'[d].v = dirs[d].v /\ dirs'[d].owner = dirs[d].owner
          /\ dirs[d].v \in Nat
      BY <1>1, <1>3, <2>1, <2>2 DEF Directory
    <2>4. DOMAIN dirs' = DOMAIN dirs /\ \A x \in DOMAIN dirs \ {d} : dirs'[x] = dirs[x]
      BY <1>3
    <2>5. dirs' = [x \in DOMAIN dirs' |-> dirs'[x]]
      BY <1>3
    <2>6. Settled \subseteq Settled'
      <3>1. Moves(r, "ok")
        BY <1>1, <1>3, Going DEF Pcs, Answers
      <3> QED
        BY <3>1, SettledGrows DEF DirectoryInv
    <2>7. WrittenWell(d)
      BY <1>1, <2>1, <2>3, <2>6 DEF WrittenWell, WellFormed, Old
    <2>8. \A x \in DOMAIN dirs' : (x \in DOMAIN dirs /\ dirs'[x] = dirs[x]) \/ WrittenWell(x)
      BY <2>4, <2>7
    <2> QED
      BY <1>1, <1>3, <2>5, <2>8, Answered DEF Answers
  <1> QED
    BY <1>2, <1>3 DEF SaveUpdate

\* A save finds what is stored as it read it, or is about to be refused.
LEMMA SaveIsReady ==
    ASSUME DirectoryInv, NEW r \in Requests, SaveSections(r)
    PROVE  Ready(r, dirs[job[r].dir].sections)
  <1> DEFINE d == job[r].dir
             S == dirs[d].sections
  <1>1. pc[r] = "save" /\ d \in DOMAIN dirs /\ JobFits(job[r]) /\ Loaded(r)
    BY DEF SaveSections, DirectoryInv, RequestFits
  <1>2. dirs[d] \in Directory /\ WellFormed(dirs[d]) /\ Old(dirs[d])
    BY <1>1 DEF DirectoryInv, DirsInv, TypeOK
  <1>3. Fits(S)
    BY <1>2 DEF Fits, WellFormed, Directory
  <1>4. r \notin Settled
    BY <1>1, DirectoryAssumption DEF Settled
  <1>5. r \notin IdsOf(S)
    BY <1>2, <1>4 DEF Old, IdsOf
  <1>6. \A x : ~HasSrc(S, x, r)
    BY <1>2, <1>4 DEF Old, HasSrc
  <1>7. Checks(r) => Shape(copy[r].sections) = Shape(S)
    BY <1>1 DEF SaveSections, DirectoryInv, VersionGuardsShape, VersionGuards
  <1> QED
    BY <1>1, <1>3, <1>5, <1>6, <1>7 DEF Ready

\* What a save leaves of the directory.
LEMMA SaveLeaves ==
    ASSUME DirectoryInv, NEW r \in Requests, SaveSections(r)
    PROVE  LET d == job[r].dir
               S == dirs[d].sections
               new == dirs'[d].sections
           IN  /\ d \in DOMAIN dirs /\ DOMAIN dirs' = DOMAIN dirs
               /\ dirs' = [x \in DOMAIN dirs' |-> dirs'[x]]
               /\ \A x \in DOMAIN dirs \ {d} : dirs'[x] = dirs[x]
               /\ new = IF Changed(r) THEN Written(r, S) ELSE S
               /\ SavesWell(r, S, new) /\ Fits(S) /\ Fits(new)
               /\ dirs'[d] \in Directory /\ dirs'[d].owner = dirs[d].owner
               /\ dirs[d].v \in Nat
               /\ dirs'[d].v = IF Increments(r) THEN dirs[d].v + 1 ELSE dirs[d].v
  <1> DEFINE d == job[r].dir
             S == dirs[d].sections
             new == IF Changed(r) THEN Written(r, S) ELSE S
             v == IF Increments(r) THEN dirs[d].v + 1 ELSE dirs[d].v
  <1>1. Ready(r, S) /\ Fits(S)
    BY SaveIsReady DEF Ready
  <1>2. d \in DOMAIN dirs /\ dirs[d] \in Directory
    BY DEF SaveSections, DirectoryInv, TypeOK
  <1>3. SavesWell(r, S, new)
    <2>1. CASE Changed(r)
      BY <1>1, <2>1, SaveSaves
    <2>2. CASE ~Changed(r)
      BY <1>1, <2>2, TextSaves
    <2> QED
      BY <2>1, <2>2
  <1>4. Fits(new)
    BY <1>3 DEF SavesWell
  <1>5. dirs' = [dirs EXCEPT ![d].sections = new, ![d].v = v]
    BY DEF SaveSections
  <1>6. new \in Seq(Section) /\ v \in Nat /\ dirs[d].v \in Nat
    BY <1>2, <1>4 DEF Fits, Directory
  <1> HIDE DEF new, v, S, d
  <1>7. /\ DOMAIN dirs' = DOMAIN dirs /\ dirs' = [x \in DOMAIN dirs' |-> dirs'[x]]
        /\ \A x \in DOMAIN dirs \ {d} : dirs'[x] = dirs[x]
    BY <1>5
  <1>8. /\ dirs'[d] \in Directory /\ dirs'[d].owner = dirs[d].owner
        /\ dirs'[d].sections = new /\ dirs'[d].v = v
    BY <1>2, <1>5, <1>6 DEF Directory
  <1> QED
    BY <1>1, <1>2, <1>3, <1>4, <1>6, <1>7, <1>8 DEF d, S, new, v

\* A save of sections increments the version when it changes their shape.
LEMMA SaveSectionsKeepsInv ==
    ASSUME DirectoryInv, NEW r \in Requests, SaveSections(r) PROVE DirectoryInv'
  <1> DEFINE d == job[r].dir
             S == dirs[d].sections
             new == dirs'[d].sections
  <1>1. /\ d \in DOMAIN dirs /\ DOMAIN dirs' = DOMAIN dirs
        /\ dirs' = [x \in DOMAIN dirs' |-> dirs'[x]]
        /\ \A x \in DOMAIN dirs \ {d} : dirs'[x] = dirs[x]
        /\ SavesWell(r, S, new) /\ Fits(S) /\ Fits(new)
        /\ dirs'[d] \in Directory /\ dirs'[d].owner = dirs[d].owner
        /\ dirs[d].v \in Nat
        /\ dirs'[d].v = IF Increments(r) THEN dirs[d].v + 1 ELSE dirs[d].v
    BY SaveLeaves
  <1>2. pc[r] = "save" /\ Goto(r, "ok") /\ UNCHANGED <<job, copy>>
    BY DEF SaveSections
  <1>3. Settled \subseteq Settled' /\ r \in Settled'
    <2>1. Moves(r, "ok")
      BY <1>2, Going DEF Pcs, Answers
    <2> QED
      BY <2>1, SettledGrows DEF DirectoryInv
  <1>4. d \in Settled /\ Old(dirs[d])
    BY <1>1 DEF DirectoryInv, DirsInv
  <1>5. IdsOf(S) \subseteq Settled /\ \A x, y : HasSrc(S, x, y) => y \in Settled
    BY <1>4 DEF Old, IdsOf, HasSrc
  <1>6. dirs[d].v <= dirs'[d].v /\ (dirs'[d].v = dirs[d].v => Shape(new) = Shape(S))
    BY <1>1 DEF SavesWell
  <1> HIDE DEF S, new
  <1>7. IdsOf(new) \subseteq Settled' /\ \A x, y : HasSrc(new, x, y) => y \in Settled'
    BY <1>1, <1>3, <1>5 DEF SavesWell
  <1>8. \A k \in DOMAIN new :
            new[k].id \in Settled' /\ IdsOf(new[k].sources) \subseteq Settled'
    BY <1>7 DEF IdsOf, HasSrc
  <1>9. WellFormed(dirs'[d])
    BY <1>1 DEF WellFormed, Fits, new
  <1>10. WrittenWell(d)
    BY <1>1, <1>3, <1>4, <1>6, <1>8, <1>9 DEF WrittenWell, S, new
  <1>11. \A x \in DOMAIN dirs' : (x \in DOMAIN dirs /\ dirs'[x] = dirs[x]) \/ WrittenWell(x)
    BY <1>1, <1>10
  <1> QED
    BY <1>1, <1>2, <1>11, Answered DEF Answers

\* A refused save changes nothing.
LEMMA SaveRefusedKeepsInv ==
    ASSUME DirectoryInv, NEW r \in Requests, SaveRefused(r) PROVE DirectoryInv'
  <1>1. pc[r] # "ok" /\ Goto(r, "failed") /\ UNCHANGED <<dirs, job, copy>>
    BY DEF SaveRefused
  <1> QED
    BY <1>1, SameDirs, Answered DEF Answers

\* The collections the program may be started on satisfy the invariant.
LEMMA InitInv == Init => DirectoryInv
  <1> SUFFICES ASSUME Init PROVE DirectoryInv
    OBVIOUS
  <1>1. /\ dirs \in [DOMAIN dirs -> Directory] /\ DOMAIN dirs \subseteq Ids
        /\ \A d \in DOMAIN dirs :
              /\ WellFormed(dirs[d])
              /\ \A k \in DOMAIN dirs[d].sections :
                    IdsOf(dirs[d].sections[k].sources) \cup IdsOf(dirs[d].sections)
                      \subseteq Ids
    BY InitialDirsAssumption DEF Init
  <1>2. \A r \in Requests : pc[r] = "idle" /\ job[r] = None /\ copy[r] = None
    BY DEF Init
  <1>3. TypeOK
    BY <1>1, <1>2 DEF TypeOK, AllIds, Init
  <1>4. DirsInv
    <2> SUFFICES ASSUME NEW d \in DOMAIN dirs PROVE Old(dirs[d])
      BY <1>1 DEF DirsInv, Settled
    <2> SUFFICES ASSUME NEW k \in DOMAIN dirs[d].sections
                 PROVE  /\ dirs[d].sections[k].id \in Ids
                        /\ IdsOf(dirs[d].sections[k].sources) \subseteq Ids
      BY DEF Old, Settled
    <2>1. dirs[d].sections[k].id \in IdsOf(dirs[d].sections)
      BY DEF IdsOf
    <2> QED
      BY <1>1, <2>1
  <1>5. \A r \in Requests : RequestFits(r) /\ VersionGuards(r)
    BY <1>2 DEF RequestFits, VersionGuards
  <1> QED
    BY <1>3, <1>4, <1>5 DEF DirectoryInv, VersionGuardsShape, Init

\* Every step keeps the invariant.
LEMMA NextInv == DirectoryInv /\ [Next]_vars => DirectoryInv'
  <1> SUFFICES ASSUME DirectoryInv, [Next]_vars PROVE DirectoryInv'
    OBVIOUS
  <1>1. CASE UNCHANGED vars
    BY <1>1 DEF vars, DirectoryInv, TypeOK, DirsInv, Old, Settled, VersionGuardsShape,
        VersionGuards, RequestFits, Creations, JobFits, Loaded, SectionOf
  <1>2. ASSUME NEW r \in Requests, Start(r) \/ Advance(r) PROVE DirectoryInv'
    BY <1>2, StartKeepsInv, LoadKeepsInv, CreateKeepsInv, DeleteKeepsInv,
       SaveUpdateKeepsInv, SaveSectionsKeepsInv, SaveRefusedKeepsInv DEF Advance
  <1> QED
    BY <1>1, <1>2 DEF Next, Finished

\* The invariant holds in every reachable state.
THEOREM DirectoryInvHolds == Spec => []DirectoryInv
BY InitInv, NextInv, PTL DEF Spec

\* Directories, requests and copies have the types the schemas give them.
THEOREM DirectoryTypeCorrect == Spec => []TypeOK
  <1>1. DirectoryInv => TypeOK
    BY DEF DirectoryInv
  <1> QED
    BY <1>1, DirectoryInvHolds, PTL

\* While a request is about to save and the version it read is still the stored
\* one, sections and sources are where it read them, with the orders it read.
THEOREM VersionGuardsHold == Spec => []VersionGuardsShape
  <1>1. DirectoryInv => VersionGuardsShape
    BY DEF DirectoryInv
  <1> QED
    BY <1>1, DirectoryInvHolds, PTL

\* Ids of sections and of sources stay unique, and the orders of sources are
\* 0, 1, 2, ..., however pushes, removals, reorders and edits overlap.
THEOREM DirectoriesStayWellFormed == Spec => []DirectoriesWellFormed
  <1>1. DirectoryInv => DirectoriesWellFormed
    BY DEF DirectoryInv, DirsInv, DirectoriesWellFormed
  <1> QED
    BY <1>1, DirectoryInvHolds, PTL

-----------------------------------------------------------------------------
(* What a step may do to what the directories hold. *)

\* A directory, a section or a source of a collection.
ItemOf(ds, item) ==
    \E d \in DOMAIN ds :
        \/ item = <<d>>
        \/ \E x \in IdsOf(ds[d].sections) : item = <<d, x>>
        \/ \E x, y : HasSrc(ds[d].sections, x, y) /\ item = <<d, x, y>>

\* Items is the set of all of them.
LEMMA ItemsAre ==
    ASSUME NEW ds, NEW item
    PROVE  item \in Items(ds) <=> ItemOf(ds, item)
  <1>1. item \in Items(ds) <=>
            \E d \in DOMAIN ds :
                \/ item = <<d>>
                \/ \E k \in DOMAIN ds[d].sections : item = <<d, ds[d].sections[k].id>>
                \/ \E k \in DOMAIN ds[d].sections :
                      \E s \in IdsOf(ds[d].sections[k].sources) :
                          item = <<d, ds[d].sections[k].id, s>>
    BY DEF Items
  <1> QED
    BY <1>1 DEF ItemOf, IdsOf, HasSrc

\* The step is one of a request, and changes a directory only in four ways.
LEMMA DirsChangedBy ==
    ASSUME DirectoryInv, [Next]_vars
    PROVE  \/ UNCHANGED dirs /\ \A r \in Requests : ~Ends(r) \/ SaveSections(r)
           \/ \E r \in Requests :
                  /\ pc[r] # "ok" /\ pc[r] # "idle" /\ pc' = [pc EXCEPT ![r] = "ok"]
                  /\ UNCHANGED <<job, copy>>
                  /\ Create(r) \/ Delete(r) \/ SaveUpdate(r) \/ SaveSections(r)
  <1>1. pc \in [Requests -> Pcs]
    BY DEF DirectoryInv, TypeOK, Pcs
  <1>2. CASE UNCHANGED vars
    BY <1>2 DEF vars, Ends
  <1>3. ASSUME NEW r \in Requests, NEW step, Goto(r, step), step # "ok", UNCHANGED dirs
        PROVE  UNCHANGED dirs /\ \A q \in Requests : ~Ends(q)
    <2>1. \A q \in Requests : pc'[q] = "ok" => pc[q] = "ok"
      BY <1>1, <1>3 DEF Goto
    <2> QED
      BY <1>3, <2>1 DEF Ends
  <1>4. ASSUME NEW r \in Requests, Start(r)
        PROVE  \E step : Goto(r, step) /\ step # "ok" /\ UNCHANGED dirs
    <2>1. PICK j : Send(r, j)
      BY <1>4 DEF Start
    <2> QED
      BY <2>1 DEF Send
  <1>5. ASSUME NEW r \in Requests, Load(r) \/ SaveRefused(r)
        PROVE  \E step : Goto(r, step) /\ step # "ok" /\ UNCHANGED dirs
    <2>1. CASE Load(r)
      <3> DEFINE step == CASE job[r].kind = "remove" -> "delete"
                           [] job[r].kind = "update" -> "saveUpdate"
                           [] OTHER -> "save"
      <3>1. step # "ok"
        OBVIOUS
      <3>2. Goto(r, "notFound") \/ Goto(r, "invalid") \/ Goto(r, step)
        BY <2>1 DEF Load
      <3>3. UNCHANGED dirs
        BY <2>1 DEF Load
      <3> HIDE DEF step
      <3> QED
        BY <3>1, <3>2, <3>3
    <2>2. CASE SaveRefused(r)
      BY <2>2 DEF SaveRefused
    <2> QED
      BY <1>5, <2>1, <2>2
  <1>6. ASSUME NEW r \in Requests, Create(r) \/ Delete(r) \/ SaveUpdate(r) \/ SaveSections(r)
        PROVE  \/ \E step : Goto(r, step) /\ step # "ok" /\ UNCHANGED dirs
               \/ /\ pc[r] # "ok" /\ pc[r] # "idle" /\ pc' = [pc EXCEPT ![r] = "ok"]
                  /\ UNCHANGED <<job, copy>>
                  /\ Create(r) \/ Delete(r) \/ SaveUpdate(r) \/ SaveSections(r)
    BY <1>6 DEF Create, Delete, SaveUpdate, SaveSections, Goto
  <1> QED
    BY <1>2, <1>3, <1>4, <1>5, <1>6 DEF Next, Advance, Finished, vars, Ends

\* What a request that saves sections does, item by item.
LEMMA SaveItems ==
    ASSUME DirectoryInv, NEW r \in Requests, SaveSections(r),
           NEW d \in DOMAIN dirs
    PROVE  /\ d \in DOMAIN dirs'
           /\ d # job[r].dir => dirs'[d] = dirs[d]
           /\ d = job[r].dir => SavesWell(r, dirs[d].sections, dirs'[d].sections)
  <1>1. /\ DOMAIN dirs' = DOMAIN dirs
        /\ \A x \in DOMAIN dirs \ {job[r].dir} : dirs'[x] = dirs[x]
        /\ SavesWell(r, dirs[job[r].dir].sections, dirs'[job[r].dir].sections)
    BY SaveLeaves
  <1> QED
    BY <1>1

\* An update changes no section.
LEMMA UpdateItems ==
    ASSUME DirectoryInv, NEW r \in Requests, SaveUpdate(r), NEW d \in DOMAIN dirs
    PROVE  DOMAIN dirs' = DOMAIN dirs /\ dirs'[d].sections = dirs[d].sections
  <1> DEFINE x == job[r].dir
  <1>1. CASE UNCHANGED dirs
    BY <1>1
  <1>2. ASSUME NEW p, NEW g, dirs' = [dirs EXCEPT ![x].policy = p, ![x].slug = g]
        PROVE  DOMAIN dirs' = DOMAIN dirs /\ dirs'[d].sections = dirs[d].sections
    <2>1. dirs[d] \in Directory
      BY DEF DirectoryInv, TypeOK
    <2> HIDE DEF x
    <2> QED
      BY <1>2, <2>1 DEF Directory
  <1> QED
    BY <1>1, <1>2 DEF SaveUpdate

\* The orders of sections stay 0, 1, 2, ... unless a section is pushed whose
\* order was counted before another one came or went.
THEOREM SectionOrdersStay == Spec => SectionOrdersKept
  <1>1. ASSUME DirectoryInv, [Next]_vars,
               NEW d \in DOMAIN dirs \cap DOMAIN dirs', OrdersArePositions(dirs[d].sections)
        PROVE  \/ OrdersArePositions(dirs'[d].sections)
               \/ \E r \in Requests : PushesStale(r, d)
    <2>1. CASE dirs'[d].sections = dirs[d].sections
      BY <1>1, <2>1
    <2>2. ASSUME NEW r \in Requests, SaveSections(r) PROVE
               \/ OrdersArePositions(dirs'[d].sections)
               \/ \E q \in Requests : PushesStale(q, d)
      <3>1. CASE d # job[r].dir
        BY <1>1, <2>1, <2>2, <3>1, SaveItems
      <3>2. CASE d = job[r].dir
        <4>1. SavesWell(r, dirs[d].sections, dirs'[d].sections)
          BY <1>1, <2>2, <3>2, SaveItems
        <4>2. pc[r] = "save" /\ pc'[r] = "ok"
          BY <1>1, <2>2 DEF SaveSections, Goto, DirectoryInv, TypeOK
        <4>3. \/ OrdersArePositions(dirs'[d].sections)
              \/ /\ job[r].kind = "createSection"
                 /\ Len(copy[r].sections) # Len(dirs[d].sections)
          BY <1>1, <4>1 DEF SavesWell
        <4> QED
          BY <3>2, <4>2, <4>3 DEF PushesStale
      <3> QED
        BY <3>1, <3>2
    <2>3. ASSUME NEW r \in Requests, Create(r) PROVE dirs'[d].sections = dirs[d].sections
      <3>1. r \notin Settled
        BY <2>3, DirectoryAssumption DEF Create, Settled
      <3>2. d # r
        BY <1>1, <3>1 DEF DirectoryInv, DirsInv
      <3> QED
        BY <2>3, <3>2 DEF Create, Write
    <2>4. ASSUME NEW r \in Requests, Delete(r) PROVE dirs'[d].sections = dirs[d].sections
      BY <2>4 DEF Delete
    <2>5. ASSUME NEW r \in Requests, SaveUpdate(r) PROVE dirs'[d].sections = dirs[d].sections
      BY <1>1, <2>5, UpdateItems
    <2> QED
      BY <1>1, <2>1, <2>2, <2>3, <2>4, <2>5, DirsChangedBy
  <1>2. DirectoryInv /\ [Next]_vars =>
            [\A d \in DOMAIN dirs \cap DOMAIN dirs' :
                OrdersArePositions(dirs[d].sections) =>
                    \/ OrdersArePositions(dirs'[d].sections)
                    \/ \E r \in Requests : PushesStale(r, d)]_vars
    BY <1>1
  <1> QED
    BY <1>2, DirectoryInvHolds, PTL DEF Spec, SectionOrdersKept

\* A save drops nothing but the section or source it was asked to remove.
LEMMA SaveLoses ==
    ASSUME DirectoryInv, NEW r \in Requests, SaveSections(r), pc'[r] = "ok",
           NEW item, ItemOf(dirs, item), ~ItemOf(dirs', item)
    PROVE  Removes(r, item)
  <1>1. PICK d \in DOMAIN dirs :
            \/ item = <<d>>
            \/ \E x \in IdsOf(dirs[d].sections) : item = <<d, x>>
            \/ \E x, y : HasSrc(dirs[d].sections, x, y) /\ item = <<d, x, y>>
    BY DEF ItemOf
  <1>2. /\ d \in DOMAIN dirs'
        /\ d # job[r].dir => dirs'[d] = dirs[d]
        /\ d = job[r].dir => SavesWell(r, dirs[d].sections, dirs'[d].sections)
    BY SaveItems
  <1>3. Ends(r)
    BY DEF Ends, SaveSections
  <1>4. item # <<d>>
    BY <1>2 DEF ItemOf
  <1>5. d = job[r].dir
    BY <1>1, <1>2 DEF ItemOf
  <1>6. ASSUME NEW x \in IdsOf(dirs[d].sections), item = <<d, x>>
        PROVE  Removes(r, item)
    <2>1. x \notin IdsOf(dirs'[d].sections)
      BY <1>2, <1>6 DEF ItemOf
    <2>2. job[r].kind = "removeSection" /\ x = job[r].section
      BY <1>2, <1>5, <2>1 DEF SavesWell
    <2>3. item[1] = d /\ item[2] = x /\ Len(item) > 1
      BY <1>6
    <2> QED
      BY <1>3, <1>5, <2>2, <2>3 DEF Removes
  <1>7. ASSUME NEW x, NEW y, HasSrc(dirs[d].sections, x, y), item = <<d, x, y>>
        PROVE  Removes(r, item)
    <2>1. ~HasSrc(dirs'[d].sections, x, y)
      BY <1>2, <1>7 DEF ItemOf
    <2>2. \/ job[r].kind = "removeSection" /\ x = job[r].section
          \/ job[r].kind = "removeSource" /\ x = job[r].section /\ y = job[r].source
      BY <1>2, <1>5, <1>7, <2>1 DEF SavesWell
    <2>3. item[1] = d /\ item[2] = x /\ Len(item) = 3 /\ Tail(item) = <<x, y>>
      BY <1>7
    <2> QED
      BY <1>3, <1>5, <2>2, <2>3 DEF Removes
  <1> QED
    BY <1>1, <1>4, <1>6, <1>7

\* Items that are in a directory that stays as it is stay.
LEMMA ItemsStay ==
    ASSUME NEW ds, NEW es, NEW item, ItemOf(ds, item), item[1] \in DOMAIN es,
           es[item[1]].sections = ds[item[1]].sections
    PROVE  ItemOf(es, item)
  <1>1. PICK d \in DOMAIN ds :
            \/ item = <<d>>
            \/ \E x \in IdsOf(ds[d].sections) : item = <<d, x>>
            \/ \E x, y : HasSrc(ds[d].sections, x, y) /\ item = <<d, x, y>>
    BY DEF ItemOf
  <1>2. item[1] = d
    BY <1>1
  <1> QED
    BY <1>1, <1>2 DEF ItemOf

\* Whatever is held is held by a directory of the collection.
LEMMA ItemsIn ==
    ASSUME NEW ds, NEW item, ItemOf(ds, item)
    PROVE  item[1] \in DOMAIN ds
BY DEF ItemOf

\* No directory, section or source goes unless it is removed, whatever
\* requests overlap.
THEOREM NothingIsLost == Spec => NothingLost
  <1>1. ASSUME DirectoryInv, [Next]_vars, NEW item \in Items(dirs) \ Items(dirs')
        PROVE  \E r \in Requests : Removes(r, item)
    <2>1. ItemOf(dirs, item) /\ ~ItemOf(dirs', item)
      BY <1>1, ItemsAre
    <2>2. ~UNCHANGED dirs
      BY <2>1
    <2>3. PICK r \in Requests :
              /\ pc[r] # "ok" /\ pc[r] # "idle" /\ pc' = [pc EXCEPT ![r] = "ok"]
              /\ Create(r) \/ Delete(r) \/ SaveUpdate(r) \/ SaveSections(r)
      BY <1>1, <2>2, DirsChangedBy
    <2>4. pc'[r] = "ok" /\ Ends(r)
      BY <1>1, <2>3 DEF DirectoryInv, TypeOK, Ends
    <2>5. item[1] \in DOMAIN dirs
      BY <2>1, ItemsIn
    <2>6. CASE SaveSections(r)
      BY <1>1, <2>1, <2>4, <2>6, SaveLoses
    <2>7. CASE Create(r)
      <3>1. r \notin DOMAIN dirs
        BY <1>1, <2>7, DirectoryAssumption DEF Create, Settled, DirectoryInv, DirsInv
      <3>2. dirs' = [x \in DOMAIN dirs \cup {r} |-> IF x = r THEN Made(r) ELSE dirs[x]]
        BY <2>2, <2>7 DEF Create, Write
      <3> HIDE DEF Made
      <3>3. item[1] \in DOMAIN dirs' /\ dirs'[item[1]] = dirs[item[1]]
        BY <2>5, <3>1, <3>2
      <3> QED
        BY <2>1, <3>3, ItemsStay
    <2>8. CASE SaveUpdate(r)
      BY <1>1, <2>1, <2>5, <2>8, UpdateItems, ItemsStay
    <2>9. CASE Delete(r)
      <3>1. item[1] = job[r].dir
        <4>1. CASE item[1] # job[r].dir
          <5>1. item[1] \in DOMAIN dirs' /\ dirs'[item[1]] = dirs[item[1]]
            BY <2>5, <2>9, <4>1 DEF Delete
          <5> QED
            BY <2>1, <5>1, ItemsStay
        <4> QED
          BY <4>1
      <3>2. job[r].kind = "remove" /\ dirs[item[1]].owner = job[r].user
        BY <1>1, <2>5, <2>9, <3>1 DEF DirectoryInv, RequestFits, Delete
      <3> QED
        BY <2>4, <3>1, <3>2 DEF Removes
    <2> QED
      BY <2>3, <2>6, <2>7, <2>8, <2>9
  <1>2. DirectoryInv /\ [Next]_vars =>
            [\A item \in Items(dirs) \ Items(dirs') :
                \E r \in Requests : Removes(r, item)]_vars
    BY <1>1
  <1> QED
    BY <1>2, DirectoryInvHolds, PTL DEF Spec, NothingLost

\* Nothing comes, or comes back, but what the request that ends has made.
THEOREM NothingEverReturns == Spec => NothingReturns
  <1>1. ASSUME DirectoryInv, [Next]_vars, NEW item \in Items(dirs') \ Items(dirs)
        PROVE  \E r \in Requests :
                   /\ Ends(r) /\ item[Len(item)] = r
                   /\ job[r].kind \in {"create", "createSection", "createSource"}
    <2>1. ItemOf(dirs', item) /\ ~ItemOf(dirs, item)
      BY <1>1, ItemsAre
    <2>2. ~UNCHANGED dirs
      BY <2>1
    <2>3. PICK r \in Requests :
              /\ pc[r] # "ok" /\ pc[r] # "idle" /\ pc' = [pc EXCEPT ![r] = "ok"]
              /\ Create(r) \/ Delete(r) \/ SaveUpdate(r) \/ SaveSections(r)
      BY <1>1, <2>2, DirsChangedBy
    <2>4. Ends(r)
      BY <1>1, <2>3 DEF DirectoryInv, TypeOK, Ends
    <2>5. item[1] \in DOMAIN dirs'
      BY <2>1, ItemsIn
    <2>6. CASE SaveSections(r)
      <3> DEFINE d == job[r].dir
      <3>1. /\ d \in DOMAIN dirs /\ DOMAIN dirs' = DOMAIN dirs
            /\ \A x \in DOMAIN dirs \ {d} : dirs'[x] = dirs[x]
            /\ SavesWell(r, dirs[d].sections, dirs'[d].sections)
        BY <1>1, <2>6, SaveLeaves
      <3> HIDE DEF d
      <3>2. item[1] = d
        BY <2>1, <2>5, <3>1, ItemsStay
      <3>3. \/ item = <<d>>
            \/ \E x \in IdsOf(dirs'[d].sections) : item = <<d, x>>
            \/ \E x, y : HasSrc(dirs'[d].sections, x, y) /\ item = <<d, x, y>>
        BY <2>1, <3>2 DEF ItemOf
      <3>4. item # <<d>>
        BY <2>1, <3>1 DEF ItemOf
      <3>5. ASSUME NEW x \in IdsOf(dirs'[d].sections), item = <<d, x>>
            PROVE  item[Len(item)] = r /\ job[r].kind = "createSection"
        <4>1. x \notin IdsOf(dirs[d].sections)
          BY <2>1, <3>1, <3>5 DEF ItemOf
        <4>2. job[r].kind = "createSection" /\ x = r
          BY <3>1, <4>1 DEF SavesWell
        <4>3. item[Len(item)] = x
          BY <3>5
        <4> QED
          BY <4>2, <4>3
      <3>6. ASSUME NEW x, NEW y, HasSrc(dirs'[d].sections, x, y), item = <<d, x, y>>
            PROVE  item[Len(item)] = r /\ job[r].kind \in {"createSection", "createSource"}
        <4>1. ~HasSrc(dirs[d].sections, x, y)
          BY <2>1, <3>1, <3>6 DEF ItemOf
        <4>2. job[r].kind \in {"createSection", "createSource"} /\ y = r
          BY <3>1, <3>6, <4>1 DEF SavesWell
        <4>3. item[Len(item)] = y
          BY <3>6
        <4> QED
          BY <4>2, <4>3
      <3> QED
        BY <2>4, <3>3, <3>4, <3>5, <3>6
    <2>7. CASE Create(r)
      <3>1. dirs' = [x \in DOMAIN dirs \cup {r} |-> IF x = r THEN Made(r) ELSE dirs[x]]
        BY <2>2, <2>7 DEF Create, Write
      <3>2. Made(r).sections = <<>>
        BY DEF Made
      <3> HIDE DEF Made
      <3>3. job[r].kind = "create"
        BY <1>1, <2>7 DEF Create, DirectoryInv, RequestFits, Creations
      <3>4. item[1] = r
        <4>1. CASE item[1] # r
          <5>1. item[1] \in DOMAIN dirs /\ dirs'[item[1]] = dirs[item[1]]
            BY <2>5, <3>1, <4>1
          <5> QED
            BY <2>1, <5>1, ItemsStay
        <4> QED
          BY <4>1
      <3>5. dirs'[r].sections = <<>>
        BY <3>1, <3>2
      <3>6. item = <<r>>
        BY <2>1, <3>4, <3>5 DEF ItemOf, IdsOf, HasSrc
      <3>7. item[Len(item)] = r
        BY <3>6
      <3> QED
        BY <2>4, <3>3, <3>7
    <2>8. CASE SaveUpdate(r)
      <3>1. DOMAIN dirs' = DOMAIN dirs
        BY <1>1, <2>8 DEF SaveUpdate
      <3>2. dirs'[item[1]].sections = dirs[item[1]].sections
        BY <1>1, <2>5, <2>8, <3>1, UpdateItems
      <3> QED
        BY <2>1, <2>5, <3>1, <3>2, ItemsStay
    <2>9. CASE Delete(r)
      <3>1. item[1] \in DOMAIN dirs /\ dirs'[item[1]] = dirs[item[1]]
        BY <2>5, <2>9 DEF Delete
      <3> QED
        BY <2>1, <3>1, ItemsStay
    <2> QED
      BY <2>3, <2>6, <2>7, <2>8, <2>9
  <1>2. DirectoryInv /\ [Next]_vars =>
            [\A item \in Items(dirs') \ Items(dirs) :
                \E r \in Requests :
                    /\ Ends(r) /\ item[Len(item)] = r
                    /\ job[r].kind \in {"create", "createSection", "createSource"}]_vars
    BY <1>1
  <1> QED
    BY <1>2, DirectoryInvHolds, PTL DEF Spec, NothingReturns

\* Where sections and sources of one shape are found.
LEMMA FoundThere ==
    ASSUME NEW S, NEW new, Fits(S), Fits(new), Shape(new) = Shape(S), NEW x \in IdsOf(S)
    PROVE  LET k == Find(S, x) IN
           /\ k \in DOMAIN S /\ S[k].id = x /\ Find(new, x) = k
           /\ \A j \in DOMAIN S : S[j].id = x => j = k
           /\ \A y \in IdsOf(S[k].sources) :
                 LET n == Find(S[k].sources, y) IN
                 /\ n \in DOMAIN S[k].sources /\ S[k].sources[n].id = y
                 /\ Find(new[k].sources, y) = n
                 /\ \A j \in DOMAIN S[k].sources : S[k].sources[j].id = y => j = n
  <1> DEFINE k == Find(S, x)
  <1>1. S \in Seq(Section) /\ new \in Seq(Section) /\ UniqueIds(S) /\ UniqueIds(new)
    BY DEF Fits
  <1>2. /\ DOMAIN new = DOMAIN S /\ IdsOf(new) = IdsOf(S)
        /\ \A j \in DOMAIN S :
              /\ new[j].id = S[j].id /\ DOMAIN new[j].sources = DOMAIN S[j].sources
              /\ IdsOf(new[j].sources) = IdsOf(S[j].sources)
              /\ \A n \in DOMAIN S[j].sources : new[j].sources[n].id = S[j].sources[n].id
    BY <1>1, ShapeTells
  <1>3. k \in DOMAIN S /\ S[k].id = x /\ \A j \in DOMAIN S : S[j].id = x => j = k
    BY <1>1, FindsItem
  <1>4. Find(new, x) = k
    <2> HIDE DEF k
    <2>1. new[k].id = x /\ k \in DOMAIN new
      BY <1>2, <1>3
    <2> QED
      BY <1>1, <1>2, <2>1, FindsItem
  <1> HIDE DEF k
  <1>5. ASSUME NEW y \in IdsOf(S[k].sources)
        PROVE  LET n == Find(S[k].sources, y) IN
               /\ n \in DOMAIN S[k].sources /\ S[k].sources[n].id = y
               /\ Find(new[k].sources, y) = n
               /\ \A j \in DOMAIN S[k].sources : S[k].sources[j].id = y => j = n
    <2> DEFINE X == S[k].sources
               Y == new[k].sources
               n == Find(X, y)
    <2>1. UniqueIds(X) /\ UniqueIds(Y)
      BY <1>2, <1>3 DEF Fits
    <2>2. /\ DOMAIN Y = DOMAIN X /\ IdsOf(Y) = IdsOf(X)
          /\ \A j \in DOMAIN X : Y[j].id = X[j].id
      BY <1>2, <1>3
    <2> HIDE DEF X, Y
    <2>3. n \in DOMAIN X /\ X[n].id = y /\ \A j \in DOMAIN X : X[j].id = y => j = n
      BY <1>5, <2>1, FindsItem DEF X
    <2> HIDE DEF n
    <2>4. y \in IdsOf(Y) /\ Y[n].id = y /\ n \in DOMAIN Y
      BY <1>5, <2>2, <2>3 DEF X
    <2>5. Find(Y, y) = n
      BY <2>1, <2>4, FindsItem
    <2> QED
      BY <2>3, <2>5 DEF X, Y, n
  <1> QED
    BY <1>3, <1>4, <1>5 DEF k

\* The text of a section, and of a source.
LEMMA TextIs ==
    ASSUME NEW ds, NEW d, NEW x, NEW y
    PROVE  LET S == ds[d].sections
               k == Find(S, x)
           IN  /\ TextAt(ds, <<d, x>>) = S[k].text
               /\ TextAt(ds, <<d, x, y>>) = S[k].sources[Find(S[k].sources, y)].text
BY DEF TextAt

\* An edit changes one text: that of the section or source it names.
OneTextIs(S, new, section, source, isSource, text) ==
    /\ \A x \in IdsOf(S) :
          new[Find(new, x)].text # S[Find(S, x)].text => x = section /\ ~isSource
    /\ \A x, y : HasSrc(S, x, y) =>
          LET j == Find(S, x)
              k == Find(new, x)
          IN  new[k].sources[Find(new[k].sources, y)].text
                # S[j].sources[Find(S[j].sources, y)].text =>
              isSource /\ x = section /\ y = source
    /\ section \in IdsOf(S)
    /\ ~isSource => new[Find(new, section)].text = text
    /\ isSource =>
          LET k == Find(new, section) IN
          /\ HasSrc(S, section, source)
          /\ new[k].sources[Find(new[k].sources, source)].text = text

\* Every source is found in its section.
LEMMA SourceThere ==
    ASSUME NEW S, Fits(S), NEW x, NEW y, HasSrc(S, x, y)
    PROVE  x \in IdsOf(S) /\ y \in IdsOf(S[Find(S, x)].sources)
  <1>1. PICK k \in DOMAIN S : S[k].id = x /\ y \in IdsOf(S[k].sources)
    BY DEF HasSrc
  <1>2. x \in IdsOf(S)
    BY <1>1 DEF IdsOf
  <1>3. k = Find(S, x)
    BY <1>1, <1>2, FindsItem DEF Fits
  <1> QED
    BY <1>1, <1>2, <1>3

\* An edit of a section changes its text alone.
LEMMA UpdateSectionHits ==
    ASSUME NEW r \in Requests, NEW S, Ready(r, S), Changed(r),
           job[r].kind = "updateSection", NEW source
    PROVE  OneTextIs(S, Written(r, S), job[r].section, source, FALSE, job[r].text)
  <1> DEFINE kk == Find(copy[r].sections, job[r].section)
             new == Written(r, S)
  <1>1. /\ kk \in DOMAIN S /\ S[kk].id = job[r].section
        /\ Fits(S) /\ Fits(new) /\ Shape(new) = Shape(S) /\ DOMAIN new = DOMAIN S
        /\ new[kk].text = job[r].text /\ new[kk].sources = S[kk].sources
        /\ \A j \in DOMAIN S : j # kk => new[j] = S[j]
    BY UpdateSectionWrites
  <1> HIDE DEF kk, new
  <1>2. ASSUME NEW x \in IdsOf(S)
        PROVE  /\ Find(S, x) \in DOMAIN S /\ S[Find(S, x)].id = x
               /\ Find(new, x) = Find(S, x)
               /\ \A j \in DOMAIN S : S[j].id = x => j = Find(S, x)
               /\ \A y \in IdsOf(S[Find(S, x)].sources) :
                     Find(new[Find(S, x)].sources, y) = Find(S[Find(S, x)].sources, y)
    BY <1>1, FoundThere
  <1>3. ASSUME NEW x \in IdsOf(S), new[Find(new, x)].text # S[Find(S, x)].text
        PROVE  x = job[r].section
    BY <1>1, <1>2, <1>3
  <1>4. ASSUME NEW x, NEW y, HasSrc(S, x, y)
        PROVE  LET j == Find(S, x)
                   k == Find(new, x)
               IN  new[k].sources[Find(new[k].sources, y)].text
                     = S[j].sources[Find(S[j].sources, y)].text
    <2>1. x \in IdsOf(S) /\ y \in IdsOf(S[Find(S, x)].sources)
      BY <1>1, <1>4, SourceThere
    <2>2. new[Find(S, x)].sources = S[Find(S, x)].sources
      BY <1>1, <1>2, <2>1
    <2> QED
      BY <1>2, <2>1, <2>2
  <1>5. job[r].section \in IdsOf(S)
    BY <1>1 DEF IdsOf
  <1>6. new[Find(new, job[r].section)].text = job[r].text
    BY <1>1, <1>2, <1>5
  <1>7. OneTextIs(S, new, job[r].section, source, FALSE, job[r].text)
    BY <1>3, <1>4, <1>5, <1>6 DEF OneTextIs
  <1> QED
    BY <1>7 DEF new

\* An edit of a source does the same.
LEMMA UpdateSourceHits ==
    ASSUME NEW r \in Requests, NEW S, Ready(r, S), Changed(r),
           job[r].kind = "updateSource"
    PROVE  OneTextIs(S, Written(r, S), job[r].section, job[r].source, TRUE, job[r].text)
  <1> DEFINE kk == Find(copy[r].sections, job[r].section)
             nn == Find(SectionOf(r, copy[r]).sources, job[r].source)
             new == Written(r, S)
  <1>1. /\ kk \in DOMAIN S /\ S[kk].id = job[r].section
        /\ nn \in DOMAIN S[kk].sources /\ S[kk].sources[nn].id = job[r].source
        /\ Fits(S) /\ Fits(new) /\ Shape(new) = Shape(S) /\ DOMAIN new = DOMAIN S
        /\ new[kk].sources[nn].text = job[r].text
        /\ \A j \in DOMAIN S : new[j].text = S[j].text
        /\ \A j \in DOMAIN S : j # kk => new[j] = S[j]
        /\ \A m \in DOMAIN S[kk].sources : m # nn => new[kk].sources[m] = S[kk].sources[m]
    BY UpdateSourceWrites
  <1> HIDE DEF kk, nn, new
  <1>2. ASSUME NEW x \in IdsOf(S)
        PROVE  /\ Find(S, x) \in DOMAIN S /\ S[Find(S, x)].id = x
               /\ Find(new, x) = Find(S, x)
               /\ \A j \in DOMAIN S : S[j].id = x => j = Find(S, x)
    BY <1>1, FoundThere
  <1>3. ASSUME NEW x \in IdsOf(S), NEW y \in IdsOf(S[Find(S, x)].sources)
        PROVE  LET k == Find(S, x)
                   n == Find(S[k].sources, y)
               IN  /\ n \in DOMAIN S[k].sources /\ S[k].sources[n].id = y
                   /\ Find(new[k].sources, y) = n
                   /\ \A j \in DOMAIN S[k].sources : S[k].sources[j].id = y => j = n
    BY <1>1, FoundThere
  <1>4. \A x \in IdsOf(S) : new[Find(new, x)].text = S[Find(S, x)].text
    BY <1>1, <1>2
  <1>5. ASSUME NEW x, NEW y, HasSrc(S, x, y),
               LET j == Find(S, x)
                   k == Find(new, x)
               IN  new[k].sources[Find(new[k].sources, y)].text
                     # S[j].sources[Find(S[j].sources, y)].text
        PROVE  x = job[r].section /\ y = job[r].source
    <2> DEFINE k == Find(S, x)
               n == Find(S[k].sources, y)
    <2>1. x \in IdsOf(S) /\ y \in IdsOf(S[k].sources)
      BY <1>1, <1>5, SourceThere
    <2>2. Find(new, x) = k /\ k \in DOMAIN S /\ S[k].id = x
      BY <1>2, <2>1
    <2>3. n \in DOMAIN S[k].sources /\ S[k].sources[n].id = y /\ Find(new[k].sources, y) = n
      BY <1>3, <2>1
    <2>4. new[k].sources[n].text # S[k].sources[n].text
      BY <1>5, <2>2, <2>3
    <2> HIDE DEF k, n
    <2>5. k = kk
      BY <1>1, <2>2, <2>4
    <2>6. n = nn
      BY <1>1, <2>3, <2>4, <2>5
    <2> QED
      BY <1>1, <2>2, <2>3, <2>5, <2>6
  <1>6. job[r].section \in IdsOf(S) /\ HasSrc(S, job[r].section, job[r].source)
    BY <1>1 DEF IdsOf, HasSrc
  <1>7. LET k == Find(new, job[r].section) IN
        new[k].sources[Find(new[k].sources, job[r].source)].text = job[r].text
    <2>1. Find(S, job[r].section) = kk /\ Find(new, job[r].section) = kk
      BY <1>1, <1>2, <1>6
    <2>2. job[r].source \in IdsOf(S[kk].sources)
      BY <1>1 DEF IdsOf
    <2>3. Find(new[kk].sources, job[r].source) = nn
      BY <1>1, <1>3, <1>6, <2>1, <2>2
    <2> QED
      BY <1>1, <2>1, <2>3
  <1>8. OneTextIs(S, new, job[r].section, job[r].source, TRUE, job[r].text)
    BY <1>4, <1>5, <1>6, <1>7 DEF OneTextIs
  <1> QED
    BY <1>8 DEF new

\* Two collections hold the same items, and differ in the text of one of them.
DifferAt(ds, es, target, text) ==
    /\ Items(es) = Items(ds)
    /\ \A item \in Items(ds) :
          Len(item) > 1 /\ TextAt(es, item) # TextAt(ds, item) => item = target
    /\ target \in Items(ds) /\ TextAt(es, target) = text

\* Sections of one shape hold the same items.
LEMMA OneTextDiffers ==
    ASSUME NEW ds, NEW es, NEW d \in DOMAIN ds, DOMAIN es = DOMAIN ds,
           \A x \in DOMAIN ds \ {d} : es[x] = ds[x],
           Fits(ds[d].sections), Fits(es[d].sections),
           Shape(es[d].sections) = Shape(ds[d].sections),
           NEW section, NEW source, NEW isSource, NEW text, NEW target,
           target = (IF isSource THEN <<d, section, source>> ELSE <<d, section>>),
           OneTextIs(ds[d].sections, es[d].sections, section, source, isSource, text)
    PROVE  DifferAt(ds, es, target, text)
  <1> DEFINE S == ds[d].sections
             new == es[d].sections
  <1>1. /\ IdsOf(new) = IdsOf(S)
        /\ \A x, y : HasSrc(new, x, y) <=> HasSrc(S, x, y)
    BY ShapeTells DEF Fits
  <1>2. ASSUME NEW item PROVE ItemOf(es, item) <=> ItemOf(ds, item)
    <2>1. ASSUME NEW x \in DOMAIN ds
          PROVE  /\ IdsOf(es[x].sections) = IdsOf(ds[x].sections)
                 /\ \A y, z : HasSrc(es[x].sections, y, z) <=> HasSrc(ds[x].sections, y, z)
      <3>1. CASE x = d
        BY <1>1, <3>1
      <3>2. CASE x # d
        BY <3>2
      <3> QED
        BY <3>1, <3>2
    <2> QED
      BY <2>1 DEF ItemOf
  <1>3. Items(es) = Items(ds)
    <2>1. \A item : item \in Items(es) <=> item \in Items(ds)
      BY <1>2, ItemsAre
    <2> QED
      BY <2>1
  <1>7. ASSUME NEW x, NEW y
        PROVE  LET j == Find(S, x)
                   k == Find(new, x)
               IN  /\ TextAt(ds, <<d, x>>) = S[j].text
                   /\ TextAt(es, <<d, x>>) = new[k].text
                   /\ TextAt(ds, <<d, x, y>>) = S[j].sources[Find(S[j].sources, y)].text
                   /\ TextAt(es, <<d, x, y>>) = new[k].sources[Find(new[k].sources, y)].text
    BY TextIs
  <1>4. target \in Items(ds)
    <2>1. IF isSource THEN HasSrc(S, section, source) ELSE section \in IdsOf(S)
      BY DEF OneTextIs
    <2>2. ItemOf(ds, target)
      BY <2>1 DEF ItemOf
    <2> QED
      BY <2>2, ItemsAre
  <1>5. TextAt(es, target) = text
    <2>1. CASE isSource
      <3>1. target = <<d, section, source>>
        BY <2>1
      <3> QED
        BY <1>7, <2>1, <3>1 DEF OneTextIs
    <2>2. CASE ~isSource
      <3>1. target = <<d, section>>
        BY <2>2
      <3> QED
        BY <1>7, <2>2, <3>1 DEF OneTextIs
    <2> QED
      BY <2>1, <2>2
  <1>6. ASSUME NEW item \in Items(ds), Len(item) > 1, TextAt(es, item) # TextAt(ds, item)
        PROVE  item = target
    <2>1. PICK e \in DOMAIN ds :
              \/ item = <<e>>
              \/ \E x \in IdsOf(ds[e].sections) : item = <<e, x>>
              \/ \E x, y : HasSrc(ds[e].sections, x, y) /\ item = <<e, x, y>>
      BY <1>6, ItemsAre DEF ItemOf
    <2>2. item # <<e>>
      BY <1>6
    <2>3. ASSUME NEW x, NEW y, item = <<e, x>> \/ item = <<e, x, y>> PROVE e = d
      <3>1. CASE e # d
        <4>1. es[e].sections = ds[e].sections
          BY <3>1
        <4>2. TextAt(es, <<e, x>>) = TextAt(ds, <<e, x>>)
                /\ TextAt(es, <<e, x, y>>) = TextAt(ds, <<e, x, y>>)
          BY <4>1, TextIs
        <4> QED
          BY <1>6, <2>3, <4>2
      <3> QED
        BY <3>1
    <2>4. ASSUME NEW x \in IdsOf(ds[e].sections), item = <<e, x>> PROVE item = target
      <3>1. e = d
        BY <2>3, <2>4
      <3>2. new[Find(new, x)].text # S[Find(S, x)].text
        BY <1>6, <1>7, <2>4, <3>1
      <3>3. x = section /\ ~isSource
        BY <2>4, <3>1, <3>2 DEF OneTextIs
      <3> QED
        BY <2>4, <3>1, <3>3
    <2>5. ASSUME NEW x, NEW y, HasSrc(ds[e].sections, x, y), item = <<e, x, y>>
          PROVE  item = target
      <3>1. e = d
        BY <2>3, <2>5
      <3>2. LET j == Find(S, x)
                k == Find(new, x)
            IN  new[k].sources[Find(new[k].sources, y)].text
                  # S[j].sources[Find(S[j].sources, y)].text
        <4>1. TextAt(es, <<d, x, y>>) # TextAt(ds, <<d, x, y>>)
          BY <1>6, <2>5, <3>1
        <4> DEFINE a == LET j == Find(S, x) IN S[j].sources[Find(S[j].sources, y)].text
                   b == LET k == Find(new, x) IN new[k].sources[Find(new[k].sources, y)].text
        <4>2. a = TextAt(ds, <<d, x, y>>) /\ b = TextAt(es, <<d, x, y>>)
          <5> HIDE DEF S, new
          <5> QED
            BY <1>7
        <4> HIDE DEF a, b
        <4>3. b # a
          BY <4>1, <4>2
        <4> QED
          BY <4>3 DEF a, b
      <3>3. isSource /\ x = section /\ y = source
        BY <2>5, <3>1, <3>2 DEF OneTextIs
      <3> QED
        BY <2>5, <3>1, <3>3
    <2> QED
      BY <2>1, <2>2, <2>4, <2>5
  <1> QED
    BY <1>3, <1>4, <1>5, <1>6 DEF DifferAt

\* What the save of an edit leaves.
LEMMA EditHits ==
    ASSUME DirectoryInv, NEW r \in Requests, SaveSections(r),
           job[r].kind \in {"updateSection", "updateSource"}
    PROVE  HitsTarget(r)
  <1> DEFINE d == job[r].dir
             S == dirs[d].sections
             new == dirs'[d].sections
  <1>1. /\ d \in DOMAIN dirs /\ DOMAIN dirs' = DOMAIN dirs
        /\ \A x \in DOMAIN dirs \ {d} : dirs'[x] = dirs[x]
        /\ new = IF Changed(r) THEN Written(r, S) ELSE S
        /\ Fits(S) /\ Fits(new)
    BY SaveLeaves
  <1>2. Ready(r, S)
    BY SaveIsReady
  <1> HIDE DEF d
  <1>3. CASE ~Changed(r)
    <2>1. \A x \in DOMAIN dirs : dirs'[x].sections = dirs[x].sections
      BY <1>1, <1>3
    <2>2. Items(dirs') = Items(dirs)
      <3>1. ASSUME NEW item PROVE ItemOf(dirs', item) <=> ItemOf(dirs, item)
        BY <1>1, <2>1 DEF ItemOf
      <3> QED
        BY <3>1, ItemsAre
    <2>3. ASSUME NEW item \in Items(dirs) PROVE TextAt(dirs', item) = TextAt(dirs, item)
      <3>1. item[1] \in DOMAIN dirs
        BY <2>3, ItemsAre, ItemsIn
      <3> QED
        BY <2>1, <3>1 DEF TextAt
    <2> QED
      BY <1>3, <2>2, <2>3 DEF HitsTarget
  <1>4. CASE Changed(r) /\ job[r].kind = "updateSection"
    <2>1. Shape(new) = Shape(S)
      BY <1>1, <1>2, <1>4, UpdateSectionWrites
    <2>2. OneTextIs(S, new, job[r].section, None, FALSE, job[r].text)
      BY <1>1, <1>2, <1>4, UpdateSectionHits
    <2>3. Target(r) = IF FALSE THEN <<d, job[r].section, None>> ELSE <<d, job[r].section>>
      BY <1>4 DEF Target, d
    <2> HIDE DEF S, new
    <2>4. DifferAt(dirs, dirs', Target(r), job[r].text)
      BY <1>1, <2>1, <2>2, <2>3, OneTextDiffers DEF S, new
    <2> QED
      BY <2>4 DEF HitsTarget, DifferAt
  <1>5. CASE Changed(r) /\ job[r].kind = "updateSource"
    <2>1. Shape(new) = Shape(S)
      BY <1>1, <1>2, <1>5, UpdateSourceWrites
    <2>2. OneTextIs(S, new, job[r].section, job[r].source, TRUE, job[r].text)
      BY <1>1, <1>2, <1>5, UpdateSourceHits
    <2>3. Target(r) = IF TRUE THEN <<d, job[r].section, job[r].source>> ELSE <<d, job[r].section>>
      BY <1>5 DEF Target, d
    <2> HIDE DEF S, new
    <2>4. DifferAt(dirs, dirs', Target(r), job[r].text)
      BY <1>1, <2>1, <2>2, <2>3, OneTextDiffers DEF S, new
    <2> QED
      BY <2>4 DEF HitsTarget, DifferAt
  <1> QED
    BY <1>3, <1>4, <1>5

\* An edit of a text writes the section or source it names and no other, or
\* fails, wherever the requests that overlap it have moved things.
THEOREM EditsAlwaysHitTarget == Spec => EditsHitTarget
  <1>1. ASSUME DirectoryInv, [Next]_vars, NEW r \in Requests, Ends(r),
               job[r].kind \in {"updateSection", "updateSource"}
        PROVE  HitsTarget(r)
    <2>1. CASE SaveSections(r)
      BY <1>1, <2>1, EditHits
    <2>2. ASSUME NEW q \in Requests, pc' = [pc EXCEPT ![q] = "ok"],
                 Create(q) \/ Delete(q) \/ SaveUpdate(q) \/ SaveSections(q)
          PROVE  HitsTarget(r)
      <3>1. q = r
        BY <1>1, <2>2 DEF Ends, DirectoryInv, TypeOK
      <3>2. RequestFits(r)
        BY <1>1 DEF DirectoryInv
      <3>3. ~Create(r)
        BY <1>1, <3>2 DEF Create, RequestFits, Creations
      <3>4. ~Delete(r) /\ ~SaveUpdate(r)
        BY <1>1, <3>2 DEF Delete, SaveUpdate, RequestFits
      <3> QED
        BY <2>1, <2>2, <3>1, <3>3, <3>4
    <2> QED
      BY <1>1, <2>1, <2>2, DirsChangedBy
  <1>2. DirectoryInv /\ [Next]_vars =>
            [\A r \in Requests :
                Ends(r) /\ job[r].kind \in {"updateSection", "updateSource"} => HitsTarget(r)]_vars
    BY <1>1
  <1> QED
    BY <1>2, DirectoryInvHolds, PTL DEF Spec, EditsHitTarget

=============================================================================
