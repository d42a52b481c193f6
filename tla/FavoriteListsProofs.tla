------------------------- MODULE FavoriteListsProofs -------------------------
(***************************************************************************)
(* For any number of requests, lists and resources: the version check of a *)
(* removal is sound, since what it writes back was computed from the       *)
(* stored favourites, or they were purged since; a favourite goes only     *)
(* when the owner removes it, purges or deletes the list, and comes only   *)
(* when the owner adds it, or when a removal writes back what was purged   *)
(* while it was under way; and when requests come one after another, they  *)
(* do exactly what they answer.                                            *)
(***************************************************************************)
EXTENDS FavoriteListsInTurn, TLAPS, SequenceTheorems, FiniteSetTheorems,
        WellFoundedInduction

Guarded(r) ==
    pc[r] = "saveRemoved" /\ job[r].list \in DOMAIN lists =>
        /\ copy[r].v <= lists[job[r].list].v
        /\ lists[job[r].list].v = copy[r].v =>
              lists[job[r].list].favs \in {copy[r].favs, <<>>}

HoldsMade(r) ==
    pc[r] = "saveRemoved" => copy[r].v \in Nat /\ job[r].list \notin Unmade

ListFits(l) ==
    /\ {"favs", "v"} \subseteq DOMAIN lists[l] /\ lists[l].v \in Nat
    /\ l \notin Unmade

\* GuardInv request by request.
Parts ==
    /\ \A r \in Requests : Guarded(r) /\ HoldsMade(r)
    /\ \A l \in DOMAIN lists : ListFits(l)
    /\ DOMAIN copy = Requests
    /\ pc = [r \in Requests |-> pc[r]]

LEMMA GuardInvByParts == (GuardInv <=> Parts) /\ (GuardInv' <=> Parts')
  BY DEF Parts, GuardInv, VersionGuardsFavorites, Guarded, HoldsMade, ListFits

\* No request was sent, and the lists there are were made before.
LEMMA InitGuardInv == Init => GuardInv
  <1> SUFFICES ASSUME Init PROVE GuardInv
    OBVIOUS
  <1>1. \A r \in Requests : pc[r] = "idle"
    BY DEF Init
  <1>2. ASSUME NEW l \in DOMAIN lists PROVE ListFits(l)
    <2>1. lists \in [DOMAIN lists -> List] /\ l \in StartIds
      BY InitialListsAssumption DEF Init, StartIds
    <2>2. l \notin Requests
      BY <2>1, InitialListsAssumption
    <2> QED
      BY <2>1, <2>2 DEF List, ListFits, Unmade
  <1>3. pc = [r \in Requests |-> pc[r]] /\ DOMAIN copy = Requests
    BY DEF Init
  <1> QED
    BY <1>1, <1>2, <1>3, GuardInvByParts DEF Parts, Guarded, HoldsMade

(***************************************************************************)
(* How a step may change one list without disturbing a removal under way:  *)
(* not at all, by emptying it, or with a higher version.                   *)
(***************************************************************************)
ListChange(l) ==
    /\ DOMAIN lists'[l] = DOMAIN lists[l]
    /\ \/ lists'[l] = lists[l]
       \/ lists'[l].favs = <<>> /\ lists'[l].v = lists[l].v
       \/ lists'[l].v = lists[l].v + 1

\* A step of r that makes no list and reads none.
LEMMA ChangesKeepGuardInv ==
    ASSUME GuardInv, NEW r \in Requests,
           job' = job, copy' = copy,
           NEW step, pc' = [pc EXCEPT ![r] = step],
           step # "saveRemoved", step \notin {"idle", "create", "sync", "createSynced"},
           DOMAIN lists' \subseteq DOMAIN lists,
           \A l \in DOMAIN lists' : ListChange(l)
    PROVE  GuardInv'
  <1> USE GuardInvByParts DEF Parts
  <1>1. Unmade' \subseteq Unmade
    BY DEF Unmade
  <1>2. ASSUME NEW l \in DOMAIN lists' PROVE ListFits(l)'
    BY <1>1, <1>2 DEF ListChange, ListFits
  <1>3. ASSUME NEW q \in Requests PROVE Guarded(q)' /\ HoldsMade(q)'
    <2>1. CASE pc'[q] # "saveRemoved"
      BY <2>1 DEF Guarded, HoldsMade
    <2>2. CASE pc'[q] = "saveRemoved"
      <3>1. pc[q] = "saveRemoved"
        BY <2>2
      <3>2. HoldsMade(q)'
        BY <3>1, <1>1 DEF HoldsMade
      <3>3. ASSUME job[q].list \in DOMAIN lists' PROVE Guarded(q)'
        <4> DEFINE l == job[q].list
        <4>1. ListChange(l) /\ lists[l].v \in Nat /\ copy[q].v \in Nat
          BY <3>1, <3>3 DEF ListFits, HoldsMade
        <4>2. /\ copy[q].v <= lists[l].v
              /\ lists[l].v = copy[q].v => lists[l].favs \in {copy[q].favs, <<>>}
          BY <3>1, <3>3 DEF Guarded
        <4> QED
          BY <4>1, <4>2 DEF ListChange, Guarded
      <3> QED
        BY <3>2, <3>3 DEF Guarded
    <2> QED
      BY <2>1, <2>2
  <1> QED
    BY <1>2, <1>3

\* A client sends a request: it holds nothing yet.
LEMMA StartKeepsGuardInv ==
    ASSUME GuardInv, NEW r \in Requests, Start(r) PROVE GuardInv'
  <1> USE GuardInvByParts DEF Parts
  <1>1. PICK j \in Job : job' = [job EXCEPT ![r] = j] /\ Goto(r, j.kind)
    BY DEF Start
  <1>2. /\ pc[r] = "idle" /\ lists' = lists /\ copy' = copy
        /\ pc' = [pc EXCEPT ![r] = j.kind] /\ j.kind # "saveRemoved"
    BY <1>1, FavoritesAssumption
    DEF Start, Goto, Job, ItemJob, ListJob, MakeJob, SyncJob
  <1>3. Unmade' \subseteq Unmade
    BY <1>2 DEF Unmade
  <1>4. ASSUME NEW q \in Requests PROVE Guarded(q)' /\ HoldsMade(q)'
    BY <1>1, <1>2, <1>3 DEF Guarded, HoldsMade
  <1> QED
    BY <1>2, <1>3, <1>4 DEF ListFits

\* A removal reads its list.
LEMMA ReadKeepsGuardInv ==
    ASSUME GuardInv, NEW r \in Requests, ReadForAdd(r) \/ ReadForRemove(r)
    PROVE  GuardInv'
  <1> USE GuardInvByParts DEF Parts
  <1>1. /\ Owned(r) /\ lists' = lists /\ job' = job
        /\ copy' = [copy EXCEPT ![r] = lists[job[r].list]]
        /\ \E step \in {"conflict", "push", "saveRemoved"} :
              pc' = [pc EXCEPT ![r] = step]
    BY DEF ReadForAdd, ReadForRemove, Goto
  <1>2. Unmade' \subseteq Unmade
    BY <1>1 DEF Unmade
  <1>3. ASSUME NEW q \in Requests, q # r PROVE Guarded(q)' /\ HoldsMade(q)'
    BY <1>1, <1>2, <1>3 DEF Guarded, HoldsMade
  <1>4. Guarded(r)' /\ HoldsMade(r)'
    BY <1>1, <1>2 DEF Guarded, HoldsMade, ListFits, Owned
  <1> QED
    BY <1>1, <1>2, <1>3, <1>4 DEF ListFits

\* A list is made under an id that nobody holds.
LEMMA MakeKeepsGuardInv ==
    ASSUME GuardInv, NEW r \in Requests, Create(r) \/ CreateSynced(r)
    PROVE  GuardInv'
  <1> USE GuardInvByParts DEF Parts
  <1>1. /\ r \in Unmade /\ job' = job /\ copy' = copy
        /\ pc' = [pc EXCEPT ![r] = "ok"]
        /\ DOMAIN lists' = DOMAIN lists \cup {r}
        /\ lists'[r].v = 0 /\ {"favs", "v"} \subseteq DOMAIN lists'[r]
        /\ \A l \in DOMAIN lists : l # r => lists'[l] = lists[l]
    BY DEF Create, CreateSynced, Goto, Write, NewList, Unmade
  <1>2. Unmade' = Unmade \ {r}
    BY <1>1 DEF Unmade
  <1>3. ASSUME NEW q \in Requests PROVE Guarded(q)' /\ HoldsMade(q)'
    BY <1>1, <1>2 DEF Guarded, HoldsMade
  <1>4. ASSUME NEW l \in DOMAIN lists' PROVE ListFits(l)'
    BY <1>1, <1>2 DEF ListFits
  <1> QED
    BY <1>1, <1>3, <1>4

\* The steps that write or delete a list, or nothing.
LEMMA WriteKeepsGuardInv ==
    ASSUME GuardInv, NEW r \in Requests,
           \/ NotFound(r) \/ Push(r) \/ SaveRemoved(r) \/ SaveRefused(r)
           \/ Purge(r) \/ Delete(r)
    PROVE  GuardInv'
  <1>0. \A l \in DOMAIN lists : ListFits(l)
    BY GuardInvByParts DEF Parts
  <1>1. /\ DOMAIN lists' \subseteq DOMAIN lists
        /\ \A l \in DOMAIN lists' : ListChange(l)
    <2>1. CASE NotFound(r) \/ SaveRefused(r)
      BY <2>1 DEF NotFound, SaveRefused, ListChange
    <2>2. CASE Push(r)
      BY <1>0, <2>2 DEF Push, Write, ListFits, ListChange
    <2>3. CASE SaveRemoved(r)
      <3> DEFINE l == job[r].list
                 new == [lists[l] EXCEPT !.favs = Spliced(r), !.v = @ + 1]
      <3>1. l \in DOMAIN lists /\ (UNCHANGED lists \/ Write(l, new))
        BY <2>3 DEF SaveRemoved
      <3>2. DOMAIN new = DOMAIN lists[l] /\ new.v = lists[l].v + 1
        BY <1>0, <3>1 DEF ListFits
      <3> HIDE DEF l, new
      <3> QED
        BY <3>1, <3>2 DEF Write, ListChange
    <2>4. CASE Purge(r)
      BY <1>0, <2>4 DEF Purge, Owned, Write, ListFits, ListChange
    <2>5. CASE Delete(r)
      BY <2>5 DEF Delete, ListChange
    <2> QED
      BY <2>1, <2>2, <2>3, <2>4, <2>5
  <1>2. /\ job' = job /\ copy' = copy
        /\ \E step \in {"notFound", "ok", "failed"} : pc' = [pc EXCEPT ![r] = step]
    BY DEF NotFound, Push, SaveRemoved, SaveRefused, Purge, Delete, Goto
  <1> QED
    BY <1>1, <1>2, ChangesKeepGuardInv

\* A sync looks for an identical list and writes nothing.
LEMMA SyncKeepsGuardInv ==
    ASSUME GuardInv, NEW r \in Requests, ReadCandidates(r) PROVE GuardInv'
  <1> USE GuardInvByParts DEF Parts
  <1>1. /\ lists' = lists /\ job' = job /\ copy' = copy /\ r \in Unmade
        /\ \E step \in {"exists", "createSynced"} : pc' = [pc EXCEPT ![r] = step]
    BY DEF ReadCandidates, Goto, Unmade
  <1>2. Unmade' \subseteq Unmade
    BY <1>1 DEF Unmade
  <1>3. ASSUME NEW q \in Requests PROVE Guarded(q)' /\ HoldsMade(q)'
    BY <1>1, <1>2 DEF Guarded, HoldsMade
  <1> QED
    BY <1>1, <1>2, <1>3 DEF ListFits

\* What the versions stand for, in every reachable state.
THEOREM GuardInvHolds == Spec => []GuardInv
  <1>1. ASSUME GuardInv, [Next]_vars PROVE GuardInv'
    <2>1. CASE UNCHANGED vars
      BY <1>1, <2>1 DEF vars, GuardInv, VersionGuardsFavorites, Unmade
    <2>2. ASSUME NEW r \in Requests, Start(r) \/ Advance(r) PROVE GuardInv'
      BY <1>1, <2>2, StartKeepsGuardInv, ReadKeepsGuardInv, MakeKeepsGuardInv,
         WriteKeepsGuardInv, SyncKeepsGuardInv
      DEF Advance
    <2> QED
      BY <1>1, <2>1, <2>2 DEF Next, Finished
  <1> QED
    BY InitGuardInv, <1>1, PTL DEF Spec

(***************************************************************************)
(* THEOREM: while the version a removal read is the stored one, it writes  *)
(* back what it read, or undoes a purge; it never loses a concurrent add.  *)
(***************************************************************************)
THEOREM VersionCheckIsSound == Spec => []VersionGuardsFavorites
  <1>1. GuardInv => VersionGuardsFavorites
    BY DEF GuardInv
  <1> QED
    BY GuardInvHolds, <1>1, PTL

-----------------------------------------------------------------------------
(* Sequences and sets of favourites. *)

\* The library's Min is one of the numbers of its argument.
LEMMA LeastExists ==
    ASSUME NEW I, I \subseteq Nat, I # {}
    PROVE  Min(I) \in I /\ \A y \in I : Min(I) <= y
  <1> DEFINE R == OpToRel(<, Nat)
  <1>1. \A x \in Nat, y \in Nat : <<y, x>> \in R <=> y < x
    BY DEF OpToRel
  <1>2. IsWellFoundedOn(R, Nat)
    BY NatLessThanWellFounded
  <1> HIDE DEF R
  <1>3. PICK x \in I : \A y \in I : ~ (<<y, x>> \in R)
    BY <1>2, WFMin
  <1>4. \A y \in I : x \in Nat /\ y \in Nat /\ ~ (y < x)
    BY <1>1, <1>3
  <1>5. \A y \in I : x <= y
    BY <1>4
  <1> QED
    BY <1>5 DEF Min

\* A splice at i moves what comes after it.
LEMMA RemoveAtShifts ==
    ASSUME NEW S, NEW s \in Seq(S), NEW i \in 1..Len(s)
    PROVE  /\ RemoveAt(s, i) \in Seq(S) /\ Len(RemoveAt(s, i)) = Len(s) - 1
           /\ \A k \in 1..(Len(s) - 1) :
                 RemoveAt(s, i)[k] = IF k < i THEN s[k] ELSE s[k + 1]
  <1> DEFINE front == SubSeq(s, 1, i - 1)
             back == SubSeq(s, i + 1, Len(s))
             t == front \o back
  <1>1. /\ front \in Seq(S) /\ Len(front) = i - 1
        /\ \A k \in 1..(i - 1) : front[k] = s[k]
    OBVIOUS
  <1>2. /\ back \in Seq(S) /\ Len(back) = Len(s) - i
        /\ \A k \in 1..(Len(s) - i) : back[k] = s[k + i]
    OBVIOUS
  <1> HIDE DEF front, back
  <1>3. /\ t \in Seq(S) /\ Len(t) = Len(s) - 1
        /\ \A k \in 1..Len(t) : t[k] = IF k < i THEN s[k] ELSE s[k + 1]
    <2>1. /\ t \in Seq(S) /\ Len(t) = Len(front) + Len(back)
          /\ \A k \in 1..(Len(front) + Len(back)) :
                t[k] = IF k <= Len(front) THEN front[k] ELSE back[k - Len(front)]
      BY <1>1, <1>2, ConcatProperties
    <2>2. Len(t) = Len(s) - 1
      BY <1>1, <1>2, <2>1
    <2> HIDE DEF t
    <2>3. ASSUME NEW k \in 1..Len(t), k < i PROVE t[k] = s[k]
      <3>1. k \in 1..(i - 1) /\ k \in 1..(Len(front) + Len(back)) /\ k <= Len(front)
        BY <1>1, <1>2, <2>1, <2>3
      <3>2. t[k] = front[k]
        BY <2>1, <3>1
      <3> QED
        BY <1>1, <3>1, <3>2
    <2>4. ASSUME NEW k \in 1..Len(t), ~ (k < i) PROVE t[k] = s[k + 1]
      <3>1. k \in 1..(Len(front) + Len(back)) /\ ~ (k <= Len(front))
        BY <1>1, <1>2, <2>1, <2>4
      <3>2. t[k] = back[k - Len(front)]
        BY <2>1, <3>1
      <3>3. k - Len(front) \in 1..(Len(s) - i) /\ (k - Len(front)) + i = k + 1
        BY <1>1, <2>2, <2>4
      <3> QED
        BY <1>2, <3>2, <3>3
    <2> QED
      BY <2>1, <2>2, <2>3, <2>4
  <1>4. RemoveAt(s, i) = t
    BY DEF RemoveAt, t, front, back
  <1> HIDE DEF t
  <1> QED
    BY <1>3, <1>4

\* A splice at i takes out one occurrence and keeps every other favourite.
LEMMA RemoveAtKeeps ==
    ASSUME NEW S, NEW s \in Seq(S), NEW i \in 1..Len(s)
    PROVE  /\ RemoveAt(s, i) \in Seq(S)
           /\ ToSet(RemoveAt(s, i)) \subseteq ToSet(s)
           /\ \A x \in ToSet(s) : x # s[i] => x \in ToSet(RemoveAt(s, i))
  <1> DEFINE t == RemoveAt(s, i)
  <1>3. /\ t \in Seq(S) /\ Len(t) = Len(s) - 1
        /\ \A k \in 1..Len(t) : t[k] = IF k < i THEN s[k] ELSE s[k + 1]
    BY RemoveAtShifts
  <1> HIDE DEF t
  <1>4. ToSet(t) \subseteq ToSet(s)
    BY <1>3 DEF ToSet
  <1>5. ASSUME NEW k \in 1..Len(s), s[k] # s[i] PROVE s[k] \in ToSet(t)
    <2>1. CASE k < i
      BY <1>3, <2>1 DEF ToSet
    <2>2. CASE k > i
      <3>1. k - 1 \in 1..Len(t) /\ t[k - 1] = s[k]
        BY <1>3, <2>2
      <3> QED
        BY <1>3, <3>1 DEF ToSet
    <2> QED
      BY <1>5, <2>1, <2>2
  <1>6. \A x \in ToSet(s) : x # s[i] => x \in ToSet(t)
    BY <1>5 DEF ToSet
  <1> QED
    BY <1>3, <1>4, <1>6 DEF t

\* Without duplicates, it takes out the favourite.
LEMMA RemoveAtDrops ==
    ASSUME NEW S, NEW s \in Seq(S), NEW i \in 1..Len(s), IsInjective(s)
    PROVE  IsInjective(RemoveAt(s, i)) /\ s[i] \notin ToSet(RemoveAt(s, i))
  <1> DEFINE t == RemoveAt(s, i)
             from(k) == IF k < i THEN k ELSE k + 1
  <1>1. t \in Seq(S) /\ DOMAIN t = 1..(Len(s) - 1) /\ DOMAIN s = 1..Len(s)
    BY RemoveAtShifts
  <1>2. \A k \in 1..(Len(s) - 1) : t[k] = IF k < i THEN s[k] ELSE s[k + 1]
    BY RemoveAtShifts
  <1>3. \A k \in DOMAIN t : from(k) \in DOMAIN s /\ from(k) # i /\ t[k] = s[from(k)]
    <2> HIDE DEF t
    <2> QED
      BY <1>1, <1>2
  <1>4. \A j, k \in DOMAIN t : from(j) = from(k) => j = k
    BY <1>1
  <1> HIDE DEF t, from
  <1>5. IsInjective(t)
    BY <1>3, <1>4 DEF IsInjective
  <1>6. s[i] \notin ToSet(t)
    BY <1>1, <1>3 DEF IsInjective, ToSet
  <1> QED
    BY <1>5, <1>6 DEF t

\* A splice of the first occurrence takes nothing else away and adds nothing.
LEMMA RemoveFirstKeeps ==
    ASSUME NEW S, NEW s \in Seq(S), NEW e
    PROVE  /\ RemoveFirst(s, e) \in Seq(S)
           /\ ToSet(RemoveFirst(s, e)) \subseteq ToSet(s)
           /\ ToSet(s) \ {e} \subseteq ToSet(RemoveFirst(s, e))
  <1>1. CASE \E i \in 1..Len(s) : s[i] = e
    <2> DEFINE I == {i \in 1..Len(s) : s[i] = e}
    <2>1. I \subseteq Nat /\ I # {} /\ \A i \in I : i \in 1..Len(s) /\ s[i] = e
      BY <1>1
    <2>2. RemoveFirst(s, e) = RemoveAt(s, Min(I))
      BY <1>1 DEF RemoveFirst, SelectInSeq
    <2> HIDE DEF I
    <2>3. Min(I) \in I
      BY <2>1, LeastExists
    <2>4. Min(I) \in 1..Len(s) /\ s[Min(I)] = e
      BY <2>1, <2>3
    <2> QED
      BY <2>2, <2>4, RemoveAtKeeps
  <1>2. CASE ~ \E i \in 1..Len(s) : s[i] = e
    BY <1>2 DEF RemoveFirst
  <1> QED
    BY <1>1, <1>2

LEMMA RemoveFirstDrops ==
    ASSUME NEW S, NEW s \in Seq(S), NEW e, IsInjective(s)
    PROVE  IsInjective(RemoveFirst(s, e)) /\ e \notin ToSet(RemoveFirst(s, e))
  <1>1. CASE \E i \in 1..Len(s) : s[i] = e
    <2> DEFINE I == {i \in 1..Len(s) : s[i] = e}
    <2>1. I \subseteq Nat /\ I # {} /\ \A i \in I : i \in 1..Len(s) /\ s[i] = e
      BY <1>1
    <2>2. RemoveFirst(s, e) = RemoveAt(s, Min(I))
      BY <1>1 DEF RemoveFirst, SelectInSeq
    <2> HIDE DEF I
    <2>3. Min(I) \in 1..Len(s) /\ s[Min(I)] = e
      BY <2>1, LeastExists
    <2> QED
      BY <2>2, <2>3, RemoveAtDrops
  <1>2. CASE ~ \E i \in 1..Len(s) : s[i] = e
    <2>1. RemoveFirst(s, e) = s
      BY <1>2 DEF RemoveFirst
    <2>2. e \notin ToSet(s)
      BY <1>2 DEF ToSet
    <2> QED
      BY <2>1, <2>2
  <1> QED
    BY <1>1, <1>2

\* A push adds what is pushed.
LEMMA AppendAdds ==
    ASSUME NEW S, NEW s \in Seq(S), NEW x \in S
    PROVE  /\ ToSet(Append(s, x)) = ToSet(s) \cup {x}
           /\ IsInjective(s) /\ x \notin ToSet(s) => IsInjective(Append(s, x))
  <1> DEFINE t == Append(s, x)
  <1>1. /\ DOMAIN t = 1..(Len(s) + 1) /\ DOMAIN s = 1..Len(s) /\ Len(s) \in Nat
        /\ t[Len(s) + 1] = x
        /\ \A i \in 1..Len(s) : t[i] = s[i]
    OBVIOUS
  <1> HIDE DEF t
  <1>2. \A i \in 1..(Len(s) + 1) : i \in 1..Len(s) \/ i = Len(s) + 1
    BY <1>1
  <1>3. ToSet(t) = ToSet(s) \cup {x}
    BY <1>1, <1>2 DEF ToSet
  <1>4. ASSUME IsInjective(s), x \notin ToSet(s) PROVE IsInjective(t)
    <2>1. \A i \in 1..Len(s) : t[i] # x
      BY <1>1, <1>4 DEF ToSet
    <2>2. ASSUME NEW i \in DOMAIN t, NEW k \in DOMAIN t, t[i] = t[k] PROVE i = k
      BY <1>1, <1>2, <1>4, <2>1, <2>2 DEF IsInjective
    <2> QED
      BY <2>2 DEF IsInjective
  <1> QED
    BY <1>3, <1>4 DEF t

\* Every finite set of numbers can be listed in ascending order: there is no
\* least size for which it cannot.
Ascending(R, s) ==
    /\ s \in [1..Cardinality(R) -> R]
    /\ \A i, k \in DOMAIN s : i < k => s[i] < s[k]

LEMMA AscendingExists ==
    ASSUME NEW R, R \subseteq Nat, IsFiniteSet(R)
    PROVE  \E s : Ascending(R, s)
  <1> DEFINE Bad == {n \in Nat : \E Q : /\ Q \subseteq Nat /\ IsFiniteSet(Q)
                                      /\ Cardinality(Q) = n
                                      /\ ~ \E s : Ascending(Q, s)}
  <1>1. ASSUME Bad # {} PROVE FALSE
    <2>1. Bad \subseteq Nat
      OBVIOUS
    <2>2. PICK n \in Nat : n \in Bad /\ \A m \in Bad : n <= m
      <3> HIDE DEF Bad
      <3> QED
        BY <1>1, <2>1, LeastExists
    <2>3. PICK Q : /\ Q \subseteq Nat /\ IsFiniteSet(Q) /\ Cardinality(Q) = n
                   /\ ~ \E s : Ascending(Q, s)
      BY <2>2
    <2>4. Q # {}
      <3>1. ASSUME Q = {} PROVE Ascending(Q, [i \in 1..0 |-> 0])
        BY <3>1, FS_EmptySet DEF Ascending
      <3> QED
        BY <2>3, <3>1
    <2>5. PICK m \in Q : \A x \in Q : m <= x
      BY <2>3, <2>4, LeastExists
    <2>6. /\ IsFiniteSet(Q \ {m}) /\ Q \ {m} \subseteq Nat
          /\ Cardinality(Q \ {m}) = n - 1
      BY <2>3, FS_RemoveElement
    <2>7. n - 1 \in Nat
      BY <2>6, FS_CardinalityType
    <2>8. PICK s : Ascending(Q \ {m}, s)
      <3>1. n - 1 \notin Bad
        <4> HIDE DEF Bad
        <4> QED
          BY <2>2, <2>7
      <3> QED
        BY <2>6, <2>7, <3>1
    <2> HIDE DEF Bad
    <2> DEFINE t == [i \in 1..n |-> IF i = 1 THEN m ELSE s[i - 1]]
    <2>9. ASSUME NEW i \in 1..n, i # 1
          PROVE  i - 1 \in DOMAIN s /\ t[i] = s[i - 1] /\ t[i] \in Q \ {m}
      <3>1. i - 1 \in 1..(n - 1) /\ t[i] = s[i - 1]
        BY <2>9
      <3> QED
        BY <2>6, <2>8, <3>1 DEF Ascending
    <2>10. t \in [1..n -> Q]
      BY <2>9
    <2>11. ASSUME NEW i \in 1..n, NEW k \in 1..n, i < k PROVE t[i] < t[k]
      <3>1. k # 1 /\ t[k] = s[k - 1] /\ t[k] \in Q \ {m} /\ k - 1 \in DOMAIN s
        BY <2>9, <2>11
      <3>2. CASE i = 1
        <4>1. t[i] = m
          BY <3>2
        <4>2. m <= t[k] /\ m # t[k] /\ m \in Nat /\ t[k] \in Nat
          <5> HIDE DEF t
          <5> QED
            BY <2>3, <2>5, <3>1
        <4>3. m < t[k]
          <5> HIDE DEF t
          <5> QED
            BY <4>2
        <4> HIDE DEF t
        <4> QED
          BY <4>1, <4>3
      <3>3. CASE i # 1
        <4>1. t[i] = s[i - 1] /\ i - 1 \in DOMAIN s
          BY <2>9, <3>3
        <4>2. i - 1 < k - 1
          BY <2>11
        <4>3. \A a, b \in DOMAIN s : a < b => s[a] < s[b]
          BY <2>8 DEF Ascending
        <4>4. s[i - 1] < s[k - 1]
          BY <3>1, <4>1, <4>2, <4>3
        <4> HIDE DEF t
        <4> QED
          BY <3>1, <4>1, <4>4
      <3> QED
        BY <3>2, <3>3
    <2>12. Ascending(Q, t)
      <3>1. DOMAIN t = 1..n
        OBVIOUS
      <3> HIDE DEF t
      <3> QED
        BY <2>3, <2>10, <2>11, <3>1 DEF Ascending
    <2> QED
      BY <2>3, <2>12
  <1> QED
    BY <1>1, FS_CardinalityType

\* What a sync stores is a sequence of the resources it was sent.
LEMMA NormalizedIsSeq ==
    ASSUME NEW R, R \subseteq Resources, IsFiniteSet(R)
    PROVE  Normalized(R) \in Seq(Resources)
  <1>1. Ascending(R, Normalized(R))
    BY FavoritesAssumption, AscendingExists DEF Ascending, Normalized
  <1>2. Cardinality(R) \in Nat
    BY FS_CardinalityType
  <1>3. Normalized(R) \in [1..Cardinality(R) -> Resources]
    BY <1>1 DEF Ascending
  <1> QED
    BY <1>2, <1>3

\* It lists each of them once.
LEMMA NormalizedListsAll ==
    ASSUME NEW R, R \subseteq Resources, IsFiniteSet(R)
    PROVE  /\ Normalized(R) \in Seq(Resources) /\ Len(Normalized(R)) = Cardinality(R)
           /\ IsInjective(Normalized(R)) /\ ToSet(Normalized(R)) = R
  <1> DEFINE s == Normalized(R)
             N == Cardinality(R)
  <1>1. Ascending(R, s)
    BY FavoritesAssumption, AscendingExists DEF Ascending, Normalized
  <1>2. N \in Nat
    BY FS_CardinalityType
  <1>3. s \in [1..N -> R] /\ \A i, k \in 1..N : i < k => s[i] < s[k]
    BY <1>1 DEF Ascending
  <1>4. s \in Seq(Resources)
    BY NormalizedIsSeq
  <1>5. IsFiniteSet(1..N) /\ Cardinality(1..N) = N
    BY <1>2, FS_Interval
  <1> HIDE DEF s
  <1>6. DOMAIN s = 1..N /\ Len(s) = N
    BY <1>2, <1>3, <1>4
  <1>7. \A i \in 1..N : s[i] \in Nat
    BY <1>3, FavoritesAssumption
  <1>8. IsInjective(s)
    <2>1. ASSUME NEW i \in 1..N, NEW k \in 1..N, s[i] = s[k] PROVE i = k
      <3>1. ~ (s[i] < s[k]) /\ ~ (s[k] < s[i])
        BY <1>7, <2>1
      <3>2. ~ (i < k) /\ ~ (k < i)
        BY <1>3, <3>1
      <3> QED
        BY <1>2, <3>2
    <2> QED
      BY <1>6, <2>1 DEF IsInjective
  <1>9. s \in Surjection(1..N, R)
    <2>1. s \in Injection(1..N, R)
      BY <1>3, <1>8 DEF Injection
    <2> QED
      BY <1>5, <2>1, FS_Injection
  <1>10. ToSet(s) = R
    BY <1>3, <1>6, <1>9 DEF Surjection, ToSet
  <1> QED
    BY <1>4, <1>6, <1>8, <1>10 DEF s

\* Favourites without duplicates, as many as were sent, are told from others.
LEMMA SameIsIdentical ==
    ASSUME NEW R, R \subseteq Resources, IsFiniteSet(R),
           NEW favs \in Seq(Resources), IsInjective(favs)
    PROVE  ToSet(favs) = R <=> Len(favs) = Cardinality(R) /\ SameFavorites(favs, R)
  <1> DEFINE F == ToSet(favs)
  <1>1. F \subseteq Resources /\ DOMAIN favs = 1..Len(favs) /\ Len(favs) \in Nat
    BY DEF ToSet
  <1>2. IsFiniteSet(F) /\ Cardinality(F) = Len(favs)
    <2>1. favs \in Surjection(1..Len(favs), F) /\ favs \in Injection(1..Len(favs), F)
      BY <1>1 DEF Surjection, Injection, ToSet
    <2>2. IsFiniteSet(1..Len(favs)) /\ Cardinality(1..Len(favs)) = Len(favs)
      BY <1>1, FS_Interval
    <2> QED
      BY <2>1, <2>2, FS_Surjection
  <1> HIDE DEF F
  <1>3. /\ Normalized(F) \in Seq(Resources) /\ Len(Normalized(F)) = Cardinality(F)
        /\ Normalized(R) \in Seq(Resources) /\ Len(Normalized(R)) = Cardinality(R)
        /\ ToSet(Normalized(F)) = F /\ ToSet(Normalized(R)) = R
    BY <1>1, <1>2, NormalizedListsAll
  <1>4. ASSUME F = R PROVE Len(favs) = Cardinality(R) /\ SameFavorites(favs, R)
    <2>1. Len(Normalized(R)) <= Len(Normalized(R))
      BY <1>3
    <2> QED
      BY <1>2, <1>4, <2>1 DEF SameFavorites, IsPrefix, F
  <1>5. ASSUME Len(favs) = Cardinality(R), SameFavorites(favs, R) PROVE F = R
    <2>1. IsPrefix(Normalized(F), Normalized(R))
      BY <1>5 DEF SameFavorites, F
    <2>2. Len(Normalized(F)) = Len(Normalized(R))
      BY <1>2, <1>3, <1>5
    <2>3. Normalized(F) = Normalized(R)
      BY <1>3, <2>1, <2>2, SubSeqFull DEF IsPrefix
    <2> QED
      BY <1>3, <2>3
  <1> QED
    BY <1>4, <1>5 DEF F

-----------------------------------------------------------------------------
(***************************************************************************)
(* The invariant: types, and what a request between two awaits rests on.   *)
(* The job is the one its step belongs to, and the list it is going to     *)
(* save belongs to the user who asked, if it still exists: that was        *)
(* checked when it was read, owners never change, and no list is made      *)
(* under an id somebody holds.                                             *)
(***************************************************************************)
JobFits(r) ==
    /\ pc[r] \in {"add", "push"} => job[r] \in ItemJob /\ job[r].kind = "add"
    /\ pc[r] \in {"remove", "saveRemoved"} => job[r] \in ItemJob /\ job[r].kind = "remove"
    /\ pc[r] \in {"purge", "delete"} => job[r] \in ListJob /\ job[r].kind = pc[r]
    /\ pc[r] = "create" => job[r] \in MakeJob
    /\ pc[r] \in {"sync", "createSynced"} => job[r] \in SyncJob

ListFitsUser(r) ==
    pc[r] \in {"push", "saveRemoved"} =>
        /\ job[r].list \notin Unmade
        /\ job[r].list \in DOMAIN lists => lists[job[r].list].owner = job[r].user

CopyFits(r) == pc[r] = "saveRemoved" => copy[r] \in List

EditInv ==
    /\ TypeOK
    /\ \A r \in Requests : JobFits(r) /\ ListFitsUser(r) /\ CopyFits(r)

LEMMA InitEditInv == Init => EditInv
  <1> SUFFICES ASSUME Init PROVE EditInv
    OBVIOUS
  <1>1. lists \in [DOMAIN lists -> List] /\ DOMAIN lists \subseteq ListIds
    BY InitialListsAssumption DEF Init, StartIds, ListIds
  <1> QED
    BY <1>1 DEF Init, EditInv, TypeOK, JobFits, ListFitsUser, CopyFits

\* What a step of r leaves to the others: their own state, the owners of the
\* lists, and, of new ids, only those of requests that have made no list yet.
Quiet(r) ==
    /\ \A q \in Requests \ {r} :
          pc'[q] = pc[q] /\ job'[q] = job[q] /\ copy'[q] = copy[q]
    /\ Unmade' \subseteq Unmade
    /\ \A l \in DOMAIN lists' :
          \/ l \in DOMAIN lists /\ lists'[l].owner = lists[l].owner
          \/ l \in Unmade

Kept(r) == TypeOK' /\ JobFits(r)' /\ ListFitsUser(r)' /\ CopyFits(r)' /\ Quiet(r)

LEMMA OthersKept == ASSUME EditInv, NEW r \in Requests, Kept(r) PROVE EditInv'
  <1>1. ASSUME NEW q \in Requests, q # r
        PROVE  JobFits(q)' /\ ListFitsUser(q)' /\ CopyFits(q)'
    <2>1. pc'[q] = pc[q] /\ job'[q] = job[q] /\ copy'[q] = copy[q]
      BY <1>1 DEF Kept, Quiet
    <2>2. JobFits(q)' /\ CopyFits(q)'
      BY <2>1 DEF EditInv, JobFits, CopyFits
    <2>3. ListFitsUser(q)'
      BY <2>1 DEF EditInv, Kept, Quiet, ListFitsUser
    <2> QED
      BY <2>2, <2>3
  <1> QED
    BY <1>1 DEF Kept, EditInv

LEMMA StartKept == ASSUME EditInv, NEW r \in Requests, Start(r) PROVE Kept(r)
  <1>1. TypeOK
    BY DEF EditInv
  <1>2. PICK j \in Job : job' = [job EXCEPT ![r] = j] /\ Goto(r, j.kind)
    BY DEF Start
  <1>3. pc[r] = "idle" /\ lists' = lists /\ copy' = copy /\ pc' = [pc EXCEPT ![r] = j.kind]
    BY <1>2 DEF Start, Goto
  <1>4. /\ j.kind \in Kinds /\ j.kind \notin {"push", "saveRemoved", "createSynced"}
        /\ j.kind \in {"add", "remove"} => j \in ItemJob
        /\ j.kind \in {"purge", "delete"} => j \in ListJob
        /\ j.kind = "create" => j \in MakeJob
        /\ j.kind = "sync" => j \in SyncJob
    BY FavoritesAssumption DEF Job, ItemJob, ListJob, MakeJob, SyncJob
  <1>5. pc'[r] = j.kind /\ job'[r] = j
    BY <1>1, <1>2, <1>3 DEF TypeOK
  <1>6. TypeOK'
    BY <1>1, <1>2, <1>3, <1>4 DEF TypeOK
  <1>7. JobFits(r)' /\ ListFitsUser(r)' /\ CopyFits(r)'
    BY <1>4, <1>5 DEF JobFits, ListFitsUser, CopyFits
  <1>8. Quiet(r)
    BY <1>1, <1>2, <1>3 DEF TypeOK, Quiet, Unmade
  <1> QED
    BY <1>6, <1>7, <1>8 DEF Kept

\* A list is read, for the request's user.
LEMMA ReadKept ==
    ASSUME EditInv, GuardInv, NEW r \in Requests, ReadForAdd(r) \/ ReadForRemove(r)
    PROVE  Kept(r)
  <1>1. TypeOK /\ JobFits(r) /\ Owned(r) /\ job[r].list \notin Unmade
    BY DEF EditInv, ReadForAdd, ReadForRemove, Owned, GuardInv
  <1>2. /\ lists' = lists /\ job' = job
        /\ copy' = [copy EXCEPT ![r] = lists[job[r].list]]
        /\ \/ pc[r] = "add" /\ \E step \in {"conflict", "push"} : pc' = [pc EXCEPT ![r] = step]
           \/ pc[r] = "remove" /\ pc' = [pc EXCEPT ![r] = "saveRemoved"]
    BY DEF ReadForAdd, ReadForRemove, Goto
  <1>3. lists[job[r].list] \in List
    BY <1>1 DEF TypeOK, Owned
  <1>4. TypeOK'
    BY <1>1, <1>2, <1>3 DEF TypeOK, Answers
  <1>5. copy'[r] \in List /\ job'[r] = job[r]
    BY <1>1, <1>2, <1>3 DEF TypeOK
  <1>6. \/ pc[r] = "add" /\ pc'[r] \in {"conflict", "push"}
        \/ pc[r] = "remove" /\ pc'[r] = "saveRemoved"
    BY <1>1, <1>2 DEF TypeOK
  <1>7. Quiet(r)
    BY <1>1, <1>2 DEF TypeOK, Quiet, Unmade
  <1>8. JobFits(r)' /\ CopyFits(r)'
    BY <1>1, <1>5, <1>6 DEF JobFits, CopyFits
  <1>9. ListFitsUser(r)'
    BY <1>1, <1>2, <1>7 DEF ListFitsUser, Owned, Quiet
  <1> QED
    BY <1>4, <1>7, <1>8, <1>9 DEF Kept

\* A list changes: only its favourites and its version do.
LEMMA ChangeKept ==
    ASSUME EditInv, NEW r \in Requests,
           NEW l \in DOMAIN lists, NEW favs \in Seq(Resources), NEW v \in Nat,
           Write(l, [lists[l] EXCEPT !.favs = favs, !.v = v]),
           Goto(r, "ok"), UNCHANGED <<job, copy>>, pc[r] \notin {"idle", "create", "sync", "createSynced"}
    PROVE  Kept(r) /\ DOMAIN lists' = DOMAIN lists /\ lists'[l].favs = favs
           /\ \A k \in DOMAIN lists : k # l => lists'[k] = lists[k]
  <1>1. TypeOK
    BY DEF EditInv
  <1> DEFINE new == [lists[l] EXCEPT !.favs = favs, !.v = v]
  <1>2. lists[l] \in List
    BY <1>1 DEF TypeOK
  <1>3. new \in List /\ new.owner = lists[l].owner /\ new.favs = favs
    BY <1>2 DEF List
  <1>4. lists' = [k \in DOMAIN lists |-> IF k = l THEN new ELSE lists[k]]
    BY DEF Write
  <1> HIDE DEF new
  <1>5. lists' \in [DOMAIN lists -> List] /\ DOMAIN lists' = DOMAIN lists
    BY <1>1, <1>3, <1>4 DEF TypeOK
  <1>6. pc' = [pc EXCEPT ![r] = "ok"] /\ job' = job /\ copy' = copy
    BY DEF Goto
  <1>7. TypeOK'
    BY <1>1, <1>5, <1>6 DEF TypeOK, Answers
  <1>8. \A k \in DOMAIN lists : lists'[k].owner = lists[k].owner
    BY <1>3, <1>4
  <1>9. Quiet(r)
    BY <1>1, <1>5, <1>6, <1>8 DEF TypeOK, Quiet, Unmade
  <1>10. JobFits(r)' /\ ListFitsUser(r)' /\ CopyFits(r)'
    BY <1>1, <1>6 DEF TypeOK, JobFits, ListFitsUser, CopyFits
  <1> QED
    BY <1>3, <1>4, <1>7, <1>9, <1>10 DEF Kept

-----------------------------------------------------------------------------
(* What the steps of a request do to the favourites. *)

Target(r, l, x) ==
    /\ ActsOn(r, l)
    /\ \/ job[r].kind = "remove" /\ job[r].resource = x
       \/ job[r].kind \in {"purge", "delete"}

Added(r, l, x) ==
    /\ ActsOn(r, l)
    /\ \/ job[r].kind = "add" /\ job[r].resource = x
       \/ job[r].kind = "remove" /\ lists[l].favs = <<>>

Edits(r) ==
    \A l \in DOMAIN lists :
        /\ \A x \in Favorites(lists, l) \ Favorites(lists', l) : Target(r, l, x)
        /\ \A x \in Favorites(lists', l) \ Favorites(lists, l) : Added(r, l, x)

LEMMA NothingEdited ==
    ASSUME NEW r, \A l \in DOMAIN lists : l \in DOMAIN lists' /\ lists'[l] = lists[l]
    PROVE  Edits(r)
  BY DEF Edits, Favorites

LEMMA PushKept ==
    ASSUME EditInv, NEW r \in Requests, Push(r) PROVE Kept(r) /\ Edits(r)
  <1> DEFINE l == job[r].list
             favs == Append(lists[l].favs, job[r].resource)
  <1>1. TypeOK /\ JobFits(r) /\ ListFitsUser(r) /\ pc[r] = "push" /\ l \in DOMAIN lists
    BY DEF EditInv, Push
  <1>2. job[r] \in ItemJob /\ job[r].kind = "add" /\ lists[l].owner = job[r].user
    BY <1>1 DEF JobFits, ListFitsUser
  <1>3. lists[l] \in List /\ job[r].resource \in Resources
    BY <1>1, <1>2 DEF TypeOK, ItemJob
  <1>4. lists[l].favs \in Seq(Resources) /\ lists[l].v + 1 \in Nat
    BY <1>3 DEF List
  <1>5. favs \in Seq(Resources)
    BY <1>3, <1>4
  <1>6. ToSet(favs) = ToSet(lists[l].favs) \cup {job[r].resource}
    BY <1>3, <1>4, AppendAdds
  <1>7. /\ Write(l, [lists[l] EXCEPT !.favs = favs, !.v = lists[l].v + 1])
        /\ Goto(r, "ok") /\ UNCHANGED <<job, copy>>
    BY <1>3 DEF Push, List
  <1> HIDE DEF favs
  <1>8. /\ Kept(r) /\ DOMAIN lists' = DOMAIN lists /\ lists'[l].favs = favs
        /\ \A k \in DOMAIN lists : k # l => lists'[k] = lists[k]
    BY <1>1, <1>4, <1>5, <1>7, ChangeKept
  <1>9. ActsOn(r, l)
    BY <1>1, <1>2, <1>7 DEF TypeOK, Goto, ActsOn
  <1> QED
    BY <1>1, <1>2, <1>6, <1>8, <1>9 DEF Edits, Favorites, Added

LEMMA SaveRemovedKept ==
    ASSUME EditInv, GuardInv, NEW r \in Requests, SaveRemoved(r) PROVE Kept(r) /\ Edits(r)
  <1> DEFINE l == job[r].list
  <1>1. /\ TypeOK /\ JobFits(r) /\ ListFitsUser(r) /\ CopyFits(r)
        /\ pc[r] = "saveRemoved" /\ l \in DOMAIN lists
        /\ Goto(r, "ok") /\ UNCHANGED <<job, copy>>
    BY DEF EditInv, SaveRemoved
  <1>2. /\ job[r] \in ItemJob /\ job[r].kind = "remove"
        /\ lists[l].owner = job[r].user /\ copy[r] \in List
    BY <1>1 DEF JobFits, ListFitsUser, CopyFits
  <1>3. CASE UNCHANGED lists
    <2>1. TypeOK'
      BY <1>1, <1>3 DEF TypeOK, Goto, Answers
    <2>2. Quiet(r)
      BY <1>1, <1>3 DEF TypeOK, Goto, Quiet, Unmade
    <2>3. JobFits(r)' /\ ListFitsUser(r)' /\ CopyFits(r)'
      BY <1>1 DEF TypeOK, Goto, JobFits, ListFitsUser, CopyFits
    <2> QED
      BY <1>3, <2>1, <2>2, <2>3, NothingEdited DEF Kept
  <1>4. CASE /\ lists[l].v = copy[r].v
             /\ Write(l, [lists[l] EXCEPT !.favs = Spliced(r), !.v = @ + 1])
    <2>1. lists[l] \in List /\ copy[r].favs \in Seq(Resources)
      BY <1>1, <1>2 DEF TypeOK, List
    <2>2. /\ Spliced(r) \in Seq(Resources)
          /\ ToSet(Spliced(r)) \subseteq ToSet(copy[r].favs)
          /\ ToSet(copy[r].favs) \ {job[r].resource} \subseteq ToSet(Spliced(r))
      BY <2>1, RemoveFirstKeeps DEF Spliced
    <2>3. lists[l].v + 1 \in Nat
      BY <2>1 DEF List
    <2>4. Write(l, [lists[l] EXCEPT !.favs = Spliced(r), !.v = lists[l].v + 1])
      BY <1>4, <2>1 DEF List
    <2>5. /\ Kept(r) /\ DOMAIN lists' = DOMAIN lists /\ lists'[l].favs = Spliced(r)
          /\ \A k \in DOMAIN lists : k # l => lists'[k] = lists[k]
      BY <1>1, <2>2, <2>3, <2>4, ChangeKept
    <2>6. lists[l].favs = copy[r].favs \/ lists[l].favs = <<>>
      BY <1>1, <1>4 DEF GuardInv, VersionGuardsFavorites
    <2>7. ActsOn(r, l)
      BY <1>1, <1>2 DEF TypeOK, Goto, ActsOn
    <2>8. ToSet(<<>>) = {}
      BY DEF ToSet
    <2>9. \A x \in ToSet(lists[l].favs) \ ToSet(Spliced(r)) : Target(r, l, x)
      BY <1>2, <2>2, <2>6, <2>7, <2>8 DEF Target
    <2>10. \A x \in ToSet(Spliced(r)) \ ToSet(lists[l].favs) : Added(r, l, x)
      BY <1>2, <2>2, <2>6, <2>7, <2>8 DEF Added
    <2> QED
      BY <1>1, <2>5, <2>9, <2>10 DEF Edits, Favorites
  <1> QED
    BY <1>3, <1>4 DEF SaveRemoved

LEMMA PurgeKept ==
    ASSUME EditInv, NEW r \in Requests, Purge(r) PROVE Kept(r) /\ Edits(r)
  <1> DEFINE l == job[r].list
  <1>1. /\ TypeOK /\ JobFits(r) /\ pc[r] = "purge"
        /\ l \in DOMAIN lists /\ lists[l].owner = job[r].user
        /\ Goto(r, "ok") /\ UNCHANGED <<job, copy>>
    BY DEF EditInv, Purge, Owned
  <1>2. lists[l] \in List /\ job[r] \in ListJob /\ job[r].kind = "purge"
    BY <1>1 DEF TypeOK, JobFits
  <1>3. <<>> \in Seq(Resources) /\ lists[l].v \in Nat /\ ToSet(<<>>) = {}
    BY <1>2 DEF List, ToSet
  <1>4. [lists[l] EXCEPT !.favs = <<>>] = [lists[l] EXCEPT !.favs = <<>>, !.v = lists[l].v]
    BY <1>2 DEF List
  <1>5. Write(l, [lists[l] EXCEPT !.favs = <<>>, !.v = lists[l].v])
    BY <1>4 DEF Purge
  <1>6. /\ Kept(r) /\ DOMAIN lists' = DOMAIN lists /\ lists'[l].favs = <<>>
        /\ \A k \in DOMAIN lists : k # l => lists'[k] = lists[k]
    BY <1>1, <1>3, <1>5, ChangeKept
  <1>7. ActsOn(r, l)
    BY <1>1, <1>2 DEF TypeOK, Goto, ActsOn
  <1> QED
    BY <1>1, <1>2, <1>3, <1>6, <1>7 DEF Edits, Favorites, Target

LEMMA DeleteKept ==
    ASSUME EditInv, NEW r \in Requests, Delete(r) PROVE Kept(r) /\ Edits(r)
  <1> DEFINE l == job[r].list
  <1>1. /\ TypeOK /\ JobFits(r) /\ pc[r] = "delete"
        /\ l \in DOMAIN lists /\ lists[l].owner = job[r].user
        /\ Goto(r, "ok") /\ UNCHANGED <<job, copy>>
        /\ lists' = [k \in DOMAIN lists \ {l} |-> lists[k]]
    BY DEF EditInv, Delete, Owned
  <1>2. job[r] \in ListJob /\ job[r].kind = "delete"
    BY <1>1 DEF JobFits
  <1>3. TypeOK'
    BY <1>1 DEF TypeOK, Goto, Answers
  <1>4. Quiet(r)
    BY <1>1 DEF TypeOK, Goto, Quiet, Unmade
  <1>5. JobFits(r)' /\ ListFitsUser(r)' /\ CopyFits(r)'
    BY <1>1 DEF TypeOK, Goto, JobFits, ListFitsUser, CopyFits
  <1>6. ActsOn(r, l)
    BY <1>1, <1>2 DEF TypeOK, Goto, ActsOn
  <1> QED
    BY <1>1, <1>2, <1>3, <1>4, <1>5, <1>6 DEF Kept, Edits, Favorites, Target

\* A list is made, under an id no list has.
LEMMA MakeKept ==
    ASSUME EditInv, GuardInv, NEW r \in Requests, Create(r) \/ CreateSynced(r)
    PROVE  Kept(r) /\ Edits(r)
  <1>1. /\ TypeOK /\ JobFits(r) /\ r \in Unmade /\ r \notin DOMAIN lists
        /\ pc[r] \in {"create", "createSynced"}
        /\ Goto(r, "ok") /\ UNCHANGED <<job, copy>>
    BY DEF EditInv, GuardInv, Create, CreateSynced, Unmade
  <1>2. /\ job[r].user \in Users /\ job[r].tenant \in Tenants
        /\ pc[r] = "createSynced" =>
              job[r].resources \subseteq Resources /\ IsFiniteSet(job[r].resources)
    BY <1>1 DEF JobFits, MakeJob, SyncJob
  <1>3. PICK favs \in Seq(Resources) : Write(r, NewList(r, favs))
    <2>1. CASE Create(r)
      <3>1. Write(r, NewList(r, <<>>)) /\ <<>> \in Seq(Resources)
        BY <2>1 DEF Create
      <3> QED
        BY <3>1
    <2>2. CASE CreateSynced(r)
      <3>1. Normalized(job[r].resources) \in Seq(Resources)
        BY <1>2, <2>2, NormalizedIsSeq DEF CreateSynced
      <3>2. Write(r, NewList(r, Normalized(job[r].resources)))
        BY <2>2 DEF CreateSynced
      <3> QED
        BY <3>1, <3>2
    <2> QED
      BY <2>1, <2>2
  <1>4. NewList(r, favs) \in List
    BY <1>2, <1>3 DEF NewList, List
  <1>5. lists' = [k \in DOMAIN lists \cup {r} |-> IF k = r THEN NewList(r, favs) ELSE lists[k]]
    BY <1>3 DEF Write
  <1>6. TypeOK'
    <2>1. lists' \in [DOMAIN lists' -> List] /\ DOMAIN lists' \subseteq ListIds
      BY <1>1, <1>4, <1>5 DEF TypeOK, ListIds
    <2> QED
      BY <1>1, <2>1 DEF TypeOK, Goto, Answers
  <1>7. Quiet(r)
    BY <1>1, <1>5 DEF TypeOK, Goto, Quiet, Unmade
  <1>8. JobFits(r)' /\ ListFitsUser(r)' /\ CopyFits(r)'
    BY <1>1 DEF TypeOK, Goto, JobFits, ListFitsUser, CopyFits
  <1>9. Edits(r)
    BY <1>1, <1>5, NothingEdited
  <1> QED
    BY <1>6, <1>7, <1>8, <1>9 DEF Kept

\* The steps that only look.
LEMMA LookKept ==
    ASSUME EditInv, NEW r \in Requests, NotFound(r) \/ SaveRefused(r) \/ ReadCandidates(r)
    PROVE  Kept(r) /\ Edits(r)
  <1>1. /\ TypeOK /\ JobFits(r) /\ UNCHANGED <<lists, job, copy>>
        /\ \/ pc' = [pc EXCEPT ![r] = "notFound"] \/ pc' = [pc EXCEPT ![r] = "failed"]
           \/ pc[r] = "sync" /\ \E step \in {"exists", "createSynced"} :
                                   pc' = [pc EXCEPT ![r] = step]
    BY DEF EditInv, NotFound, SaveRefused, ReadCandidates, Goto
  <1>2. TypeOK'
    BY <1>1 DEF TypeOK, Answers
  <1>3. JobFits(r)' /\ ListFitsUser(r)' /\ CopyFits(r)'
    BY <1>1 DEF TypeOK, JobFits, ListFitsUser, CopyFits
  <1>4. Quiet(r)
    BY <1>1 DEF TypeOK, Quiet, Unmade
  <1>5. Edits(r)
    BY <1>1, NothingEdited
  <1> QED
    BY <1>2, <1>3, <1>4, <1>5 DEF Kept

LEMMA StepKept ==
    ASSUME EditInv, GuardInv, NEW r \in Requests, Start(r) \/ Advance(r)
    PROVE  Kept(r) /\ Edits(r)
  <1>1. CASE Start(r) \/ ReadForAdd(r) \/ ReadForRemove(r)
    <2>1. Kept(r) /\ lists' = lists
      BY <1>1, StartKept, ReadKept DEF Start, ReadForAdd, ReadForRemove
    <2> QED
      BY <2>1, NothingEdited
  <1> QED
    BY <1>1, PushKept, SaveRemovedKept, PurgeKept, DeleteKept, MakeKept, LookKept
    DEF Advance

-----------------------------------------------------------------------------

LEMMA EditInvKept == EditInv /\ GuardInv /\ [Next]_vars => EditInv'
  <1> SUFFICES ASSUME EditInv, GuardInv, [Next]_vars PROVE EditInv'
    OBVIOUS
  <1>1. CASE UNCHANGED vars
    BY <1>1 DEF vars, EditInv, TypeOK, JobFits, ListFitsUser, CopyFits, Unmade
  <1>2. ASSUME NEW r \in Requests, Start(r) \/ Advance(r) PROVE EditInv'
    BY <1>2, StepKept, OthersKept
  <1> QED
    BY <1>1, <1>2 DEF Next, Finished

\* THEOREM: types, and what a request between two awaits rests on, hold in
\* every reachable state.
THEOREM EditInvHolds == Spec => []EditInv
  BY InitEditInv, EditInvKept, GuardInvHolds, PTL DEF Spec

\* Every step edits only what a request of the list's owner asked for.
LEMMA StepEdits ==
    ASSUME EditInv, GuardInv, [Next]_vars
    PROVE  \/ UNCHANGED vars
           \/ \E r \in Requests : Edits(r)
  BY StepKept DEF Next, Finished

(***************************************************************************)
(* THEOREM: a favourite disappears from a list only because the owner of   *)
(* the list removes it, or purges or deletes the list; a removal never     *)
(* loses what was added while it was under way.                            *)
(***************************************************************************)
THEOREM NothingIsLost == Spec => OnlyTargetDisappears
  <1>1. EditInv /\ GuardInv /\ [Next]_vars =>
          [\A l \in DOMAIN lists : \A x \in Favorites(lists, l) \ Favorites(lists', l) :
              \E r \in Requests :
                  /\ ActsOn(r, l)
                  /\ \/ job[r].kind = "remove" /\ job[r].resource = x
                     \/ job[r].kind \in {"purge", "delete"}]_vars
    BY StepEdits DEF Edits, Target
  <1> QED
    BY <1>1, EditInvHolds, GuardInvHolds, PTL DEF Spec, OnlyTargetDisappears

(***************************************************************************)
(* THEOREM: a favourite appears in a list only because the owner adds it,  *)
(* or because a removal writes back the others of a list that was purged.  *)
(***************************************************************************)
THEOREM NothingIsForged == Spec => OnlyAddedAppears
  <1>1. EditInv /\ GuardInv /\ [Next]_vars =>
          [\A l \in DOMAIN lists : \A x \in Favorites(lists', l) \ Favorites(lists, l) :
              \E r \in Requests :
                  /\ ActsOn(r, l)
                  /\ \/ job[r].kind = "add" /\ job[r].resource = x
                     \/ job[r].kind = "remove" /\ lists[l].favs = <<>>]_vars
    BY StepEdits DEF Edits, Added
  <1> QED
    BY <1>1, EditInvHolds, GuardInvHolds, PTL DEF Spec, OnlyAddedAppears

-----------------------------------------------------------------------------
(***************************************************************************)
(* Requests one after another.  Only one request runs, so that what it     *)
(* read is still so when it saves.                                         *)
(***************************************************************************)
Alone(r) == \A q \in Requests : Running(q) => q = r

\* What is left to show of TurnInv when r has taken a step alone.
Went(r) ==
    /\ \A q \in Requests : q # r => pc'[q] = pc[q]
    /\ Current(r)' /\ NoFavoriteTwice' /\ pc'[r] # "failed"
    /\ Exact(r)

\* The favourites of a list are replaced.
LEMMA FavsWritten ==
    ASSUME TypeOK, NoFavoriteTwice, NEW l \in DOMAIN lists, NEW favs, IsInjective(favs),
           NEW v, Write(l, [lists[l] EXCEPT !.favs = favs, !.v = v])
    PROVE  NoFavoriteTwice' /\ Favorites(lists', l) = ToSet(favs)
  <1> DEFINE new == [lists[l] EXCEPT !.favs = favs, !.v = v]
  <1>1. new.favs = favs
    BY DEF TypeOK, List
  <1>2. lists' = [k \in DOMAIN lists |-> IF k = l THEN new ELSE lists[k]]
    BY DEF Write
  <1> HIDE DEF new
  <1> QED
    BY <1>1, <1>2 DEF NoFavoriteTwice, Favorites

LEMMA LookWent ==
    ASSUME EditInv, NoFavoriteTwice, NEW r \in Requests, Current(r),
           \/ NotFound(r) \/ ReadForAdd(r) \/ ReadForRemove(r) \/ SaveRefused(r)
    PROVE  Went(r)
  <1>1. TypeOK /\ JobFits(r) /\ lists' = lists /\ job' = job
    BY DEF EditInv, NotFound, ReadForAdd, ReadForRemove, SaveRefused
  <1>2. NoFavoriteTwice'
    BY <1>1 DEF NoFavoriteTwice
  <1>3. CASE NotFound(r)
    BY <1>1, <1>2, <1>3 DEF TypeOK, NotFound, Goto, Went, Current, Exact
  <1>4. CASE ReadForAdd(r)
    <2>1. /\ copy'[r] = lists[job[r].list] /\ job[r].list \in DOMAIN lists
          /\ pc[r] = "add" /\ pc'[r] \in {"conflict", "push"}
          /\ \A q \in Requests : q # r => pc'[q] = pc[q]
      BY <1>1, <1>4 DEF TypeOK, ReadForAdd, Owned, Goto
    <2>2. pc'[r] = "push" => job[r].resource \notin Favorites(lists, job[r].list)
      BY <1>1, <1>4 DEF TypeOK, ReadForAdd, Owned, Goto, Favorites
    <2> QED
      BY <1>1, <1>2, <2>1, <2>2 DEF Went, Current, Exact
  <1>5. CASE ReadForRemove(r)
    <2>1. /\ copy'[r] = lists[job[r].list] /\ job[r].list \in DOMAIN lists
          /\ pc[r] = "remove" /\ pc'[r] = "saveRemoved"
          /\ \A q \in Requests : q # r => pc'[q] = pc[q]
      BY <1>1, <1>5 DEF TypeOK, ReadForRemove, Owned, Goto
    <2> QED
      BY <1>1, <1>2, <2>1 DEF Went, Current, Exact
  <1>6. CASE SaveRefused(r)
    BY <1>6 DEF SaveRefused, Current
  <1> QED
    BY <1>3, <1>4, <1>5, <1>6

LEMMA PushWent ==
    ASSUME EditInv, NoFavoriteTwice, NEW r \in Requests, Current(r), Push(r)
    PROVE  Went(r)
  <1> DEFINE l == job[r].list
             favs == Append(lists[l].favs, job[r].resource)
  <1>1. TypeOK /\ JobFits(r) /\ pc[r] = "push" /\ l \in DOMAIN lists
    BY DEF EditInv, Push
  <1>2. lists[l] \in List /\ job[r].resource \in Resources
    BY <1>1 DEF TypeOK, JobFits, ItemJob
  <1>3. /\ lists[l].favs \in Seq(Resources) /\ IsInjective(lists[l].favs)
        /\ job[r].resource \notin ToSet(lists[l].favs)
    BY <1>1, <1>2 DEF List, NoFavoriteTwice, Current, Favorites
  <1>4. IsInjective(favs)
    BY <1>2, <1>3, AppendAdds
  <1>5. Write(l, [lists[l] EXCEPT !.favs = favs, !.v = lists[l].v + 1])
    BY <1>2 DEF Push, List
  <1> HIDE DEF favs
  <1>6. NoFavoriteTwice'
    BY <1>1, <1>4, <1>5, FavsWritten
  <1>7. pc' = [pc EXCEPT ![r] = "ok"]
    BY DEF Push, Goto
  <1> QED
    BY <1>1, <1>6, <1>7 DEF TypeOK, Went, Current, Exact

LEMMA SaveRemovedWent ==
    ASSUME EditInv, NoFavoriteTwice, NEW r \in Requests, Current(r), SaveRemoved(r)
    PROVE  Went(r)
  <1> DEFINE l == job[r].list
  <1>1. /\ TypeOK /\ pc[r] = "saveRemoved" /\ l \in DOMAIN lists /\ copy[r] = lists[l]
        /\ pc' = [pc EXCEPT ![r] = "ok"] /\ job' = job
    BY DEF EditInv, SaveRemoved, Current, Goto
  <1>2. lists[l] \in List /\ copy[r].favs \in Seq(Resources) /\ IsInjective(copy[r].favs)
    BY <1>1 DEF TypeOK, List, NoFavoriteTwice
  <1>3. IsInjective(Spliced(r)) /\ job[r].resource \notin ToSet(Spliced(r))
    BY <1>2, RemoveFirstDrops DEF Spliced
  <1>4. NoFavoriteTwice' /\ Favorites(lists', l) = ToSet(Spliced(r))
    <2>1. CASE Spliced(r) = copy[r].favs /\ UNCHANGED lists
      BY <1>1, <2>1 DEF NoFavoriteTwice, Favorites
    <2>2. CASE Write(l, [lists[l] EXCEPT !.favs = Spliced(r), !.v = @ + 1])
      <3>1. Write(l, [lists[l] EXCEPT !.favs = Spliced(r), !.v = lists[l].v + 1])
        BY <1>2, <2>2 DEF List
      <3> QED
        BY <1>1, <1>3, <3>1, FavsWritten
    <2> QED
      BY <2>1, <2>2 DEF SaveRemoved
  <1> QED
    BY <1>1, <1>3, <1>4 DEF TypeOK, Went, Current, Exact

LEMMA ClearWent ==
    ASSUME EditInv, NoFavoriteTwice, NEW r \in Requests, Current(r), Purge(r) \/ Delete(r)
    PROVE  Went(r)
  <1> DEFINE l == job[r].list
  <1>1. /\ TypeOK /\ pc[r] \in {"purge", "delete"} /\ l \in DOMAIN lists
        /\ pc' = [pc EXCEPT ![r] = "ok"]
    BY DEF EditInv, Purge, Delete, Owned, Goto
  <1>2. NoFavoriteTwice'
    <2>1. CASE Purge(r)
      <3>1. lists[l] \in List /\ IsInjective(<<>>)
        BY <1>1 DEF TypeOK, IsInjective
      <3>2. [lists[l] EXCEPT !.favs = <<>>] = [lists[l] EXCEPT !.favs = <<>>, !.v = lists[l].v]
        BY <3>1 DEF List
      <3>3. Write(l, [lists[l] EXCEPT !.favs = <<>>, !.v = lists[l].v])
        BY <2>1, <3>2 DEF Purge
      <3> QED
        BY <1>1, <3>1, <3>3, FavsWritten
    <2>2. CASE Delete(r)
      BY <2>2 DEF Delete, NoFavoriteTwice
    <2> QED
      BY <2>1, <2>2
  <1> QED
    BY <1>1, <1>2 DEF TypeOK, Went, Current, Exact

LEMMA MakeWent ==
    ASSUME EditInv, NoFavoriteTwice, NEW r \in Requests, Current(r),
           Create(r) \/ CreateSynced(r)
    PROVE  Went(r)
  <1>1. /\ TypeOK /\ JobFits(r) /\ pc[r] \in {"create", "createSynced"}
        /\ pc' = [pc EXCEPT ![r] = "ok"]
    BY DEF EditInv, Create, CreateSynced, Goto
  <1>2. PICK favs : IsInjective(favs) /\ Write(r, NewList(r, favs))
    <2>1. CASE Create(r)
      BY <2>1 DEF Create, IsInjective
    <2>2. CASE CreateSynced(r)
      <3>1. job[r].resources \subseteq Resources /\ IsFiniteSet(job[r].resources)
        BY <1>1, <2>2 DEF CreateSynced, JobFits, SyncJob
      <3> QED
        BY <2>2, <3>1, NormalizedListsAll DEF CreateSynced
    <2> QED
      BY <2>1, <2>2
  <1>3. NoFavoriteTwice'
    BY <1>2 DEF NoFavoriteTwice, Write, NewList
  <1> QED
    BY <1>1, <1>3 DEF TypeOK, Went, Current, Exact

LEMMA SyncWent ==
    ASSUME EditInv, NoFavoriteTwice, NEW r \in Requests, Current(r), ReadCandidates(r)
    PROVE  Went(r)
  <1>1. /\ TypeOK /\ JobFits(r) /\ pc[r] = "sync" /\ lists' = lists /\ job' = job
    BY DEF EditInv, ReadCandidates
  <1>2. job[r].resources \subseteq Resources /\ IsFiniteSet(job[r].resources)
    BY <1>1 DEF JobFits, SyncJob
  <1>3. \A l \in DOMAIN lists : lists[l].favs \in Seq(Resources) /\ IsInjective(lists[l].favs)
    BY <1>1 DEF TypeOK, List, NoFavoriteTwice
  <1>4. Identical(lists, r) =
            {l \in Candidates(r) : SameFavorites(lists[l].favs, job[r].resources)}
    BY <1>2, <1>3, SameIsIdentical DEF Identical, Candidates
  <1>5. pc' = [pc EXCEPT ![r] = IF Identical(lists, r) # {} THEN "exists" ELSE "createSynced"]
    BY <1>4 DEF ReadCandidates, Goto
  <1>6. Identical(lists, r)' = Identical(lists, r) /\ NoFavoriteTwice'
    BY <1>1 DEF Identical, NoFavoriteTwice
  <1> QED
    BY <1>1, <1>5, <1>6 DEF TypeOK, Went, Current, Exact

LEMMA StepWent ==
    ASSUME EditInv, NoFavoriteTwice, NEW r \in Requests, Current(r), Advance(r)
    PROVE  Went(r)
  BY LookWent, PushWent, SaveRemovedWent, ClearWent, MakeWent, SyncWent DEF Advance

LEMMA StartWent ==
    ASSUME EditInv, NoFavoriteTwice, NEW r \in Requests, Start(r)
    PROVE  Went(r)
  <1>1. PICK j \in Job : Goto(r, j.kind)
    BY DEF Start
  <1>2. TypeOK /\ pc[r] = "idle" /\ lists' = lists /\ pc' = [pc EXCEPT ![r] = j.kind]
    BY <1>1 DEF EditInv, Start, Goto
  <1>3. j.kind \in {"add", "remove", "purge", "delete", "create", "sync"}
    BY FavoritesAssumption DEF Job, ItemJob, ListJob, MakeJob, SyncJob
  <1> QED
    BY <1>2, <1>3 DEF TypeOK, Went, Current, Exact, NoFavoriteTwice

\* In turn, a step is taken by a request that is alone.
TurnStep(r) == Alone(r) /\ Went(r)

LEMMA TurnSteps ==
    ASSUME EditInv, TurnInv, inTurn, [TurnNext]_<<vars, inTurn>>
    PROVE  UNCHANGED vars \/ \E r \in Requests : TurnStep(r)
  <1>1. ASSUME NEW r \in Requests, Advance(r) PROVE TurnStep(r)
    <2>1. Running(r)
      BY <1>1, FavoritesAssumption
      DEF Advance, NotFound, ReadForAdd, Push, ReadForRemove, SaveRemoved, SaveRefused,
          Purge, Delete, Create, ReadCandidates, CreateSynced, Running, Answers
    <2> QED
      BY <1>1, <2>1, StepWent DEF TurnInv, TurnStep, Alone
  <1>2. ASSUME NEW r \in Requests, Start(r), ~AnyRunning PROVE TurnStep(r)
    BY <1>2, StartWent DEF TurnInv, TurnStep, Alone, AnyRunning
  <1> QED
    BY <1>1, <1>2 DEF TurnNext, Finished

LEMMA TurnInvKept == EditInv /\ TurnInv /\ [TurnNext]_<<vars, inTurn>> => TurnInv'
  <1> SUFFICES ASSUME EditInv, TurnInv, [TurnNext]_<<vars, inTurn>>, inTurn
               PROVE  TurnInv'
    BY DEF TurnInv, TurnNext
  <1>1. CASE UNCHANGED vars
    BY <1>1 DEF vars, TurnInv, TurnNext, Running, Current, NoFavoriteTwice, NoneRefused,
                Identical
  <1>2. ASSUME NEW r \in Requests, TurnStep(r) PROVE TurnInv'
    <2>1. \A q \in Requests : q # r => ~Running(q) /\ pc'[q] = pc[q]
      BY <1>2 DEF TurnStep, Alone, Went
    <2>2. \A q \in Requests : q # r => ~Running(q)' /\ Current(q)' /\ pc'[q] # "failed"
      BY <2>1 DEF Running, Current, Answers, TurnInv, NoneRefused
    <2>3. Current(r)' /\ NoFavoriteTwice' /\ pc'[r] # "failed"
      BY <1>2 DEF TurnStep, Went
    <2> QED
      BY <2>2, <2>3 DEF TurnInv, NoneRefused
  <1> QED
    BY <1>1, <1>2, TurnSteps

LEMMA TurnRefines == TurnSpec => Spec
  <1>1. TurnInit => Init
    BY DEF TurnInit
  <1>2. [TurnNext]_<<vars, inTurn>> => [Next]_vars
    BY DEF TurnNext, Next, vars
  <1> QED
    BY <1>1, <1>2, PTL DEF TurnSpec, Spec

(***************************************************************************)
(* THEOREM: when requests come one after another, no list holds a          *)
(* favourite twice, no save is refused, and a removal and a sync do        *)
(* exactly what they answer.                                               *)
(***************************************************************************)
THEOREM OneAtATimeIsExact == TurnSpec => ExactInTurn
  <1>1. TurnInit => TurnInv
    <2> SUFFICES ASSUME Init PROVE TurnInv
      BY DEF TurnInit
    <2>1. \A r \in Requests : pc[r] = "idle"
      BY DEF Init
    <2>2. NoFavoriteTwice
      BY InitialListsAssumption DEF Init, NoFavoriteTwice
    <2> QED
      BY <2>1, <2>2 DEF TurnInv, Running, Current, NoneRefused
  <1>2. TurnSpec => []EditInv
    BY TurnRefines, EditInvHolds, PTL
  <1>3. TurnSpec => []TurnInv
    BY <1>1, <1>2, TurnInvKept, PTL DEF TurnSpec
  <1>4. TurnInv => (inTurn => NoFavoriteTwice /\ NoneRefused)
    BY DEF TurnInv
  <1>5. EditInv /\ TurnInv /\ [TurnNext]_<<vars, inTurn>> =>
            [inTurn => \A r \in Requests : Exact(r)]_vars
    <2> SUFFICES ASSUME EditInv, TurnInv, inTurn, [TurnNext]_<<vars, inTurn>>
                 PROVE  UNCHANGED vars \/ \A r \in Requests : Exact(r)
      OBVIOUS
    <2>1. ASSUME NEW r \in Requests, TurnStep(r), NEW q \in Requests PROVE Exact(q)
      BY <2>1 DEF TurnStep, Went, Exact
    <2> QED
      BY <2>1, TurnSteps
  <1> QED
    BY <1>2, <1>3, <1>4, <1>5, PTL DEF TurnSpec, ExactInTurn

=============================================================================
