--------------------------- MODULE ContentProofs ---------------------------
(***************************************************************************)
(* What a batch, a lookup of one id and a preview answer, for any          *)
(* resources, tenants, ids and requests, whatever is imported meanwhile.   *)
(* The invariant (LookupInv, in Content) follows the job of a lookup, and  *)
(* each job of a preview, through its tiers; of a preview it says besides  *)
(* that what a section has merged is in the order of the sources it has    *)
(* done.  The order the database gives and the order of the errors are     *)
(* arbitrary.                                                              *)
(***************************************************************************)
EXTENDS Content, TLAPS, NaturalsInduction, SequenceTheorems, FiniteSetTheorems,
        WellFoundedInduction

-----------------------------------------------------------------------------
(* Sets as sequences. *)

\* A set of numbers that are not 0 has a greatest one if it is bounded.
LEMMA GreatestExists ==
    ASSUME NEW N \in Nat, NEW I \in SUBSET (1..N), I # {}
    PROVE  Max(I) \in I
  <1> DEFINE R == OpToRel(<, Nat)
             J == {N - x : x \in I}
  <1>1. \A x \in Nat, y \in Nat : <<y, x>> \in R <=> y < x
    BY DEF OpToRel
  <1>2. IsWellFoundedOn(R, Nat)
    BY NatLessThanWellFounded
  <1>3. \A x \in I : x \in Nat /\ N - x \in Nat
    OBVIOUS
  <1>4. J \subseteq Nat /\ J # {}
    BY <1>3
  <1> HIDE DEF R
  <1>5. PICK y \in J : \A z \in J : ~ (<<z, y>> \in R)
    <2> HIDE DEF J
    <2> QED
      BY <1>2, <1>4, WFMin
  <1>6. \A z \in J : y \in Nat /\ z \in Nat /\ ~ (z < y)
    BY <1>1, <1>4, <1>5
  <1>7. PICK x \in I : y = N - x
    BY <1>5
  <1>8. \A z \in I : N - z \in J
    OBVIOUS
  <1>9. \A z \in I : x >= z
    BY <1>3, <1>6, <1>7, <1>8
  <1> QED
    BY <1>7, <1>9 DEF Max

\* A sequence of all elements of a set has each of them.
LEMMA AllInOrder ==
    ASSUME NEW S, IsFiniteSet(S), NEW s \in [1..Cardinality(S) -> S],
           \A m, n \in 1..Cardinality(S) : s[m] = s[n] => m = n
    PROVE  /\ Cardinality(S) \in Nat
           /\ \A x \in S : \E n \in 1..Cardinality(S) : s[n] = x
  <1>1. Cardinality(S) \in Nat
    BY FS_CardinalityType
  <1>2. IsFiniteSet(1..Cardinality(S)) /\ Cardinality(1..Cardinality(S)) = Cardinality(S)
    BY <1>1, FS_Interval
  <1>3. s \in Injection(1..Cardinality(S), S)
    BY DEF Injection, IsInjective
  <1>4. s \in Surjection(1..Cardinality(S), S)
    BY <1>2, <1>3, FS_Injection
  <1> QED
    BY <1>1, <1>4 DEF Surjection

\* Every order the database may give has all resources that match.
LEMMA SetToSeqsAre ==
    ASSUME NEW S, IsFiniteSet(S), NEW s \in SetToSeqs(S)
    PROVE  /\ Cardinality(S) \in Nat /\ DOMAIN s = 1..Cardinality(S)
           /\ \A n \in DOMAIN s : s[n] \in S
           /\ \A x \in S : \E n \in DOMAIN s : s[n] = x
  <1>1. /\ s \in [1..Cardinality(S) -> S]
        /\ \A m, n \in 1..Cardinality(S) : s[m] = s[n] => m = n
    BY DEF SetToSeqs
  <1> QED
    BY <1>1, AllInOrder

\* Each element comes once.
IsOrderOf(s, S) ==
    /\ s \in Seq(S)
    /\ \A x \in S : \E n \in DOMAIN s : s[n] = x
    /\ \A m, n \in DOMAIN s : s[m] = s[n] => m = n

\* So has the order in which the ids not found are looked up.
LEMMA SetToSeqIs ==
    ASSUME NEW S, IsFiniteSet(S)
    PROVE  IsOrderOf(SetToSeq(S), S) /\ Len(SetToSeq(S)) = Cardinality(S)
  <1> DEFINE s == SetToSeq(S)
  <1>1. Cardinality(S) \in Nat
    BY FS_CardinalityType
  <1>2. \E f \in [1..Cardinality(S) -> S] : IsInjective(f)
    <2>1. ExistsBijection(1..Cardinality(S), S)
      BY FS_CountingElements, FS_CardinalityType
    <2>2. PICK f : f \in Bijection(1..Cardinality(S), S)
      BY <2>1 DEF ExistsBijection
    <2> QED
      BY <2>2 DEF Bijection, Injection
  <1>3. s \in [1..Cardinality(S) -> S] /\ IsInjective(s)
    BY <1>2 DEF SetToSeq
  <1> HIDE DEF s
  <1>4. \A m, n \in 1..Cardinality(S) : s[m] = s[n] => m = n
    BY <1>3 DEF IsInjective
  <1>5. \A x \in S : \E n \in 1..Cardinality(S) : s[n] = x
    BY <1>3, <1>4, AllInOrder
  <1>6. s \in Seq(S) /\ Len(s) = Cardinality(S) /\ DOMAIN s = 1..Cardinality(S)
    BY <1>1, <1>3
  <1> QED
    BY <1>4, <1>5, <1>6 DEF IsOrderOf, s
-----------------------------------------------------------------------------
(* Collecting. *)

\* A lookup goes on with the same ids, for the same source.
Continues(job, done) ==
    /\ DOMAIN done = JobFields /\ done.ids = job.ids
    /\ done.at = job.at /\ done.source = job.source /\ done.merged = job.merged

\* What collecting the resources of order adds to a job.
Adds(job, done, tier, order) ==
    /\ Continues(job, done) /\ done.tier = job.tier /\ done.step = job.step
    /\ done.found = job.found \cup {Named(order[i], tier) : i \in DOMAIN order}
    /\ done.errors \in Seq(Errors(job)) /\ Len(job.errors) \in Nat
    /\ Len(job.errors) <= Len(done.errors)
    /\ \A n \in 1..Len(job.errors) : done.errors[n] = job.errors[n]

AddsData(job, done, tier, order) ==
    /\ DOMAIN job.data \subseteq DOMAIN done.data
    /\ \A id \in DOMAIN job.data : done.data[id] = job.data[id]
    /\ \A id \in DOMAIN done.data \ DOMAIN job.data :
          \E i \in DOMAIN order : /\ order[i].translated /\ Named(order[i], tier) = id
                                  /\ done.data[id] = order[i]
    /\ \A i \in DOMAIN order : order[i].translated => Named(order[i], tier) \in DOMAIN done.data

AddsErrors(job, done, tier, order) ==
    /\ \A n \in Len(job.errors) + 1..Len(done.errors) :
          /\ done.errors[n].status = "400"
          /\ \E i \in DOMAIN order : /\ ~order[i].translated
                                     /\ done.errors[n].id = Named(order[i], tier)
    /\ \A i \in DOMAIN order : ~order[i].translated =>
          \E n \in Len(job.errors) + 1..Len(done.errors) :
              done.errors[n].id = Named(order[i], tier)

\* Sequences one after the other.
LEMMA Appended ==
    ASSUME NEW S, NEW s \in Seq(S), NEW t \in Seq(S)
    PROVE  /\ s \o t \in Seq(S) /\ Len(s) \in Nat /\ Len(t) \in Nat
           /\ Len(s \o t) = Len(s) + Len(t)
           /\ \A n \in 1..Len(s) : (s \o t)[n] = s[n]
           /\ \A n \in 1..Len(t) : (s \o t)[Len(s) + n] = t[n]
           /\ \A n \in Len(s) + 1..Len(s) + Len(t) :
                 n - Len(s) \in 1..Len(t) /\ (s \o t)[n] = t[n - Len(s)]
  <1>1. /\ s \o t \in Seq(S) /\ Len(s) \in Nat /\ Len(t) \in Nat
        /\ Len(s \o t) = Len(s) + Len(t)
    OBVIOUS
  <1>2. \A n \in 1..Len(s) + Len(t) :
            (s \o t)[n] = IF n <= Len(s) THEN s[n] ELSE t[n - Len(s)]
    OBVIOUS
  <1> DEFINE u == s \o t
  <1>3. \A n \in 1..Len(u) : u[n] = IF n <= Len(s) THEN s[n] ELSE t[n - Len(s)]
    BY <1>1, <1>2
  <1>4. u \in Seq(S) /\ Len(u) = Len(s) + Len(t)
    BY <1>1
  <1> HIDE DEF u
  <1>5. \A n \in 1..Len(s) : n \in 1..Len(u) /\ u[n] = s[n]
    BY <1>1, <1>3, <1>4
  <1>6. \A n \in 1..Len(t) : u[Len(s) + n] = t[n]
    <2> TAKE n \in 1..Len(t)
    <2>1. Len(s) + n \in 1..Len(u) /\ ~(Len(s) + n <= Len(s)) /\ (Len(s) + n) - Len(s) = n
      BY <1>1, <1>4
    <2> QED
      BY <1>3, <2>1
  <1>7. \A n \in Len(s) + 1..Len(s) + Len(t) :
            n - Len(s) \in 1..Len(t) /\ u[n] = t[n - Len(s)]
    <2> TAKE n \in Len(s) + 1..Len(s) + Len(t)
    <2>1. n \in 1..Len(u) /\ ~(n <= Len(s)) /\ n - Len(s) \in 1..Len(t)
      BY <1>1, <1>4
    <2> QED
      BY <1>3, <2>1
  <1> QED
    BY <1>1, <1>4, <1>5, <1>6, <1>7 DEF u

\* What a tier can give.
Listed(job, tier, order) ==
    /\ \E N \in Nat : DOMAIN order = 1..N
    /\ \A i \in DOMAIN order : Named(order[i], tier) \in Wanted(job) \ job.found

\* What the loop of collectTransformedResources does to a job.
LEMMA CollectAdds ==
    ASSUME NEW job, NEW tier, NEW order, DOMAIN job = JobFields, FoundFits(job),
           Listed(job, tier, order)
    PROVE  /\ Adds(job, Collect(job, tier, order), tier, order)
           /\ AddsData(job, Collect(job, tier, order), tier, order)
           /\ AddsErrors(job, Collect(job, tier, order), tier, order)
  <1> DEFINE D == DOMAIN order
             ids == [i \in D |-> Named(order[i], tier)]
             good == {i \in D : order[i].translated}
             new == [id \in {ids[i] : i \in good} |-> order[Max({i \in good : ids[i] = id})]]
             E == {[id |-> ids[i], status |-> "400", n |-> i] : i \in D \ good}
             done == Collect(job, tier, order)
             found == {ids[i] : i \in D}
             known == Over(new, job.data)
             errors == job.errors \o SetToSeq(E)
  <1>1. done = [job EXCEPT !.found = @ \cup found, !.data = Over(new, @),
                           !.errors = @ \o SetToSeq(E)]
    BY DEF Collect, Collected
  <1>2. /\ Continues(job, done) /\ done.tier = job.tier
        /\ done.step = job.step /\ done.found = job.found \cup found
        /\ done.data = known /\ done.errors = errors
    <2> HIDE DEF new, E, found, done
    <2> QED
      BY <1>1 DEF JobFields, Continues
  <1>3. PICK N \in Nat : D = 1..N
    BY DEF Listed
  <1>4. \A i \in D : ids[i] = Named(order[i], tier) /\ ids[i] \in Wanted(job) \ job.found
    BY DEF Listed
  <1>5. found = {Named(order[i], tier) : i \in D}
    OBVIOUS
  <1>6. \A i \in D : i \in good <=> order[i].translated
    OBVIOUS
  <1>7. good \subseteq D
    OBVIOUS
  <1>8. DOMAIN new = {ids[i] : i \in good}
    OBVIOUS
  <1>9. \A id \in DOMAIN new : \E i \in good : ids[i] = id /\ new[id] = order[i]
    <2> TAKE id \in DOMAIN new
    <2> DEFINE I == {i \in good : ids[i] = id}
    <2>1. I # {} /\ I \subseteq good
      BY <1>8
    <2>2. new[id] = order[Max(I)]
      OBVIOUS
    <2>3. I \in SUBSET (1..N)
      BY <2>1, <1>3, <1>7
    <2> HIDE DEF I
    <2>4. Max(I) \in I
      BY <2>1, <2>3, GreatestExists
    <2> QED
      BY <2>1, <2>2, <2>4 DEF I
  <1> HIDE DEF new
  <1>10. /\ DOMAIN known = DOMAIN new \cup DOMAIN job.data
         /\ \A id \in DOMAIN new : known[id] = new[id]
         /\ \A id \in DOMAIN job.data \ DOMAIN new : known[id] = job.data[id]
    BY DEF Over
  <1>11. IsFiniteSet(E)
    <2>1. IsFiniteSet(D \ good)
      BY <1>3, FS_Interval, FS_Subset
    <2> DEFINE e == [i \in D \ good |-> [id |-> ids[i], status |-> "400", n |-> i]]
    <2>2. E = {e[i] : i \in D \ good}
      OBVIOUS
    <2>3. e \in Surjection(D \ good, E)
      BY <2>2 DEF Surjection
    <2> QED
      BY <2>1, <2>3, FS_Surjection
  <1>12. E \subseteq Errors(job)
    BY <1>3, <1>4 DEF Errors
  <1> DEFINE s == SetToSeq(E)
  <1>13. s \in Seq(E) /\ \A x \in E : \E n \in DOMAIN s : s[n] = x
    BY <1>11, SetToSeqIs DEF IsOrderOf
  <1>14. /\ \A x \in E : \E i \in D \ good : x.id = ids[i] /\ x.status = "400"
         /\ \A i \in D \ good : \E x \in E : x.id = ids[i]
    <2>1. \A x \in E : \E i \in D \ good : x = [id |-> ids[i], status |-> "400", n |-> i]
      OBVIOUS
    <2>2. \A i \in D \ good : [id |-> ids[i], status |-> "400", n |-> i] \in E
      OBVIOUS
    <2>3. \A i \in D \ good : LET x == [id |-> ids[i], status |-> "400", n |-> i]
                              IN x.id = ids[i] /\ x.status = "400"
      OBVIOUS
    <2> HIDE DEF E, ids, good
    <2>4. ASSUME NEW x \in E
          PROVE  \E i \in D \ good : x.id = ids[i] /\ x.status = "400"
      <3>1. PICK i \in D \ good : x = [id |-> ids[i], status |-> "400", n |-> i]
        BY <2>1
      <3> QED
        BY <3>1
    <2>5. ASSUME NEW i \in D \ good
          PROVE  \E x \in E : x.id = ids[i]
      BY <2>2, <2>3
    <2> QED
      BY <2>4, <2>5
  <1> HIDE DEF E, s
  <1>15. s \in Seq(Errors(job)) /\ DOMAIN s = 1..Len(s) /\ \A n \in 1..Len(s) : s[n] \in E
    BY <1>12, <1>13
  <1>16. job.errors \in Seq(Errors(job))
    BY DEF FoundFits
  <1>17. /\ errors \in Seq(Errors(job)) /\ Len(job.errors) \in Nat /\ Len(s) \in Nat
         /\ Len(errors) = Len(job.errors) + Len(s)
         /\ \A n \in 1..Len(job.errors) : errors[n] = job.errors[n]
         /\ \A n \in 1..Len(s) : errors[Len(job.errors) + n] = s[n]
         /\ \A n \in Len(job.errors) + 1..Len(job.errors) + Len(s) :
               n - Len(job.errors) \in 1..Len(s) /\ errors[n] = s[n - Len(job.errors)]
    BY <1>15, <1>16, Appended DEF s
  <1> HIDE DEF errors, known, found, ids, good, done
  <1>18. Adds(job, done, tier, order)
    BY <1>2, <1>5, <1>17 DEF Adds
  <1>19. AddsData(job, done, tier, order)
    <2>1. DOMAIN job.data \cap DOMAIN new = {}
      BY <1>4, <1>7, <1>8 DEF FoundFits
    <2>2. /\ DOMAIN job.data \subseteq DOMAIN known
          /\ \A id \in DOMAIN job.data : known[id] = job.data[id]
      BY <1>10, <2>1
    <2>3. \A id \in DOMAIN known \ DOMAIN job.data :
              \E i \in D : order[i].translated /\ Named(order[i], tier) = id /\ known[id] = order[i]
      BY <1>4, <1>6, <1>7, <1>9, <1>10
    <2>4. \A i \in D : order[i].translated => Named(order[i], tier) \in DOMAIN known
      BY <1>4, <1>6, <1>8, <1>10
    <2> QED
      BY <1>2, <2>2, <2>3, <2>4 DEF AddsData
  <1>20. AddsErrors(job, done, tier, order)
    <2>1. ASSUME NEW n \in Len(job.errors) + 1..Len(errors)
          PROVE  /\ errors[n].status = "400"
                 /\ \E i \in D : ~order[i].translated /\ errors[n].id = Named(order[i], tier)
      <3>1. errors[n] \in E
        BY <1>15, <1>17
      <3>2. PICK i \in D \ good : errors[n].id = ids[i] /\ errors[n].status = "400"
        BY <3>1, <1>14
      <3> QED
        BY <3>2, <1>4, <1>6
    <2>2. ASSUME NEW i \in D, ~order[i].translated
          PROVE  \E n \in Len(job.errors) + 1..Len(errors) : errors[n].id = Named(order[i], tier)
      <3>1. i \in D \ good
        BY <1>6, <2>2
      <3>2. PICK x \in E : x.id = ids[i]
        BY <3>1, <1>14
      <3>3. PICK n \in 1..Len(s) : s[n] = x
        BY <3>2, <1>13, <1>15
      <3>4. Len(job.errors) + n \in Len(job.errors) + 1..Len(errors)
        BY <1>17
      <3>5. errors[Len(job.errors) + n].id = Named(order[i], tier)
        BY <1>17, <3>2, <3>3, <1>4
      <3> QED
        BY <3>4, <3>5
    <2> QED
      BY <1>2, <2>1, <2>2 DEF AddsErrors
  <1> QED
    BY <1>18, <1>19, <1>20 DEF done

-----------------------------------------------------------------------------
(* The tiers. *)

\* Lookups of one id and batches have the same tiers.
LEMMA ThreeTiers ==
    ASSUME Seeks
    PROVE  /\ Tiers(asked.kind) = <<"primary", "byId", "anyTenant">>
           /\ Len(Tiers(asked.kind)) = 3
           /\ Tiers(asked.kind)[1] = "primary" /\ Tiers(asked.kind)[2] = "byId"
           /\ Tiers(asked.kind)[3] = "anyTenant"
BY DEF Seeks, Tiers

\* A query gives finitely many resources.
LEMMA MatchesAreFinite ==
    ASSUME NEW tier, NEW tenant, NEW ids, resources \subseteq Copies
    PROVE  IsFiniteSet(Matches(tier, tenant, ids))
  <1>1. Matches(tier, tenant, ids) \subseteq Copies
    BY DEF Matches
  <1> QED
    BY <1>1, ContentAssumption, FS_Subset

\* What a query for several ids gives for one of them.
LEMMA MatchesOfOne ==
    ASSUME NEW tier, NEW tenant, NEW ids, NEW id \in ids
    PROVE  /\ Matches(tier, tenant, {id}) \subseteq Matches(tier, tenant, ids)
           /\ \A r \in Matches(tier, tenant, ids) :
                 Named(r, tier) \in ids /\ r \in Matches(tier, tenant, {Named(r, tier)})
           /\ \A r \in Matches(tier, tenant, {id}) : Named(r, tier) = id
BY DEF Matches

\* The best of an id is what the first tier that knows it gives.
Of(t, id) == Matches(Tiers(asked.kind)[t], asked.tenant, {id})

\* The tiers in terms of the queries.
LEMMA BestIs ==
    ASSUME Seeks, NEW id
    PROVE  Best(id) = IF Of(1, id) # {} THEN Of(1, id)
                      ELSE IF Of(2, id) # {} THEN Of(2, id) ELSE Of(3, id)
  <1>1. Of(1, id) = {r \in {s \in resources : s.tenant = asked.tenant} : r.sal = id}
    BY ThreeTiers DEF Of, Matches, Named
  <1>2. Of(2, id) = {r \in {s \in resources : s.tenant = asked.tenant} : r.mongo = id}
    BY ThreeTiers DEF Of, Matches, Named
  <1>3. Of(3, id) = {r \in resources : r.sal = id}
    BY ThreeTiers DEF Of, Matches, Named
  <1> QED
    BY <1>1, <1>2, <1>3 DEF Best

\* The first tier that knows an id gives its best resources.
LEMMA FirstTierIsBest ==
    ASSUME Seeks, NEW id, NEW T \in 1..3, \A t \in 1..(T - 1) : Of(t, id) = {}
    PROVE  /\ Of(T, id) # {} => Best(id) = Of(T, id)
           /\ T = 3 /\ Of(T, id) = {} => Best(id) = {}
  <1>1. T = 1 \/ T = 2 \/ T = 3
    OBVIOUS
  <1>2. /\ T > 1 => Of(1, id) = {}
        /\ T > 2 => Of(2, id) = {}
    BY <1>1
  <1> QED
    BY <1>1, <1>2, BestIs

\* As long as the data stays, it is known what an id that was not found lacks.
LEMMA UnknownIs ==
    ASSUME NEW job, NEW id
    PROVE  Unknown(job, id) <=> IF job.step = "find"
                                THEN \A t \in 1..(job.tier - 1) : Of(t, id) = {}
                                ELSE Best(id) = {}
BY DEF Unknown, Of

-----------------------------------------------------------------------------
(* One tier of a lookup. *)

\* What was found after a tier, before the lookup goes on.
TierFits(job, done) ==
    /\ Continues(job, done) /\ done.step = "find"
    /\ done.tier = job.tier /\ FoundFits(done)
    /\ \A id \in Wanted(done) \ done.found : Reported(done, id) = {}
    /\ Steady => \A id \in done.found : BestFound(done, id)

\* Whatever part of a tier a lookup of one id collects, what it has found keeps
\* fitting; so it does when others collect the whole tier.
LEMMA TierAnswers ==
    ASSUME LookupInv, Seeks, NEW job, JobFits(job), job.step = "find", NEW order,
           Listed(job, Tiers(asked.kind)[job.tier], order),
           \A i \in DOMAIN order :
               order[i] \in Matches(Tiers(asked.kind)[job.tier], asked.tenant, Missing(job)),
           asked.kind # "single" =>
               \A x \in Matches(Tiers(asked.kind)[job.tier], asked.tenant, Missing(job)) :
                   \E i \in DOMAIN order : order[i] = x
    PROVE  TierFits(job, Collect(job, Tiers(asked.kind)[job.tier], order))
  <1> DEFINE tier == Tiers(asked.kind)[job.tier]
             done == Collect(job, tier, order)
             name(i) == Named(order[i], tier)
  <1>1. /\ DOMAIN job = JobFields /\ FoundFits(job) /\ AbsentFits(job)
        /\ job.tier \in 1..3
        /\ Steady => BestSoFar(job)
    BY DEF JobFits
  <1>2. /\ Adds(job, done, tier, order) /\ AddsData(job, done, tier, order)
        /\ AddsErrors(job, done, tier, order)
    BY <1>1, CollectAdds
  <1>3. \A i \in DOMAIN order : name(i) \in Wanted(job) \ job.found
    BY DEF Listed
  <1> HIDE DEF done
  <1>4. /\ Continues(job, done) /\ done.step = "find" /\ Wanted(done) = Wanted(job)
        /\ Errors(done) = Errors(job)
        /\ done.tier = job.tier
        /\ done.found = job.found \cup {name(i) : i \in DOMAIN order}
        /\ done.errors \in Seq(Errors(job)) /\ Len(job.errors) \in Nat
        /\ Len(job.errors) <= Len(done.errors)
        /\ \A n \in 1..Len(job.errors) : done.errors[n] = job.errors[n]
    BY <1>1, <1>2 DEF Adds, Continues, Wanted, Errors
  <1>5. /\ job.found \subseteq Wanted(job) /\ DOMAIN job.data \subseteq job.found
        /\ job.errors \in Seq(Errors(job))
        /\ \A id \in job.found :
              /\ \A n \in Reported(job, id) : job.errors[n].status = "400"
              /\ id \in DOMAIN job.data \/ Reported(job, id) # {}
    BY <1>1 DEF FoundFits
  <1>6. /\ DOMAIN job.data \subseteq DOMAIN done.data
        /\ \A id \in DOMAIN job.data : done.data[id] = job.data[id]
        /\ \A id \in DOMAIN done.data \ DOMAIN job.data :
              \E i \in DOMAIN order : /\ order[i].translated /\ name(i) = id
                                      /\ done.data[id] = order[i]
        /\ \A i \in DOMAIN order : order[i].translated => name(i) \in DOMAIN done.data
    BY <1>2 DEF AddsData
  <1>7. /\ \A n \in Len(job.errors) + 1..Len(done.errors) :
              /\ done.errors[n].status = "400"
              /\ \E i \in DOMAIN order : ~order[i].translated /\ done.errors[n].id = name(i)
        /\ \A i \in DOMAIN order : ~order[i].translated =>
              \E n \in Len(job.errors) + 1..Len(done.errors) : done.errors[n].id = name(i)
    BY <1>2 DEF AddsErrors
  <1>8. /\ DOMAIN job.errors = 1..Len(job.errors)
        /\ DOMAIN done.errors = 1..Len(done.errors) /\ Len(done.errors) \in Nat
    BY <1>4, <1>5
  <1>9. \A n \in DOMAIN done.errors :
            n \in DOMAIN job.errors \/ n \in Len(job.errors) + 1..Len(done.errors)
    BY <1>4, <1>8
  <1>10. /\ \A n \in DOMAIN job.errors : n \in DOMAIN done.errors
         /\ \A n \in Len(job.errors) + 1..Len(done.errors) : n \in DOMAIN done.errors
    BY <1>4, <1>8
  <1>11. \A id \in done.found : id \in job.found \/ \E i \in DOMAIN order : id = name(i)
    BY <1>4
  <1>12. FoundFits(done)
    <2>1. done.found \subseteq Wanted(job)
      BY <1>3, <1>4, <1>5
    <2>2. DOMAIN done.data \subseteq done.found
      BY <1>4, <1>5, <1>6
    <2>3. ASSUME NEW id \in done.found, NEW n \in Reported(done, id)
          PROVE  done.errors[n].status = "400"
      <3>1. n \in DOMAIN done.errors /\ done.errors[n].id = id
        BY DEF Reported
      <3>2. CASE n \in DOMAIN job.errors
        <4>1. done.errors[n] = job.errors[n] /\ n \in Reported(job, id)
          BY <1>4, <1>8, <3>1, <3>2 DEF Reported
        <4>2. CASE id \in job.found
          BY <4>1, <4>2, <1>5
        <4>3. CASE id \notin job.found
          <5>1. id \in Wanted(job) \ job.found
            BY <2>1, <4>3
          <5>2. Reported(job, id) = {}
            BY <1>1, <5>1 DEF AbsentFits
          <5> QED
            BY <4>1, <5>2
        <4> QED
          BY <4>2, <4>3
      <3>3. CASE n \in Len(job.errors) + 1..Len(done.errors)
        BY <1>7, <3>3
      <3> QED
        BY <1>9, <3>1, <3>2, <3>3
    <2>4. ASSUME NEW id \in done.found
          PROVE  id \in DOMAIN done.data \/ Reported(done, id) # {}
      <3>1. CASE id \in job.found
        <4>1. CASE id \in DOMAIN job.data
          BY <4>1, <1>6
        <4>2. CASE Reported(job, id) # {}
          <5>1. PICK n \in DOMAIN job.errors : job.errors[n].id = id
            BY <4>2 DEF Reported
          <5>2. n \in DOMAIN done.errors /\ done.errors[n].id = id
            BY <5>1, <1>4, <1>8, <1>10
          <5> QED
            BY <5>2 DEF Reported
        <4> QED
          BY <3>1, <4>1, <4>2, <1>5
      <3>2. CASE \E i \in DOMAIN order : id = name(i)
        <4>1. PICK i \in DOMAIN order : id = name(i)
          BY <3>2
        <4>2. CASE order[i].translated
          BY <4>1, <4>2, <1>6
        <4>3. CASE ~order[i].translated
          <5>1. PICK n \in Len(job.errors) + 1..Len(done.errors) : done.errors[n].id = id
            BY <1>7, <4>1, <4>3
          <5> QED
            BY <5>1, <1>10 DEF Reported
        <4> QED
          BY <4>2, <4>3
      <3> QED
        BY <1>11, <3>1, <3>2
    <2> QED
      BY <1>4, <2>1, <2>2, <2>3, <2>4 DEF FoundFits
  <1>13. ASSUME NEW id \in Wanted(job) \ done.found PROVE Reported(done, id) = {}
    <2>1. SUFFICES ASSUME NEW n \in DOMAIN done.errors, done.errors[n].id = id
                   PROVE  FALSE
      BY DEF Reported
    <2>2. CASE n \in DOMAIN job.errors
      <3>1. done.errors[n] = job.errors[n] /\ n \in Reported(job, id)
        BY <1>4, <1>8, <2>1, <2>2 DEF Reported
      <3>2. id \in Wanted(job) \ job.found
        BY <1>4
      <3>3. Reported(job, id) = {}
        BY <1>1, <3>2 DEF AbsentFits
      <3> QED
        BY <3>1, <3>3
    <2>3. CASE n \in Len(job.errors) + 1..Len(done.errors)
      BY <1>4, <1>7, <2>1, <2>3
    <2> QED
      BY <1>9, <2>2, <2>3
  <1>14. ASSUME Steady, NEW i \in DOMAIN order
         PROVE  /\ order[i] \in Of(job.tier, name(i)) /\ Best(name(i)) = Of(job.tier, name(i))
                /\ name(i) \in Missing(job)
    <2>1. /\ \A id \in Wanted(job) \ job.found : Unknown(job, id)
          /\ order[i] \in Matches(tier, asked.tenant, Missing(job))
          /\ name(i) \in Wanted(job) \ job.found
      BY <1>1, <1>3, <1>14 DEF BestSoFar
    <2>2. \A t \in 1..(job.tier - 1) : Of(t, name(i)) = {}
      BY <2>1, UnknownIs
    <2>3. order[i] \in Of(job.tier, name(i)) /\ name(i) \in Missing(job)
      <3>1. Missing(job) = Wanted(job) \ job.found
        BY <1>1 DEF Missing, Wanted
      <3>2. order[i] \in Matches(tier, asked.tenant, {name(i)})
        <4> HIDE DEF tier
        <4> QED
          BY <2>1, <3>1 DEF Matches
      <3> QED
        BY <2>1, <3>1, <3>2 DEF Of
    <2> HIDE DEF name
    <2> QED
      BY <1>1, <2>2, <2>3, FirstTierIsBest
  <1>15. ASSUME Steady, NEW id \in done.found
         PROVE  BestFound(done, id)
    <2>1. \A x \in job.found : BestFound(job, x)
      BY <1>1, <1>15 DEF BestSoFar
    <2>2. CASE id \in DOMAIN job.data
      BY <2>1, <2>2, <1>5, <1>6 DEF BestFound
    <2>3. CASE id \in DOMAIN done.data \ DOMAIN job.data
      <3>1. PICK i \in DOMAIN order :
               order[i].translated /\ name(i) = id /\ done.data[id] = order[i]
        BY <2>3, <1>6
      <3>2. order[i] \in Best(id)
        <4> HIDE DEF name
        <4> QED
          BY <3>1, <1>14, <1>15
      <3> QED
        BY <3>1, <3>2, <2>3 DEF BestFound, Good
    <2>4. CASE id \notin DOMAIN done.data /\ id \in job.found
      BY <2>1, <2>4, <1>6 DEF BestFound
    <2>5. CASE id \notin DOMAIN done.data /\ \E i \in DOMAIN order : id = name(i)
      <3>1. PICK i \in DOMAIN order : id = name(i)
        BY <2>5
      <3>2. \A n \in DOMAIN order : name(n) = id => ~order[n].translated
        BY <2>5, <1>6
      <3>3. /\ order[i] \in Of(job.tier, id) /\ Best(id) = Of(job.tier, id)
            /\ id \in Missing(job)
        <4> HIDE DEF name
        <4> QED
          BY <3>1, <1>14, <1>15
      <3>4. ASSUME asked.kind # "single", NEW r \in Good(id) PROVE FALSE
        <4>1. r \in Matches(tier, asked.tenant, {id}) /\ r.translated
          BY <3>3, <3>4 DEF Good, Of
        <4>2. r \in Matches(tier, asked.tenant, Missing(job)) /\ Named(r, tier) = id
          <5> HIDE DEF tier
          <5> QED
            BY <3>3, <4>1 DEF Matches
        <4>3. PICK n \in DOMAIN order : order[n] = r
          BY <3>4, <4>2
        <4> QED
          BY <3>2, <4>1, <4>2, <4>3
      <3>5. ~order[i].translated
        BY <3>1, <3>2
      <3> QED
        BY <3>3, <3>4, <3>5, <2>5 DEF BestFound
    <2> QED
      BY <1>6, <1>11, <2>2, <2>3, <2>4, <2>5
  <1>16. TierFits(job, done)
    BY <1>4, <1>12, <1>13, <1>15 DEF TierFits
  <1> QED
    BY <1>16 DEF done
-----------------------------------------------------------------------------
(* The steps of a lookup. *)

\* What is said of a job depends on the request and the data alone.
LEMMA BestStays ==
    ASSUME UNCHANGED <<resources, asked>>
    PROVE  \A id : Best(id)' = Best(id) /\ Good(id)' = Good(id)
  <1>1. \A id : Best(id)' = Best(id)
    BY DEF Best
  <1> QED
    BY <1>1 DEF Good

LEMMA JobFitsStays ==
    ASSUME NEW job, UNCHANGED asked, Steady' => Steady /\ UNCHANGED resources, JobFits(job)
    PROVE  JobFits(job)'
  <1>1. Wanted(job)' = Wanted(job) /\ Errors(job)' = Errors(job)
    BY DEF Wanted, Errors
  <1>2. FoundFits(job)' /\ AbsentFits(job)'
    BY <1>1 DEF JobFits, FoundFits, AbsentFits, Reported, NotFound
  <1>3. (asked.kind = "single" => SingleFits(job))'
    BY DEF JobFits, SingleFits
  <1>4. ASSUME Steady' PROVE BestSoFar(job)'
    <2>1. Steady /\ UNCHANGED <<resources, asked>>
      BY <1>4
    <2>2. \A id : Best(id)' = Best(id) /\ Good(id)' = Good(id)
      BY <2>1, BestStays
    <2>3. \A id : Unknown(job, id)' <=> Unknown(job, id)
      BY <2>1, <2>2 DEF Unknown, Matches, Tiers
    <2>4. \A id : BestFound(job, id)' <=> BestFound(job, id)
      BY <2>1, <2>2 DEF BestFound
    <2>5. BestSoFar(job)
      BY <2>1 DEF JobFits
    <2> QED
      BY <1>1, <2>3, <2>4, <2>5 DEF BestSoFar
  <1> QED
    BY <1>2, <1>3, <1>4 DEF JobFits, IsList

\* So is what is said of the lists.
LEMMA IdsStay ==
    ASSUME UNCHANGED <<lists, asked>>
    PROVE  \A source : IdsOf(source)' = IdsOf(source)
  <1> TAKE source
  <1>1. Meant(source)' = Meant(source)
    BY DEF Meant, Owner
  <1>2. ListOf(source)' = ListOf(source)
    BY <1>1, Zenon DEF ListOf
  <1> QED
    BY <1>2 DEF IdsOf

\* The order of what is shown depends on the data alone.
LEMMA OrderStays ==
    ASSUME NEW shown, NEW section, NEW K, NEW limit,
           UNCHANGED <<resources, lists, asked>>,
           InOrder(shown, section, Places(section, K), limit)
    PROVE  InOrder(shown, section, Places(section, K), limit)'
  <1>1. \A id : Good(id)' = Good(id)
    BY BestStays
  <1>2. \A source : IdsOf(source)' = IdsOf(source)
    BY IdsStay
  <1>3. Places(section, K)' = Places(section, K)
    BY <1>2 DEF Places
  <1>4. \A p : IdAt(section, p)' = IdAt(section, p)
    BY <1>2 DEF IdAt
  <1>5. \A p : Good(IdAt(section, p))' = Good(IdAt(section, p))
    BY <1>1, <1>4
  <1> QED
    BY <1>3, <1>5 DEF InOrder, Earlier

LEMMA SectionFitsStays ==
    ASSUME NEW section, NEW job, UNCHANGED asked,
           Steady' => Steady /\ UNCHANGED <<resources, lists>>, SectionFits(section, job)
    PROVE  SectionFits(section, job)'
  <1>1. SourceFits(section, job) => SourceFits(section, job)'
    <2> SUFFICES ASSUME SourceFits(section, job) PROVE SourceFits(section, job)'
      OBVIOUS
    <2>1. JobFits(job)'
      BY JobFitsStays DEF SourceFits
    <2>2. ASSUME Steady', section.sources[job.source].type # "query"
          PROVE  job.ids = IdsOf(section.sources[job.source])'
      BY <2>2, IdsStay DEF SourceFits
    <2> QED
      BY <2>1, <2>2 DEF SourceFits
  <1>2. ASSUME Steady', ~Searches(section)
        PROVE  MergedSoFar(job.merged, section, Done(job))'
    <2>1. MergedSoFar(job.merged, section, Done(job))
      BY <1>2 DEF SectionFits
    <2>2. \A source : IdsOf(source)' = IdsOf(source)
      BY <1>2, IdsStay
    <2>3. \A k \in 1..Done(job) : IsList(IdsOf(section.sources[k]))'
      BY <2>1, <2>2 DEF MergedSoFar, IsList
    <2>4. InOrder(job.merged, section, Places(section, Done(job)), -1)'
      BY <1>2, <2>1, OrderStays DEF MergedSoFar
    <2> QED
      BY <2>3, <2>4 DEF MergedSoFar
  <1>3. Once(job.merged)' /\ IsList(job.merged)'
    BY DEF SectionFits, Once, IsList
  <1> QED
    BY <1>1, <1>2, <1>3 DEF SectionFits, Done, Searches

\* A lookup goes on within its source.
LEMMA SectionMoves ==
    ASSUME NEW section, NEW job, SectionFits(section, job), job.step \in {"find", "redirect"},
           NEW done, JobFits(done), Continues(job, done)
    PROVE  SectionFits(section, done)
  <1>1. /\ DOMAIN done = JobFields /\ done.ids = job.ids /\ done.source = job.source
        /\ done.merged = job.merged /\ done.step \in {"find", "redirect", "end"}
    BY DEF Continues, JobFits
  <1>2. Done(done) = Done(job)
    BY <1>1 DEF Done
  <1>3. SourceFits(section, done)
    BY <1>1 DEF SectionFits, SourceFits
  <1> QED
    BY <1>1, <1>2, <1>3 DEF SectionFits

\* The job of a section changes.
SectionGoes(i, job) ==
    job.at = i /\ SectionFits(asked.sections[i], job) /\ SetJob(i, job)

LEMMA PreviewMoves ==
    ASSUME LookupInv, Seeks, asked.kind = "preview", reply = None,
           NEW i \in DOMAIN jobs, NEW job, SectionGoes(i, job)
    PROVE  LookupInv'
  <1>1. /\ job.at = i /\ SectionFits(asked.sections[i], job)
        /\ jobs' = [jobs EXCEPT ![i] = job]
        /\ UNCHANGED <<resources, lists, changes, asked, reply>>
    BY DEF SectionGoes, SetJob, data
  <1>2. /\ DOMAIN jobs' = DOMAIN jobs /\ jobs'[i] = job
        /\ \A k \in DOMAIN jobs : k # i => jobs'[k] = jobs[k]
    BY <1>1
  <1>3. PreviewFits
    BY DEF LookupInv
  <1>4. ASSUME NEW k \in DOMAIN jobs
        PROVE  jobs'[k].at = k /\ SectionFits(asked.sections[k], jobs'[k])
    <2>1. jobs[k].at = k /\ SectionFits(asked.sections[k], jobs[k])
      BY <1>3 DEF PreviewFits
    <2> QED
      BY <1>1, <1>2, <2>1
  <1>5. ASSUME NEW k \in DOMAIN jobs
        PROVE  SectionFits(asked.sections[k], jobs[k])'
    <2>1. PICK e : e = jobs'[k]
      OBVIOUS
    <2>2. PICK section : section = asked.sections[k]
      OBVIOUS
    <2>3. SectionFits(section, e)'
      BY <1>1, <1>4, <2>1, <2>2, SectionFitsStays DEF Steady
    <2> QED
      BY <1>1, <2>1, <2>2, <2>3
  <1>6. PreviewFits'
    BY <1>1, <1>2, <1>3, <1>4, <1>5 DEF PreviewFits
  <1> QED
    BY <1>1, <1>6 DEF LookupInv, Apart, IsRequest, IsSection, IsList, Seeks

\* One of the lookups changes.
Works(i, job) ==
    /\ jobs[i].step \in {"find", "redirect"} /\ JobFits(job) /\ Continues(jobs[i], job)
    /\ jobs' = [jobs EXCEPT ![i] = job] /\ UNCHANGED <<data, asked, reply>>

LEMMA JobMoves ==
    ASSUME LookupInv, Seeks, reply = None, NEW i \in DOMAIN jobs, NEW job, Works(i, job)
    PROVE  LookupInv'
  <1>1. /\ jobs[i].step \in {"find", "redirect"} /\ JobFits(job) /\ Continues(jobs[i], job)
        /\ jobs' = [jobs EXCEPT ![i] = job] /\ UNCHANGED <<data, asked, reply>>
    BY DEF Works
  <1>2. CASE asked.kind = "preview"
    <2>1. jobs[i].at = i /\ SectionFits(asked.sections[i], jobs[i])
      BY <1>2 DEF LookupInv, PreviewFits
    <2>2. SectionFits(asked.sections[i], job) /\ job.at = i
      BY <1>1, <2>1, SectionMoves DEF Continues
    <2>3. SectionGoes(i, job)
      BY <1>1, <2>2 DEF SectionGoes, SetJob
    <2> QED
      BY <1>2, <2>3, PreviewMoves
  <1>3. CASE asked.kind # "preview"
    <2>1. LookupFits
      BY <1>3 DEF LookupInv
    <2>2. DOMAIN jobs = {1} /\ i = 1 /\ DOMAIN jobs' = {1} /\ jobs'[1] = job
      BY <1>1, <2>1 DEF LookupFits
    <2>3. UNCHANGED <<resources, lists, changes, asked, reply>>
      BY <1>1 DEF data
    <2>4. JobFits(job)'
      BY <1>1, <2>3, JobFitsStays DEF Steady
    <2>5. JobFits(jobs[1])'
      BY <2>2, <2>4
    <2>6. LookupFits'
      BY <1>1, <2>1, <2>2, <2>3, <2>5 DEF LookupFits, Continues
    <2> QED
      BY <1>3, <2>3, <2>6 DEF LookupInv, Apart, IsRequest, IsSection, IsList, Seeks
  <1> QED
    BY <1>2, <1>3

\* After a tier that a lookup asked for everything it has not found yet.
LEMMA TierOver ==
    ASSUME LookupInv, Seeks, NEW job, JobFits(job), job.step = "find", NEW order,
           order \in SetToSeqs(Matches(Tiers(asked.kind)[job.tier], asked.tenant, Missing(job)))
    PROVE  LET done == Collect(job, Tiers(asked.kind)[job.tier], order)
           IN /\ TierFits(job, done)
              /\ Steady => \A id \in Wanted(job) \ done.found :
                               \A t \in 1..job.tier : Of(t, id) = {}
  <1> DEFINE tier == Tiers(asked.kind)[job.tier]
             S == Matches(tier, asked.tenant, Missing(job))
             done == Collect(job, tier, order)
  <1>1. /\ DOMAIN job = JobFields /\ FoundFits(job) /\ job.tier \in 1..3
        /\ Missing(job) = Wanted(job) \ job.found
        /\ Steady => BestSoFar(job)
    BY DEF JobFits, Missing, Wanted
  <1>2. IsFiniteSet(S)
    BY MatchesAreFinite DEF LookupInv
  <1>3. /\ Cardinality(S) \in Nat /\ DOMAIN order = 1..Cardinality(S)
        /\ \A n \in DOMAIN order : order[n] \in S
        /\ \A x \in S : \E n \in DOMAIN order : order[n] = x
    <2> HIDE DEF S
    <2>1. order \in SetToSeqs(S)
      BY DEF S
    <2> QED
      BY <2>1, <1>2, SetToSeqsAre
  <1>4. \A i \in DOMAIN order : Named(order[i], tier) \in Missing(job)
    BY <1>3 DEF Matches
  <1>5. Listed(job, tier, order)
    <2> HIDE DEF S, tier
    <2>1. \A i \in DOMAIN order : Named(order[i], tier) \in Wanted(job) \ job.found
      BY <1>1, <1>4
    <2> QED
      BY <1>3, <2>1 DEF Listed
  <1>6. TierFits(job, done)
    <2> HIDE DEF done
    <2>1. TierFits(job, Collect(job, tier, order))
      BY <1>3, <1>5, TierAnswers
    <2> QED
      BY <2>1 DEF done
  <1>7. done.found = job.found \cup {Named(order[i], tier) : i \in DOMAIN order}
    BY <1>1, <1>5, CollectAdds DEF Adds
  <1>8. ASSUME Steady, NEW id \in Wanted(job) \ done.found, NEW t \in 1..job.tier
        PROVE  Of(t, id) = {}
    <2>1. /\ id \in Missing(job) /\ id \in Wanted(job) \ job.found
          /\ \A i \in DOMAIN order : Named(order[i], tier) # id
      <3> HIDE DEF done, tier
      <3> QED
        BY <1>1, <1>7, <1>8
    <2>2. CASE t \in 1..(job.tier - 1)
      <3>1. Unknown(job, id)
        BY <1>1, <1>8, <2>1 DEF BestSoFar
      <3> QED
        BY <2>2, <3>1, UnknownIs
    <2>3. CASE t = job.tier
      <3> SUFFICES ASSUME NEW r \in Of(t, id) PROVE FALSE
        OBVIOUS
      <3>1. r \in Matches(tier, asked.tenant, {id})
        BY <2>3 DEF Of
      <3>2. r \in S /\ Named(r, tier) = id
        <4> HIDE DEF tier
        <4> QED
          BY <3>1, <2>1 DEF Matches
      <3> QED
        BY <3>2, <2>1, <1>3
    <2> QED
      BY <1>1, <2>2, <2>3
  <1> QED
    BY <1>6, <1>8

\* It goes on to the next tier.
LEMMA GoesOn ==
    ASSUME Seeks, NEW job, IsList(job.ids), NEW done, TierFits(job, done), job.tier \in 1..2,
           asked.kind = "single" => done.found = {} /\ done.errors = <<>>,
           Steady => \A id \in Wanted(job) \ done.found : \A t \in 1..job.tier : Of(t, id) = {}
    PROVE  /\ JobFits([done EXCEPT !.tier = @ + 1])
           /\ Continues(job, [done EXCEPT !.tier = @ + 1])
  <1> DEFINE e == [done EXCEPT !.tier = @ + 1]
  <1>1. /\ Continues(job, done) /\ done.step = "find" /\ DOMAIN done = JobFields
        /\ done.tier = job.tier /\ FoundFits(done)
    BY DEF TierFits, Continues
  <1>2. /\ DOMAIN e = JobFields /\ e.ids = done.ids /\ e.step = "find"
        /\ e.tier = job.tier + 1 /\ e.found = done.found /\ e.data = done.data
        /\ e.errors = done.errors /\ Continues(job, e)
    BY <1>1 DEF JobFields, Continues
  <1> HIDE DEF e
  <1>9. /\ Wanted(e) = Wanted(done) /\ Errors(e) = Errors(done) /\ Wanted(e) = Wanted(job)
        /\ IsList(e.ids)
    BY <1>1, <1>2 DEF Wanted, Errors, Continues
  <1>3. FoundFits(e)
    BY <1>1, <1>2, <1>9 DEF FoundFits, Reported
  <1>4. AbsentFits(e)
    BY <1>2, <1>9 DEF AbsentFits, TierFits, Reported
  <1>5. asked.kind = "single" => SingleFits(e)
    BY <1>2 DEF SingleFits
  <1>6. ASSUME Steady PROVE BestSoFar(e)
    <2>1. \A id \in Wanted(e) \ e.found : Unknown(e, id)
      BY <1>2, <1>6, <1>9, UnknownIs
    <2> QED
      BY <1>2, <1>6, <2>1 DEF BestSoFar, TierFits, BestFound
  <1>7. JobFits(e)
    BY <1>2, <1>3, <1>4, <1>5, <1>6, <1>9 DEF JobFits
  <1> QED
    BY <1>2, <1>7 DEF e

\* It has asked all tiers, or found all.
LEMMA GoesToRedirects ==
    ASSUME Seeks, NEW job, IsList(job.ids), NEW done, TierFits(job, done), job.tier \in 1..3,
           asked.kind = "single" => done.found = {} /\ done.errors = <<>>,
           job.tier = 3 \/ Wanted(job) \subseteq done.found,
           Steady => \A id \in Wanted(job) \ done.found : \A t \in 1..job.tier : Of(t, id) = {}
    PROVE  /\ JobFits([done EXCEPT !.step = "redirect"])
           /\ Continues(job, [done EXCEPT !.step = "redirect"])
  <1> DEFINE e == [done EXCEPT !.step = "redirect"]
  <1>1. /\ Continues(job, done) /\ DOMAIN done = JobFields
        /\ done.tier = job.tier /\ FoundFits(done)
    BY DEF TierFits, Continues
  <1>2. /\ DOMAIN e = JobFields /\ e.ids = done.ids /\ e.step = "redirect"
        /\ e.tier = job.tier /\ e.found = done.found /\ e.data = done.data
        /\ e.errors = done.errors /\ Continues(job, e)
    BY <1>1 DEF JobFields, Continues
  <1> HIDE DEF e
  <1>9. /\ Wanted(e) = Wanted(done) /\ Errors(e) = Errors(done) /\ Wanted(e) = Wanted(job)
        /\ IsList(e.ids)
    BY <1>1, <1>2 DEF Wanted, Errors, Continues
  <1>3. FoundFits(e)
    BY <1>1, <1>2, <1>9 DEF FoundFits, Reported
  <1>4. AbsentFits(e)
    BY <1>2, <1>9 DEF AbsentFits, TierFits, Reported
  <1>5. asked.kind = "single" => SingleFits(e)
    BY <1>2 DEF SingleFits
  <1>6. ASSUME Steady PROVE BestSoFar(e)
    <2>1. ASSUME NEW id \in Wanted(e) \ e.found PROVE Best(id) = {}
      <3>1. job.tier = 3 /\ Of(1, id) = {} /\ Of(2, id) = {} /\ Of(3, id) = {}
        BY <1>2, <1>6, <1>9
      <3> QED
        BY <3>1, BestIs
    <2>2. \A id \in Wanted(e) \ e.found : Unknown(e, id)
      BY <1>2, <2>1, UnknownIs
    <2> QED
      BY <1>2, <1>6, <2>2 DEF BestSoFar, TierFits, BestFound
  <1>7. JobFits(e)
    BY <1>2, <1>3, <1>4, <1>5, <1>6, <1>9 DEF JobFits
  <1> QED
    BY <1>2, <1>7 DEF e

\* The first resource ends a lookup of one id.
LEMMA FirstEnds ==
    ASSUME LookupInv, Seeks, asked.kind = "single", NEW job, JobFits(job), Len(job.ids) = 1, job.step = "find",
           NEW order, order # <<>>,
           order \in SetToSeqs(Matches(Tiers(asked.kind)[job.tier], asked.tenant, Missing(job)))
    PROVE  LET e == [Collect(job, Tiers(asked.kind)[job.tier], <<Head(order)>>)
                        EXCEPT !.step = "end"]
           IN JobFits(e) /\ Continues(job, e)
  <1> DEFINE tier == Tiers(asked.kind)[job.tier]
             S == Matches(tier, asked.tenant, Missing(job))
             one == <<Head(order)>>
             done == Collect(job, tier, one)
             e == [done EXCEPT !.step = "end"]
  <1>1. /\ DOMAIN job = JobFields /\ FoundFits(job) /\ job.tier \in 1..3
        /\ Missing(job) = Wanted(job) \ job.found /\ job.found = {} /\ job.errors = <<>>
    BY DEF JobFits, Missing, Wanted, SingleFits
  <1>2. IsFiniteSet(S)
    BY MatchesAreFinite DEF LookupInv
  <1>3. Head(order) \in S
    <2> HIDE DEF S
    <2>1. order \in SetToSeqs(S)
      BY DEF S
    <2>2. /\ Cardinality(S) \in Nat /\ DOMAIN order = 1..Cardinality(S)
          /\ \A n \in DOMAIN order : order[n] \in S
      BY <1>2, <2>1, SetToSeqsAre
    <2>3. order \in Seq(S)
      BY <2>1, <2>2 DEF SetToSeqs
    <2> QED
      BY <2>3
  <1>4. DOMAIN one = 1..1 /\ one[1] = Head(order) /\ \A i \in DOMAIN one : i = 1
    OBVIOUS
  <1> HIDE DEF one
  <1>5. Named(one[1], tier) \in Missing(job)
    BY <1>3, <1>4 DEF Matches
  <1>6. Listed(job, tier, one)
    BY <1>1, <1>4, <1>5 DEF Listed
  <1>7. TierFits(job, done)
    BY <1>3, <1>4, <1>6, TierAnswers
  <1>8. /\ Adds(job, done, tier, one) /\ AddsData(job, done, tier, one)
        /\ AddsErrors(job, done, tier, one)
    BY <1>1, <1>6, CollectAdds
  <1>9. \A id \in Wanted(job) : id = Named(one[1], tier)
    <2>1. job.ids \in Seq(Wanted(job)) /\ Len(job.ids) = 1
      BY DEF JobFits, IsList, Wanted
    <2>2. \A x \in Wanted(job) : x = job.ids[1]
      BY <2>1 DEF Wanted, ToSet
    <2> QED
      BY <2>2, <1>1, <1>5
  <1> HIDE DEF done
  <1>10. /\ DOMAIN done = JobFields /\ Continues(job, done) /\ done.tier = job.tier
         /\ FoundFits(done)
    BY <1>7 DEF TierFits, Continues
  <1>11. /\ DOMAIN e = JobFields /\ e.ids = job.ids /\ e.step = "end"
         /\ e.tier = job.tier /\ e.found = done.found /\ e.data = done.data
         /\ e.errors = done.errors /\ Continues(job, e)
    BY <1>10 DEF JobFields, Continues
  <1> HIDE DEF e
  <1>18. /\ Wanted(e) = Wanted(job) /\ Wanted(done) = Wanted(job) /\ Errors(e) = Errors(done)
         /\ Errors(done) = Errors(job) /\ IsList(e.ids)
    BY <1>10, <1>11 DEF Wanted, Errors, Continues, JobFits
  <1>12. Wanted(e) \subseteq e.found
    BY <1>4, <1>8, <1>9, <1>11, <1>18 DEF Adds
  <1>13. FoundFits(e)
    BY <1>10, <1>11, <1>18 DEF FoundFits, Reported
  <1>14. AbsentFits(e)
    BY <1>12 DEF AbsentFits
  <1>15. SingleFits(e)
    <2>1. ASSUME DOMAIN e.data # {} PROVE e.errors = <<>>
      <3>1. DOMAIN job.data = {}
        BY <1>1 DEF FoundFits
      <3>2. one[1].translated
        BY <2>1, <3>1, <1>4, <1>8, <1>11 DEF AddsData
      <3>3. \A n \in Len(job.errors) + 1..Len(done.errors) : FALSE
        BY <3>2, <1>4, <1>8 DEF AddsErrors
      <3>4. done.errors \in Seq(Errors(job)) /\ Len(job.errors) = 0
        BY <1>1, <1>8 DEF Adds
      <3>5. Len(done.errors) = 0
        BY <3>3, <3>4
      <3> QED
        BY <3>4, <3>5, <1>11
    <2> QED
      BY <2>1, <1>11 DEF SingleFits
  <1>16. Steady => BestSoFar(e)
    BY <1>7, <1>11, <1>12 DEF BestSoFar, TierFits, BestFound
  <1>17. JobFits(e)
    BY <1>1, <1>11, <1>13, <1>14, <1>15, <1>16, <1>18 DEF JobFits
  <1> QED
    BY <1>11, <1>17 DEF e, done, one

\* A job that is looking for ids fits what it has asked.
LEMMA AtWork ==
    ASSUME LookupInv, Seeks, NEW i \in DOMAIN jobs, jobs[i].step \in {"find", "redirect"}
    PROVE  JobFits(jobs[i]) /\ (asked.kind = "single" => Len(jobs[i].ids) = 1)
  <1>1. CASE asked.kind = "preview"
    <2>1. SectionFits(asked.sections[i], jobs[i])
      BY <1>1 DEF LookupInv, PreviewFits
    <2> QED
      BY <1>1, <2>1 DEF SectionFits, SourceFits
  <1>2. CASE asked.kind # "preview"
    BY <1>2 DEF LookupInv, LookupFits, IsRequest, Seeks
  <1> QED
    BY <1>1, <1>2

\* A tier keeps the invariant: the first resource ends a lookup of one id, and
\* everything else goes on to the next tier or to the redirects.
LEMMA FindFits ==
    ASSUME LookupInv, Seeks, NEW i \in DOMAIN jobs, Find(i) PROVE LookupInv'
  <1> DEFINE job == jobs[i]
             tier == Tiers(asked.kind)[job.tier]
  <1>1. /\ reply = None /\ i \in DOMAIN jobs /\ job.step = "find"
        /\ UNCHANGED <<data, asked, reply>>
    BY DEF Find, Going
  <1>2. JobFits(job) /\ (asked.kind = "single" => Len(job.ids) = 1)
    BY <1>1, AtWork
  <1>3. PICK order \in SetToSeqs(Matches(tier, asked.tenant, Missing(job))) :
            LET done == IF asked.kind \in {"single", "original"} /\ order # <<>>
                        THEN [Collect(job, tier, <<Head(order)>>) EXCEPT !.step = "end"]
                        ELSE Collect(job, tier, order)
                more == job.tier < Len(Tiers(asked.kind)) /\ Missing(done) # {}
            IN jobs' = [jobs EXCEPT ![i] =
                    IF done.step = "end" THEN done
                    ELSE IF more THEN [done EXCEPT !.tier = @ + 1]
                    ELSE [done EXCEPT !.step =
                            IF asked.kind = "titles" THEN "end" ELSE "redirect"]]
    BY DEF Find
  <1>4. DOMAIN job = JobFields /\ job.tier \in 1..3 /\ IsList(job.ids)
    BY <1>2 DEF JobFits
  <1>7. jobs[i].step \in {"find", "redirect"}
    BY <1>1
  <1>5. CASE asked.kind = "single" /\ order # <<>>
    <2> DEFINE e == [Collect(job, tier, <<Head(order)>>) EXCEPT !.step = "end"]
    <2>1. JobFits(e) /\ Continues(job, e)
      BY <1>1, <1>2, <1>3, <1>5, FirstEnds
    <2>2. e.step = "end"
      <3>1. DOMAIN Collect(job, tier, <<Head(order)>>) = JobFields
        BY <1>4 DEF Collect, Collected
      <3> QED
        BY <3>1 DEF JobFields
    <2>3. jobs' = [jobs EXCEPT ![i] = IF e.step = "end" THEN e ELSE jobs'[i]]
      <3> HIDE DEF job, tier
      <3> QED
        BY <1>3, <1>5, <2>2
    <2> HIDE DEF e
    <2>4. jobs' = [jobs EXCEPT ![i] = e]
      BY <2>2, <2>3
    <2> QED
      BY <1>1, <1>7, <2>1, <2>4, JobMoves DEF Works
  <1>6. CASE ~(asked.kind = "single" /\ order # <<>>)
    <2> DEFINE done == Collect(job, tier, order)
    <2>1. /\ TierFits(job, done)
          /\ Steady => \A id \in Wanted(job) \ done.found : \A t \in 1..job.tier : Of(t, id) = {}
      BY <1>1, <1>2, <1>3, TierOver
    <2>2. asked.kind = "single" => done.found = {} /\ done.errors = <<>>
      <3> SUFFICES ASSUME asked.kind = "single"
                   PROVE  done.found = {} /\ done.errors = <<>>
        OBVIOUS
      <3>1. order = <<>> /\ DOMAIN order = 1..0
        BY <1>6
      <3>2. /\ FoundFits(job) /\ job.found = {} /\ job.errors = <<>>
        BY <1>1, <1>2 DEF JobFits, SingleFits
      <3>3. Listed(job, tier, order)
        BY <3>1 DEF Listed
      <3>4. Adds(job, done, tier, order) /\ AddsErrors(job, done, tier, order)
        BY <1>4, <3>2, <3>3, CollectAdds
      <3> HIDE DEF done, job, tier
      <3>5. done.found = {}
        BY <3>1, <3>2, <3>4 DEF Adds
      <3>6. \A n \in Len(job.errors) + 1..Len(done.errors) : FALSE
        BY <3>1, <3>4 DEF AddsErrors
      <3>7. done.errors \in Seq(Errors(job)) /\ Len(job.errors) = 0
        BY <3>2, <3>4 DEF Adds
      <3>8. Len(done.errors) = 0
        BY <3>6, <3>7
      <3> QED
        BY <3>5, <3>7, <3>8
    <2>3. done.step = "find" /\ done.ids = job.ids
      BY <2>1 DEF TierFits, Continues
    <2>4. /\ asked.kind # "titles" /\ Len(Tiers(asked.kind)) = 3
          /\ Missing(done) = Wanted(job) \ done.found
      BY <2>3, ThreeTiers DEF Seeks, Missing, Wanted
    <2>5. jobs' = [jobs EXCEPT ![i] =
                IF job.tier < 3 /\ Missing(done) # {} THEN [done EXCEPT !.tier = @ + 1]
                ELSE [done EXCEPT !.step = "redirect"]]
      <3>1. ~(asked.kind \in {"single", "original"} /\ order # <<>>)
        BY <1>6 DEF Seeks
      <3> HIDE DEF job, tier
      <3> QED
        BY <1>3, <2>3, <2>4, <3>1
    <2> HIDE DEF done
    <2>6. CASE job.tier < 3 /\ Missing(done) # {}
      <3>1. /\ JobFits([done EXCEPT !.tier = @ + 1])
            /\ Continues(job, [done EXCEPT !.tier = @ + 1])
        BY <1>4, <2>1, <2>2, <2>6, GoesOn
      <3>2. jobs' = [jobs EXCEPT ![i] = [done EXCEPT !.tier = @ + 1]]
        BY <2>5, <2>6
      <3> QED
        BY <1>1, <1>7, <3>1, <3>2, JobMoves DEF Works
    <2>7. CASE ~(job.tier < 3 /\ Missing(done) # {})
      <3>1. job.tier = 3 \/ Wanted(job) \subseteq done.found
        BY <1>4, <2>4, <2>7
      <3>2. /\ JobFits([done EXCEPT !.step = "redirect"])
            /\ Continues(job, [done EXCEPT !.step = "redirect"])
        BY <1>4, <2>1, <2>2, <3>1, GoesToRedirects
      <3>3. jobs' = [jobs EXCEPT ![i] = [done EXCEPT !.step = "redirect"]]
        BY <2>5, <2>7
      <3> QED
        BY <1>1, <1>7, <3>2, <3>3, JobMoves DEF Works
    <2> QED
      BY <2>6, <2>7
  <1> QED
    BY <1>5, <1>6

\* Each id found nowhere gets its error.
LEMMA RedirectFits ==
    ASSUME LookupInv, Seeks, NEW i \in DOMAIN jobs, Redirect(i) PROVE LookupInv'
  <1> DEFINE job == jobs[i]
             M == Missing(job)
             s == SetToSeq(M)
             more == [n \in 1..Cardinality(M) |-> NotFound(s[n])]
             e == [job EXCEPT !.step = "end", !.errors = @ \o more]
             errors == job.errors \o more
  <1>1. /\ reply = None /\ i \in DOMAIN jobs /\ job.step = "redirect"
        /\ UNCHANGED <<data, asked, reply>> /\ jobs' = [jobs EXCEPT ![i] = e]
    <2>1. /\ reply = None /\ i \in DOMAIN jobs /\ job.step = "redirect"
          /\ UNCHANGED <<data, asked, reply>>
      BY DEF Redirect, Going
    <2>2. jobs' = [jobs EXCEPT ![i] =
                [jobs[i] EXCEPT !.step = "end",
                                !.errors = @ \o [n \in 1..Cardinality(Missing(jobs[i])) |->
                                    NotFound(SetToSeq(Missing(jobs[i]))[n])]]]
      BY DEF Redirect
    <2> QED
      BY <2>1, <2>2
  <1>2. JobFits(job)
    BY <1>1, AtWork
  <1>3. /\ DOMAIN job = JobFields /\ job.tier \in 1..3 /\ IsList(job.ids)
        /\ FoundFits(job) /\ AbsentFits(job)
        /\ asked.kind = "single" => SingleFits(job)
        /\ Steady => BestSoFar(job)
    BY <1>2 DEF JobFits
  <1> HIDE DEF job
  <1>4. M = Wanted(job) \ job.found
    BY <1>3 DEF Missing, Wanted
  <1>5. IsFiniteSet(M)
    <2>1. job.ids \in Seq(Wanted(job))
      BY <1>3 DEF IsList, Wanted
    <2>2. DOMAIN job.ids = 1..Len(job.ids) /\ Len(job.ids) \in Nat
      BY <2>1
    <2>3. IsFiniteSet(DOMAIN job.ids)
      BY <2>2, FS_Interval
    <2>4. Wanted(job) = {job.ids[n] : n \in DOMAIN job.ids}
      BY DEF Wanted, ToSet
    <2>5. job.ids \in Surjection(DOMAIN job.ids, Wanted(job))
      BY <2>1, <2>2, <2>4 DEF Surjection
    <2>6. IsFiniteSet(Wanted(job))
      BY <2>3, <2>5, FS_Surjection
    <2> QED
      BY <1>4, <2>6, FS_Subset
  <1>6. /\ e = [job EXCEPT !.step = "end", !.errors = errors]
    BY DEF job
  <1>7. /\ DOMAIN e = JobFields /\ e.ids = job.ids /\ e.step = "end" /\ Continues(job, e)
        /\ e.tier = job.tier /\ e.found = job.found /\ e.data = job.data
        /\ e.errors = errors
    <2> HIDE DEF errors, e
    <2> QED
      BY <1>3, <1>6 DEF JobFields, Continues
  <1>20. Wanted(e) = Wanted(job) /\ Errors(e) = Errors(job)
    BY <1>7 DEF Wanted, Errors
  <1> HIDE DEF e, M
  <1>8. /\ s \in Seq(M) /\ Len(s) = Cardinality(M) /\ DOMAIN s = 1..Len(s)
        /\ Len(s) \in Nat
        /\ \A x \in M : \E n \in DOMAIN s : s[n] = x
        /\ \A m, n \in DOMAIN s : s[m] = s[n] => m = n
    BY <1>5, SetToSeqIs DEF IsOrderOf
  <1> HIDE DEF s
  <1>9. \A n \in 1..Len(s) : /\ more[n] = NotFound(s[n]) /\ s[n] \in M
                             /\ more[n].id = s[n] /\ more[n].status = NotFound(s[n]).status
                             /\ more[n] \in Errors(job)
    BY <1>4, <1>8 DEF NotFound, Errors
  <1>10. more \in Seq(Errors(job)) /\ Len(more) = Len(s)
    BY <1>8, <1>9
  <1> HIDE DEF more
  <1> DEFINE L == Len(job.errors)
  <1>11. job.errors \in Seq(Errors(job)) /\ L \in Nat /\ DOMAIN job.errors = 1..L
    BY <1>3 DEF FoundFits
  <1>12. /\ errors \in Seq(Errors(job)) /\ Len(errors) = L + Len(s)
         /\ \A n \in 1..L : errors[n] = job.errors[n]
         /\ \A n \in 1..Len(s) : errors[L + n] = more[n]
         /\ \A n \in L + 1..L + Len(s) : n - L \in 1..Len(s) /\ errors[n] = more[n - L]
    <2> HIDE DEF L
    <2>1. job.errors \in Seq(Errors(job)) /\ more \in Seq(Errors(job)) /\ L = Len(job.errors)
      BY <1>10, <1>11 DEF L
    <2>2. /\ job.errors \o more \in Seq(Errors(job))
          /\ Len(job.errors \o more) = Len(job.errors) + Len(more)
          /\ \A n \in 1..Len(job.errors) : (job.errors \o more)[n] = job.errors[n]
          /\ \A n \in 1..Len(more) : (job.errors \o more)[Len(job.errors) + n] = more[n]
          /\ \A n \in Len(job.errors) + 1..Len(job.errors) + Len(more) :
                /\ n - Len(job.errors) \in 1..Len(more)
                /\ (job.errors \o more)[n] = more[n - Len(job.errors)]
      BY <2>1, Appended
    <2> QED
      BY <1>10, <2>1, <2>2
  <1> HIDE DEF errors
  <1>13. /\ DOMAIN errors = 1..(L + Len(s))
         /\ \A n \in DOMAIN errors : n \in 1..L \/ n \in L + 1..L + Len(s)
         /\ \A n \in 1..L : n \in DOMAIN errors
         /\ \A n \in 1..Len(s) : L + n \in DOMAIN errors
    BY <1>8, <1>11, <1>12
  <1>14. /\ \A n \in 1..L : errors[n] = job.errors[n] /\ n \in DOMAIN job.errors
         /\ \A n \in L + 1..L + Len(s) :
               errors[n].id = s[n - L] /\ s[n - L] \in M /\ n - L \in DOMAIN s
    BY <1>8, <1>9, <1>11, <1>12
  <1> HIDE DEF L
  <1>15. FoundFits(e)
    <2>1. ASSUME NEW id \in job.found, NEW n \in Reported(e, id)
          PROVE  errors[n].status = "400"
      <3>1. n \in DOMAIN errors /\ errors[n].id = id
        BY <1>7 DEF Reported
      <3>2. n \in 1..L
        BY <1>4, <1>13, <1>14, <3>1
      <3>3. n \in Reported(job, id)
        BY <1>14, <3>1, <3>2 DEF Reported
      <3> QED
        BY <1>3, <1>14, <3>2, <3>3 DEF FoundFits
    <2>2. ASSUME NEW id \in job.found
          PROVE  id \in DOMAIN job.data \/ Reported(e, id) # {}
      <3>1. SUFFICES ASSUME Reported(job, id) # {} PROVE Reported(e, id) # {}
        BY <1>3 DEF FoundFits
      <3>2. PICK n \in DOMAIN job.errors : job.errors[n].id = id
        BY <3>1 DEF Reported
      <3>3. n \in DOMAIN errors /\ errors[n].id = id
        BY <3>2, <1>11, <1>13, <1>14
      <3> QED
        BY <3>3, <1>7 DEF Reported
    <2> QED
      BY <1>3, <1>7, <1>12, <1>20, <2>1, <2>2 DEF FoundFits
  <1>16. AbsentFits(e)
    <2>1. ASSUME NEW id \in Wanted(job) \ job.found
          PROVE  \E n \in DOMAIN errors :
                    Reported(e, id) = {n} /\ errors[n].status = NotFound(id).status
      <3>1. PICK k \in 1..Len(s) : s[k] = id
        BY <1>4, <1>8
      <3>2. /\ L + k \in DOMAIN errors /\ errors[L + k].id = id
            /\ errors[L + k].status = NotFound(id).status
        BY <1>9, <1>12, <1>13, <3>1
      <3>3. ASSUME NEW n \in DOMAIN errors, errors[n].id = id
            PROVE  n = L + k
        <4>1. CASE n \in 1..L
          <5>1. n \in Reported(job, id)
            BY <1>14, <3>3, <4>1 DEF Reported
          <5> QED
            BY <5>1, <1>1, <1>3 DEF AbsentFits, job
        <4>2. CASE n \in L + 1..L + Len(s)
          <5>1. n - L = k
            BY <1>8, <1>14, <3>1, <3>3, <4>2
          <5> QED
            BY <5>1, <4>2, <1>8, <1>11 DEF L
        <4> QED
          BY <1>13, <4>1, <4>2
      <3>4. Reported(e, id) = {L + k}
        BY <1>7, <3>2, <3>3 DEF Reported
      <3> QED
        BY <3>2, <3>4
    <2> QED
      BY <1>7, <1>20, <2>1 DEF AbsentFits
  <1>17. asked.kind = "single" => SingleFits(e)
    <2>1. ASSUME asked.kind = "single" PROVE DOMAIN e.data = {}
      BY <2>1, <1>1, <1>3, <1>7 DEF SingleFits, FoundFits, job
    <2> QED
      BY <1>7, <2>1 DEF SingleFits
  <1>18. ASSUME Steady PROVE BestSoFar(e)
    <2>1. \A id : Unknown(e, id) <=> Unknown(job, id)
      BY <1>1, <1>7, UnknownIs DEF job
    <2> QED
      BY <1>3, <1>7, <1>18, <1>20, <2>1 DEF BestSoFar, BestFound
  <1>19. JobFits(e)
    BY <1>3, <1>7, <1>15, <1>16, <1>17, <1>18 DEF JobFits, IsList, Wanted
  <1> QED
    <2>1. jobs[i].step \in {"find", "redirect"} /\ Continues(jobs[i], e)
      BY <1>1, <1>7 DEF job
    <2>2. Works(i, e)
      BY <1>1, <1>19, <2>1 DEF Works
    <2> QED
      BY <1>1, <2>2, JobMoves

-----------------------------------------------------------------------------
(* Merging the sources of a section. *)

\* A set of numbers has a least one.
LEMMA LeastOne ==
    ASSUME NEW I, I \subseteq Nat, I # {}
    PROVE  \E x \in I : \A y \in I : x <= y
  <1> DEFINE R == OpToRel(<, Nat)
  <1>1. \A x \in Nat, y \in Nat : <<y, x>> \in R <=> y < x
    BY DEF OpToRel
  <1>2. IsWellFoundedOn(R, Nat)
    BY NatLessThanWellFounded
  <1> HIDE DEF R
  <1>3. PICK x \in I : \A y \in I : ~ (<<y, x>> \in R)
    BY <1>2, WFMin
  <1>4. \A y \in I : x \in Nat /\ y \in Nat /\ ~ (y < x)
    BY <1>1, <1>3
  <1> QED
    BY <1>4

\* What holds at first and after each step holds after all of them.
LEMMA StepByStep ==
    ASSUME NEW N \in Nat, NEW I, 0 \in I, \A n \in 1..N : n - 1 \in I => n \in I
    PROVE  \A n \in 0..N : n \in I
  <1> DEFINE Bad == {n \in 0..N : n \notin I}
  <1> SUFFICES ASSUME Bad # {} PROVE FALSE
    OBVIOUS
  <1>1. Bad \subseteq Nat
    OBVIOUS
  <1>2. PICK n \in Bad : \A m \in Bad : n <= m
    <2> HIDE DEF Bad
    <2> QED
      BY <1>1, LeastOne
  <1>3. n \in 1..N /\ n - 1 \in 0..N /\ ~(n <= n - 1)
    BY <1>2
  <1> QED
    BY <1>2, <1>3

\* The merging goes through the ids one by one.
LEMMA MergeIs ==
    ASSUME NEW merged, NEW job, IsList(job.ids)
    PROVE  \E after : /\ Merge(merged, job) = after[Len(job.ids)] /\ after[0] = merged
                      /\ \A n \in 1..Len(job.ids) :
                            after[n] = MergeOne(after[n - 1], job, job.ids[n])
  <1> DEFINE N == Len(job.ids)
             One(s, n) == MergeOne(s, job, job.ids[n])
             Merges(n, f) == /\ f = [k \in 0..n |-> f[k]]
                             /\ f[0] = merged /\ \A k \in 1..n : f[k] = One(f[k - 1], k)
             I == {n \in Nat : \E f : Merges(n, f)}
  <1>1. N \in Nat
    BY DEF IsList
  <1> HIDE DEF N, One
  <1>2. Merges(0, [k \in 0..0 |-> merged])
    OBVIOUS
  <1>3. ASSUME NEW n \in Nat, NEW f, Merges(n, f)
        PROVE  \E g : Merges(n + 1, g)
    <2> DEFINE g == [k \in 0..(n + 1) |-> IF k = n + 1 THEN One(f[n], n + 1) ELSE f[k]]
    <2>1. g = [k \in 0..(n + 1) |-> g[k]] /\ g[0] = merged
      BY <1>3
    <2>2. ASSUME NEW k \in 1..(n + 1)
          PROVE  g[k] = One(g[k - 1], k)
      <3>1. CASE k = n + 1
        <4>1. k - 1 = n /\ n \in 0..(n + 1) /\ n # n + 1
          BY <3>1
        <4>2. g[n] = f[n] /\ g[n + 1] = One(f[n], n + 1)
          BY <4>1
        <4> QED
          BY <3>1, <4>1, <4>2
      <3>2. CASE k # n + 1
        <4>1. /\ k \in 1..n /\ k \in 0..(n + 1) /\ k - 1 \in 0..(n + 1) /\ k - 1 # n + 1
          BY <3>2
        <4>2. g[k] = f[k] /\ g[k - 1] = f[k - 1]
          BY <3>2, <4>1
        <4> QED
          BY <1>3, <4>1, <4>2
      <3> QED
        BY <3>1, <3>2
    <2> HIDE DEF g
    <2> QED
      BY <2>1, <2>2
  <1> HIDE DEF Merges
  <1>4. PICK f : Merges(N, f)
    <2>1. 0 \in I
      BY <1>2
    <2>2. \A n \in 1..N : n - 1 \in I => n \in I
      <3> TAKE n \in 1..N
      <3> HAVE n - 1 \in I
      <3>1. n - 1 \in Nat /\ (n - 1) + 1 = n /\ n \in Nat
        BY <1>1
      <3>2. PICK h : Merges(n - 1, h)
        OBVIOUS
      <3>3. \E g : Merges((n - 1) + 1, g)
        BY <1>3, <3>1, <3>2
      <3> QED
        BY <3>1, <3>3
    <2> HIDE DEF I
    <2>3. N \in I
      BY <1>1, <2>1, <2>2, StepByStep
    <2> QED
      BY <2>3 DEF I
  <1> DEFINE Body(g) == [k \in 0..N |-> IF k = 0 THEN merged ELSE One(g[k - 1], k)]
             after == CHOOSE g : g = Body(g)
  <1>5. f = Body(f)
    <2>3. f[0] = merged /\ \A k \in 1..N : f[k] = One(f[k - 1], k)
      BY <1>4 DEF Merges
    <2>4. \A k \in 0..N : k = 0 \/ k \in 1..N
      BY <1>1
    <2>1. \A k \in 0..N : f[k] = IF k = 0 THEN merged ELSE One(f[k - 1], k)
      BY <2>3, <2>4
    <2>2. f = [k \in 0..N |-> f[k]]
      BY <1>4 DEF Merges
    <2> QED
      BY <2>1, <2>2, Zenon
  <1>6. after = Body(after)
    BY <1>5, Zenon
  <1>7. Merge(merged, job) = after[N]
    BY Zenon DEF Merge, N, One
  <1> HIDE DEF after
  <1>8. after[0] = merged /\ \A n \in 1..N : after[n] = One(after[n - 1], n)
    BY <1>1, <1>6
  <1> QED
    BY <1>7, <1>8 DEF N, One

\* One more at the end.
LEMMA AppendedOne ==
    ASSUME NEW s, IsList(s), NEW x
    PROVE  /\ Len(s) \in Nat /\ DOMAIN s = 1..Len(s)
           /\ Len(Append(s, x)) = Len(s) + 1 /\ DOMAIN Append(s, x) = 1..(Len(s) + 1)
           /\ \A n \in 1..Len(s) : Append(s, x)[n] = s[n]
           /\ Append(s, x)[Len(s) + 1] = x
           /\ IsList(Append(s, x))
  <1> DEFINE S == ToSet(s) \cup {x}
             t == Append(s, x)
  <1>1. s \in Seq(S) /\ x \in S
    BY DEF IsList
  <1> HIDE DEF S
  <1>2. /\ Len(s) \in Nat /\ DOMAIN s = 1..Len(s) /\ t \in Seq(S)
        /\ Len(t) = Len(s) + 1 /\ DOMAIN t = 1..(Len(s) + 1)
        /\ \A n \in 1..Len(s) : t[n] = s[n]
        /\ t[Len(s) + 1] = x
    BY <1>1
  <1> HIDE DEF t
  <1>3. t \in Seq(ToSet(t))
    <2>1. \A n \in DOMAIN t : t[n] \in ToSet(t)
      BY DEF ToSet
    <2>2. t \in [1..Len(t) -> ToSet(t)] /\ Len(t) \in Nat
      BY <1>2, <2>1
    <2> QED
      BY <2>2
  <1> QED
    BY <1>2, <1>3 DEF t, IsList

\* What is merged never has a resource twice, whatever is imported.
LEMMA MergeOneKeeps ==
    ASSUME NEW merged, NEW job, NEW id, IsList(merged), Once(merged)
    PROVE  IsList(MergeOne(merged, job, id)) /\ Once(MergeOne(merged, job, id))
  <1> DEFINE x == job.data[id]
             t == Append(merged, x)
             new == id \in DOMAIN job.data /\ \A n \in DOMAIN merged : merged[n].mongo # x.mongo
  <1>1. CASE ~new
    BY <1>1 DEF MergeOne
  <1>2. CASE new
    <2>1. /\ Len(merged) \in Nat /\ DOMAIN merged = 1..Len(merged)
          /\ DOMAIN t = 1..(Len(merged) + 1)
          /\ \A n \in 1..Len(merged) : t[n] = merged[n]
          /\ t[Len(merged) + 1] = x /\ IsList(t)
      BY AppendedOne
    <2>2. MergeOne(merged, job, id) = t
      BY <1>2 DEF MergeOne
    <2> HIDE DEF t
    <2>3. ASSUME NEW m \in DOMAIN t, NEW n \in DOMAIN t, t[m].mongo = t[n].mongo
          PROVE  m = n
      <3>1. \A k \in DOMAIN t : k \in DOMAIN merged \/ k = Len(merged) + 1
        BY <2>1
      <3>2. CASE m \in DOMAIN merged /\ n \in DOMAIN merged
        BY <2>1, <2>3, <3>2 DEF Once
      <3>3. CASE m = Len(merged) + 1 /\ n \in DOMAIN merged
        BY <1>2, <2>1, <2>3, <3>3
      <3>4. CASE n = Len(merged) + 1 /\ m \in DOMAIN merged
        BY <1>2, <2>1, <2>3, <3>4
      <3> QED
        BY <3>1, <3>2, <3>3, <3>4
    <2> QED
      BY <2>1, <2>2, <2>3 DEF Once
  <1> QED
    BY <1>1, <1>2

\* A later place shows its resource after all the others, or an earlier place has.
LEMMA OneMorePlace ==
    ASSUME Apart, NEW merged, NEW job, NEW section, NEW places, NEW p,
           IsList(merged), InOrder(merged, section, places, -1),
           \A q \in places : Earlier(q, p) /\ ~Earlier(p, q),
           ~Earlier(p, p),
           IF IdAt(section, p) \in DOMAIN job.data
           THEN job.data[IdAt(section, p)] \in Good(IdAt(section, p))
           ELSE Good(IdAt(section, p)) = {}
    PROVE  InOrder(MergeOne(merged, job, IdAt(section, p)), section, places \cup {p}, -1)
  <1> DEFINE id == IdAt(section, p)
             x == job.data[id]
             t == Append(merged, x)
             more == places \cup {p}
             new == id \in DOMAIN job.data /\ \A n \in DOMAIN merged : merged[n].mongo # x.mongo
  <1>1. PICK at \in [DOMAIN merged -> places] :
            /\ \A m, n \in DOMAIN merged : m < n => Earlier(at[m], at[n])
            /\ \A n \in DOMAIN merged : merged[n] \in Good(IdAt(section, at[n]))
            /\ \A q \in places : Good(IdAt(section, q)) # {} =>
                  \/ \E n \in DOMAIN merged : /\ merged[n] \in Good(IdAt(section, q))
                                              /\ ~Earlier(q, at[n])
                  \/ Len(merged) = -1 /\ \A n \in DOMAIN merged : Earlier(at[n], q)
    BY DEF InOrder
  <1>2. Len(merged) \in Nat /\ DOMAIN merged = 1..Len(merged)
    BY AppendedOne
  <1>3. \A q \in places : Good(IdAt(section, q)) # {} =>
            \E n \in DOMAIN merged : merged[n] \in Good(IdAt(section, q)) /\ ~Earlier(q, at[n])
    BY <1>1, <1>2
  <1>4. ASSUME ~new
        PROVE  InOrder(merged, section, more, -1)
    <2>1. at \in [DOMAIN merged -> more]
      BY <1>1
    <2>2. ASSUME Good(id) # {}
          PROVE  \E n \in DOMAIN merged : merged[n] \in Good(id) /\ ~Earlier(p, at[n])
      <3>1. id \in DOMAIN job.data /\ x \in Good(id)
        BY <2>2
      <3>2. PICK n \in DOMAIN merged : merged[n].mongo = x.mongo
        BY <1>4, <3>1
      <3>3. \A y : Good(y) \subseteq resources
        BY DEF Good, Best
      <3>4. merged[n] = x
        BY <1>1, <3>1, <3>2, <3>3 DEF Apart
      <3>5. ~Earlier(p, at[n])
        BY <1>1
      <3> QED
        BY <3>1, <3>4, <3>5
    <2>3. \A q \in more : Good(IdAt(section, q)) # {} =>
              \E n \in DOMAIN merged : merged[n] \in Good(IdAt(section, q)) /\ ~Earlier(q, at[n])
      BY <1>3, <2>2
    <2> HIDE DEF more
    <2> QED
      BY <1>1, <2>1, <2>3 DEF InOrder
  <1>5. ASSUME new
        PROVE  InOrder(t, section, more, -1)
    <2>1. /\ DOMAIN t = 1..(Len(merged) + 1) /\ \A n \in 1..Len(merged) : t[n] = merged[n]
          /\ t[Len(merged) + 1] = x
      BY AppendedOne
    <2> DEFINE to == [n \in DOMAIN t |-> IF n \in DOMAIN merged THEN at[n] ELSE p]
               last == Len(merged) + 1
    <2> HIDE DEF t
    <2>2. /\ \A n \in DOMAIN merged : n \in DOMAIN t /\ n < last /\ to[n] = at[n] /\ t[n] = merged[n]
          /\ last \in DOMAIN t /\ last \notin DOMAIN merged /\ to[last] = p /\ t[last] = x
          /\ \A n \in DOMAIN t : n \in DOMAIN merged \/ n = last
      BY <1>2, <2>1
    <2>3. to \in [DOMAIN t -> more]
      BY <1>1
    <2> HIDE DEF to, last
    <2>4. ASSUME NEW m \in DOMAIN t, NEW n \in DOMAIN t, m < n
          PROVE  Earlier(to[m], to[n])
      <3>1. m \in DOMAIN merged
        BY <1>2, <2>1, <2>2, <2>4
      <3>2. CASE n \in DOMAIN merged
        BY <1>1, <2>2, <2>4, <3>1, <3>2
      <3>3. CASE n = last
        BY <1>1, <2>2, <3>1, <3>3
      <3> QED
        BY <2>2, <3>2, <3>3
    <2>5. ASSUME NEW n \in DOMAIN t
          PROVE  t[n] \in Good(IdAt(section, to[n]))
      <3>1. CASE n \in DOMAIN merged
        BY <1>1, <2>2, <3>1
      <3>2. CASE n = last
        BY <1>5, <2>2, <3>2
      <3> QED
        BY <2>2, <3>1, <3>2
    <2>6. ASSUME NEW q \in more, Good(IdAt(section, q)) # {}
          PROVE  \E n \in DOMAIN t : t[n] \in Good(IdAt(section, q)) /\ ~Earlier(q, to[n])
      <3>1. CASE q \in places
        BY <1>3, <2>2, <2>6, <3>1
      <3>2. CASE q = p
        <4>1. t[last] \in Good(IdAt(section, q)) /\ ~Earlier(q, to[last])
          BY <1>5, <2>2, <3>2
        <4> QED
          BY <2>2, <4>1
      <3> QED
        BY <3>1, <3>2
    <2> HIDE DEF more
    <2> QED
      BY <2>3, <2>4, <2>5, <2>6 DEF InOrder
  <1> QED
    BY <1>4, <1>5 DEF MergeOne

\* No resource comes twice, whichever ids the source lists.
LEMMA MergeKeeps ==
    ASSUME NEW merged, NEW job, IsList(job.ids), IsList(merged), Once(merged)
    PROVE  IsList(Merge(merged, job)) /\ Once(Merge(merged, job))
  <1> DEFINE N == Len(job.ids)
  <1>1. PICK after : /\ Merge(merged, job) = after[N] /\ after[0] = merged
                     /\ \A n \in 1..N : after[n] = MergeOne(after[n - 1], job, job.ids[n])
    BY MergeIs
  <1> DEFINE I == {n \in 0..N : IsList(after[n]) /\ Once(after[n])}
  <1>2. N \in Nat
    BY DEF IsList
  <1>3. 0 \in I
    BY <1>1, <1>2
  <1>4. \A n \in 1..N : n - 1 \in I => n \in I
    BY <1>1, <1>2, MergeOneKeeps
  <1> HIDE DEF I
  <1>5. N \in I
    <2> HIDE DEF N
    <2>1. \A n \in 0..N : n \in I
      BY <1>2, <1>3, <1>4, StepByStep
    <2> QED
      BY <1>2, <2>1
  <1> QED
    BY <1>1, <1>5 DEF I

\* When each id of a source has its best resource, if it has a translated one,
\* the source adds its places in their order.
Resolved(job) ==
    \A id \in Wanted(job) :
        IF id \in DOMAIN job.data THEN job.data[id] \in Good(id) ELSE Good(id) = {}

LEMMA MergedInOrder ==
    ASSUME Apart, NEW merged, NEW job, NEW section, NEW places, NEW K \in Nat,
           IsList(job.ids), IsList(merged), Once(merged), Resolved(job),
           job.ids = IdsOf(section.sources[K]),
           \A q \in places : q[1] \in Nat /\ q[1] < K,
           InOrder(merged, section, places, -1)
    PROVE  InOrder(Merge(merged, job), section, places \cup ({K} \X DOMAIN job.ids), -1)
  <1> DEFINE N == Len(job.ids)
             upto(n) == places \cup {<<K, m>> : m \in 1..n}
  <1>1. PICK after : /\ Merge(merged, job) = after[N] /\ after[0] = merged
                     /\ \A n \in 1..N : after[n] = MergeOne(after[n - 1], job, job.ids[n])
    <2>1. IsList(job.ids)
      OBVIOUS
    <2> QED
      BY ONLY <2>1, MergeIs
  <1>2. N \in Nat /\ DOMAIN job.ids = 1..N
    BY DEF IsList
  <1> DEFINE Fits(n) == IsList(after[n]) /\ Once(after[n]) /\ InOrder(after[n], section, upto(n), -1)
             I == {n \in 0..N : Fits(n)}
  <1>3. Fits(0)
    <2>1. upto(0) = places
      OBVIOUS
    <2> QED
      BY <1>1, <2>1
  <1>4. ASSUME NEW n \in 1..N, Fits(n - 1)
        PROVE  Fits(n)
    <2> DEFINE p == <<K, n>>
               id == job.ids[n]
    <2>1. IdAt(section, p) = id
      BY DEF IdAt
    <2>2. id \in Wanted(job)
      BY <1>2 DEF Wanted, ToSet
    <2>3. IF id \in DOMAIN job.data THEN job.data[id] \in Good(id) ELSE Good(id) = {}
      BY <2>2 DEF Resolved
    <2>4. p[1] = K /\ p[2] = n /\ ~Earlier(p, p)
      BY <1>2 DEF Earlier
    <2>5. ASSUME NEW q \in upto(n - 1) PROVE Earlier(q, p) /\ ~Earlier(p, q)
      <3>1. CASE q \in places
        <4>1. q[1] \in Nat /\ q[1] < K
          BY <3>1
        <4> HIDE DEF p
        <4> QED
          BY <4>1, <2>4 DEF Earlier
      <3>2. CASE q \in {<<K, m>> : m \in 1..(n - 1)}
        <4>1. PICK m \in 1..(n - 1) : q = <<K, m>>
          BY <3>2
        <4>2. q[1] = K /\ q[2] = m /\ m < n
          BY <4>1, <1>2
        <4> HIDE DEF p
        <4> QED
          BY <4>2, <2>4, <1>2 DEF Earlier
      <3> QED
        BY <3>1, <3>2
    <2>6. upto(n) = upto(n - 1) \cup {p}
      <3>1. \A m : m \in 1..n <=> m \in 1..(n - 1) \/ m = n
        BY <1>2
      <3> QED
        BY <3>1
    <2>7. after[n] = MergeOne(after[n - 1], job, id)
      BY <1>1
    <2>8. IsList(after[n]) /\ Once(after[n])
      BY <1>4, <2>7, MergeOneKeeps
    <2> HIDE DEF upto, p, id
    <2>9. InOrder(MergeOne(after[n - 1], job, IdAt(section, p)), section,
                  upto(n - 1) \cup {p}, -1)
      BY <1>4, <2>1, <2>3, <2>4, <2>5, OneMorePlace
    <2> QED
      BY <2>1, <2>6, <2>7, <2>8, <2>9
  <1> HIDE DEF Fits
  <1>5. 0 \in I /\ \A n \in 1..N : n - 1 \in I => n \in I
    BY <1>2, <1>3, <1>4
  <1> HIDE DEF I
  <1>6. N \in I
    <2> HIDE DEF N
    <2>1. \A n \in 0..N : n \in I
      BY <1>2, <1>5, StepByStep
    <2> QED
      BY <1>2, <2>1
  <1>7. InOrder(after[N], section, upto(N), -1)
    BY <1>6 DEF I, Fits
  <1>8. upto(N) = places \cup ({K} \X DOMAIN job.ids)
    <2>1. {<<K, m>> : m \in 1..N} = {K} \X DOMAIN job.ids
      BY <1>2
    <2> QED
      BY <2>1
  <1> QED
    BY <1>1, <1>7, <1>8

\* The places of one source more.
LEMMA PlacesGrow ==
    ASSUME NEW section, NEW K \in Nat, K >= 1
    PROVE  /\ Places(section, K) = Places(section, K - 1)
                                   \cup ({K} \X DOMAIN IdsOf(section.sources[K]))
           /\ \A q \in Places(section, K - 1) : q[1] \in Nat /\ q[1] < K
  <1> DEFINE Here(k) == {k} \X DOMAIN IdsOf(section.sources[k])
  <1>1. \A L : Places(section, L) = UNION {Here(k) : k \in 1..L}
    BY DEF Places
  <1>2. \A k : \A q \in Here(k) : q[1] = k
    OBVIOUS
  <1> HIDE DEF Here
  <1>3. \A k : k \in 1..K <=> k \in 1..(K - 1) \/ k = K
    OBVIOUS
  <1>4. Places(section, K) = Places(section, K - 1) \cup Here(K)
    BY <1>1, <1>3
  <1>5. ASSUME NEW q \in Places(section, K - 1)
        PROVE  q[1] \in Nat /\ q[1] < K
    <2>1. PICK k \in 1..(K - 1) : q \in Here(k)
      BY <1>1
    <2> QED
      BY <2>1, <1>2
  <1> QED
    BY <1>4, <1>5 DEF Here

-----------------------------------------------------------------------------
(* Requests begin and end. *)

\* At first nothing is asked.
LEMMA InitLookups == Init => LookupInv
BY DEF Init, LookupInv, Seeks

\* What is asked is one of the requests, and when it began.
LEMMA AskedIs ==
    ASSUME NEW q \in Requests, asked' = Over([since |-> changes], q)
    PROVE  /\ IsRequest(q) /\ IsRequest(asked') /\ asked'.since = changes
           /\ asked'.kind = q.kind
           /\ q.kind \in Lookups => asked'.ids = q.ids
           /\ q.kind = "preview" => asked'.sections = q.sections
  <1> DEFINE one == [since |-> changes]
  <1>1. DOMAIN one = {"since"} /\ one.since = changes
    OBVIOUS
  <1>2. asked' = [x \in DOMAIN one \cup DOMAIN q |-> IF x \in DOMAIN one THEN one[x] ELSE q[x]]
    BY DEF Over
  <1> HIDE DEF one
  <1>3. /\ DOMAIN q \subseteq DOMAIN asked' /\ asked'.since = changes
        /\ \A x \in DOMAIN q : x # "since" => asked'[x] = q[x]
    BY <1>1, <1>2
  <1>4. IsRequest(q)
    BY ContentAssumption
  <1>5. /\ asked'.kind = q.kind /\ "kind" \in DOMAIN asked' /\ "tenant" \in DOMAIN asked'
        /\ q.kind \in Lookups => "ids" \in DOMAIN asked' /\ asked'.ids = q.ids
        /\ q.kind = "preview" => /\ {"user", "owner", "sections"} \subseteq DOMAIN asked'
                                 /\ asked'.sections = q.sections
    BY <1>3, <1>4 DEF IsRequest
  <1>6. q.kind \in {"single", "original"} => q.kind \in Lookups
    BY DEF Lookups
  <1>7. IsRequest(asked')
    BY <1>4, <1>5, <1>6 DEF IsRequest
  <1> QED
    BY <1>3, <1>4, <1>5, <1>7

\* A lookup that begins has asked no tier yet.
IsNew(job) ==
    /\ DOMAIN job = JobFields /\ IsList(job.ids) /\ job.tier = 1 /\ job.found = {}
    /\ job.data = Empty /\ job.errors = <<>> /\ job.step = "find"

LEMMA NewLookupsFit == \A job : IsNew(job) => JobFits(job)
  <1> SUFFICES ASSUME NEW job, IsNew(job) PROVE JobFits(job)
    OBVIOUS
  <1> USE DEF IsNew
  <1>1. DOMAIN job.data = {} /\ DOMAIN job.errors = {} /\ \A S : job.errors \in Seq(S)
    BY DEF Empty
  <1>2. FoundFits(job)
    BY <1>1 DEF FoundFits
  <1>3. AbsentFits(job)
    BY <1>1 DEF AbsentFits, Reported
  <1>4. BestSoFar(job)
    <2>1. \A t \in 1..(job.tier - 1) : FALSE
      OBVIOUS
    <2>2. \A id : Unknown(job, id)
      BY <2>1 DEF Unknown
    <2> QED
      BY <2>2 DEF BestSoFar
  <1>5. SingleFits(job)
    BY <1>1 DEF SingleFits
  <1> QED
    BY <1>2, <1>3, <1>4, <1>5 DEF JobFits

\* A section that has merged nothing.
LEMMA NothingMerged ==
    ASSUME NEW section
    PROVE  IsList(<<>>) /\ Once(<<>>) /\ MergedSoFar(<<>>, section, 0)
  <1>1. Places(section, 0) = {}
    BY DEF Places
  <1>2. DOMAIN <<>> = {} /\ <<>> \in Seq(ToSet(<<>>)) /\ <<>> \in [DOMAIN <<>> -> {}]
    OBVIOUS
  <1>3. Len(<<>>) = 0 /\ ToSet(<<>>) = {}
    BY <1>2 DEF ToSet
  <1>4. IsList(<<>>) /\ Once(<<>>)
    BY <1>2, <1>3 DEF IsList, Once
  <1>5. InOrder(<<>>, section, Places(section, 0), -1)
    BY <1>1, <1>2 DEF InOrder
  <1>6. 1..0 = {}
    OBVIOUS
  <1> QED
    BY <1>2, <1>4, <1>5, <1>6 DEF MergedSoFar

\* A section begins before its first source.
IsBegun(section, job) ==
    /\ DOMAIN job = JobFields /\ job.source = 0 /\ job.merged = <<>> /\ job.step = "source"
    /\ IsSection(section)

LEMMA NewSectionsFit == \A section : \A job : IsBegun(section, job) => SectionFits(section, job)
  <1> SUFFICES ASSUME NEW section, NEW job, IsBegun(section, job)
               PROVE  SectionFits(section, job)
    OBVIOUS
  <1> USE DEF IsBegun
  <1>1. 0 \in 0..Len(section.sources)
    BY DEF IsSection, IsList
  <1>2. Done(job) = 0
    BY DEF Done
  <1> QED
    BY <1>1, <1>2, NothingMerged DEF SectionFits

LEMMA AskFits ==
    ASSUME LookupInv, NEW q \in Requests, Ask(q) PROVE LookupInv'
  <1>1. /\ asked = None /\ reply = None /\ UNCHANGED <<resources, lists, changes, reply>>
        /\ asked' = Over([since |-> changes], q)
    BY DEF Ask, LookupInv, data
  <1>2. /\ IsRequest(q) /\ IsRequest(asked') /\ asked'.since = changes
        /\ asked'.kind = q.kind
        /\ q.kind \in Lookups => asked'.ids = q.ids
        /\ q.kind = "preview" => asked'.sections = q.sections
    BY <1>1, AskedIs
  <1>3. IsRequest(asked)'
    BY <1>2 DEF IsRequest, IsSection, IsList
  <1>4. ASSUME Seeks', asked'.kind # "preview" PROVE LookupFits'
    <2>1. q.kind \in {"single", "batch"} /\ q.kind \in Lookups
      BY <1>2, <1>4 DEF Seeks, Lookups
    <2> DEFINE e == Lookup(q.ids)
    <2>2. jobs' = <<e>>
      BY <2>1 DEF Ask
    <2>3. /\ DOMAIN e = JobFields /\ e.ids = q.ids /\ e.tier = 1 /\ e.found = {}
          /\ e.data = Empty /\ e.errors = <<>> /\ e.step = "find"
      BY DEF Lookup, JobFields
    <2> HIDE DEF e
    <2>4. DOMAIN jobs' = {1} /\ jobs'[1] = e
      BY <2>2
    <2>5. IsNew(e)
      BY <1>2, <2>1, <2>3 DEF IsRequest, IsNew
    <2>6. (\A job : IsNew(job) => JobFits(job))'
      BY NewLookupsFit, PTL
    <2>7. JobFits(jobs[1])'
      BY <2>4, <2>5, <2>6 DEF IsNew, IsList
    <2> QED
      BY <1>1, <1>2, <2>1, <2>3, <2>4, <2>7 DEF LookupFits
  <1>5. ASSUME asked'.kind = "preview" PROVE PreviewFits'
    <2> DEFINE begun(i) == [Lookup(<<>>) EXCEPT !.step = "source", !.at = i]
    <2>1. jobs' = [i \in DOMAIN q.sections |-> begun(i)]
      BY <1>2, <1>5 DEF Ask
    <2>2. \A i : /\ DOMAIN begun(i) = JobFields /\ begun(i).at = i /\ begun(i).source = 0
                 /\ begun(i).merged = <<>> /\ begun(i).step = "source"
      BY DEF Lookup, JobFields
    <2> HIDE DEF begun
    <2>3. (\A section : \A job : IsBegun(section, job) => SectionFits(section, job))'
      BY NewSectionsFit, PTL
    <2>4. ASSUME NEW i \in DOMAIN q.sections
          PROVE  jobs'[i].at = i /\ SectionFits(asked.sections[i], jobs[i])'
      <3>1. jobs'[i] = begun(i) /\ asked'.sections[i] = q.sections[i]
        BY <1>2, <1>5, <2>1
      <3>2. IsBegun(q.sections[i], begun(i))
        BY <1>2, <1>5, <2>2 DEF IsRequest, IsBegun
      <3>3. SectionFits(asked.sections[i], jobs[i])'
        BY <2>3, <3>1, <3>2 DEF IsBegun, IsSection, IsList
      <3> QED
        BY <2>2, <3>1, <3>3
    <2> QED
      BY <1>1, <1>2, <1>5, <2>1, <2>4 DEF PreviewFits
  <1> QED
    BY <1>1, <1>2, <1>3, <1>4, <1>5 DEF LookupInv, Apart, Seeks

\* Steps of requests that are looked up otherwise.
LEMMA OthersFit ==
    ASSUME LookupInv, ~Seeks, asked # None, UNCHANGED <<data, asked>>
    PROVE  LookupInv'
BY DEF LookupInv, Apart, IsRequest, IsSection, IsList, Seeks, data

\* What is said of the jobs stays when they do.
LEMMA JobsStay ==
    ASSUME LookupInv, Seeks, UNCHANGED <<asked, jobs>>,
           Steady' => Steady /\ UNCHANGED <<resources, lists>>
    PROVE  IF asked.kind = "preview"
           THEN \A i \in DOMAIN jobs : SectionFits(asked.sections[i], jobs[i])'
           ELSE JobFits(jobs[1])'
  <1>1. ASSUME asked.kind = "preview", NEW i \in DOMAIN jobs
        PROVE  SectionFits(asked.sections[i], jobs[i])'
    <2>1. SectionFits(asked.sections[i], jobs[i])
      BY <1>1 DEF LookupInv, PreviewFits
    <2>2. PICK job : job = jobs[i]
      OBVIOUS
    <2>3. PICK section : section = asked.sections[i]
      OBVIOUS
    <2>4. SectionFits(section, job)'
      BY <2>1, <2>2, <2>3, SectionFitsStays
    <2> QED
      BY <2>2, <2>3, <2>4
  <1>2. ASSUME asked.kind # "preview" PROVE JobFits(jobs[1])'
    <2>1. JobFits(jobs[1])
      BY <1>2 DEF LookupInv, LookupFits
    <2>2. PICK job : job = jobs[1]
      OBVIOUS
    <2>3. JobFits(job)'
      BY <2>1, <2>2, JobFitsStays
    <2> QED
      BY <2>2, <2>3
  <1> QED
    BY <1>1, <1>2

\* An answer made of the jobs as they are.
AnswerFits ==
    reply # None =>
        IF asked.kind = "preview"
        THEN reply.status = "200" =>
                /\ \A i \in DOMAIN jobs : /\ jobs[i].step = "source"
                                          /\ jobs[i].source = Len(asked.sections[i].sources)
                /\ reply.sections = [i \in DOMAIN jobs |->
                                        Limited(jobs[i].merged, asked.sections[i].limit)]
        ELSE ReplyFits(jobs[1])

LEMMA StillFits ==
    ASSUME LookupInv, Seeks, UNCHANGED <<asked, jobs>>,
           Steady' => Steady /\ UNCHANGED <<resources, lists>>,
           resources' \subseteq Copies /\ lists' \subseteq Lists /\ Apart',
           changes' \in Nat /\ changes <= changes', AnswerFits'
    PROVE  LookupInv'
  <1>1. CASE asked.kind = "preview"
    <2>1. PreviewFits'
      BY <1>1, JobsStay DEF LookupInv, PreviewFits, AnswerFits
    <2> QED
      BY <1>1, <2>1 DEF LookupInv, IsRequest, IsSection, IsList, Seeks
  <1>2. CASE asked.kind # "preview"
    <2>1. LookupFits'
      BY <1>2, JobsStay DEF LookupInv, LookupFits, AnswerFits
    <2> QED
      BY <1>2, <2>1 DEF LookupInv, IsRequest, IsSection, IsList, Seeks
  <1> QED
    BY <1>1, <1>2

\* The answer is made of a job that has ended.
LEMMA RespondFits == ASSUME LookupInv, Respond PROVE LookupInv'
  <1>1. /\ asked # None /\ asked.kind # "preview" /\ jobs[1].step = "end"
        /\ UNCHANGED <<data, asked, jobs>>
        /\ Seeks => reply' =
                IF asked.kind = "batch"
                THEN [status |-> "200", data |-> jobs[1].data, errors |-> jobs[1].errors]
                ELSE IF jobs[1].errors # <<>> THEN [status |-> jobs[1].errors[1].status]
                ELSE [status |-> "200", data |-> jobs[1].data]
    BY DEF Respond, Going, Answer, Seeks
  <1>2. UNCHANGED <<resources, lists, changes, asked, jobs>>
    BY <1>1 DEF data
  <1>3. CASE ~Seeks
    BY <1>1, <1>3, OthersFit
  <1>4. CASE Seeks
    <2>1. AnswerFits'
      BY <1>1, <1>2, <1>4 DEF ReplyFits, AnswerFits
    <2>2. (Steady' => Steady /\ UNCHANGED <<resources, lists>>) /\ Apart'
      BY <1>2 DEF Steady, LookupInv, Apart
    <2> QED
      BY <1>2, <1>4, <2>1, <2>2, StillFits DEF LookupInv
  <1> QED
    BY <1>3, <1>4

\* A preview is answered when all its sections are done, or fails.
LEMMA PreviewedFits ==
    ASSUME LookupInv, Previewed \/ \E i \in DOMAIN jobs : SourceFails(i)
    PROVE  LookupInv'
  <1>1. asked # None /\ UNCHANGED <<resources, lists, changes, asked, jobs>>
    BY DEF Previewed, SourceFails, Going, Answer, data
  <1>2. CASE ~Seeks
    BY <1>1, <1>2, OthersFit DEF data
  <1>3. CASE Seeks
    <2>1. AnswerFits'
      <3>1. CASE Previewed
        <4>1. /\ asked.kind = "preview"
              /\ \A i \in DOMAIN jobs :
                    jobs[i].step = "source" /\ jobs[i].source = Len(asked.sections[i].sources)
              /\ reply' = [status |-> "200",
                           sections |-> [i \in DOMAIN jobs |->
                                            Limited(jobs[i].merged, asked.sections[i].limit)]]
          BY <3>1 DEF Previewed, Answer
        <4>2. [i \in DOMAIN jobs |-> Limited(jobs[i].merged, asked.sections[i].limit)]'
                = [i \in DOMAIN jobs |-> Limited(jobs[i].merged, asked.sections[i].limit)]
          BY <1>1 DEF Limited
        <4>3. /\ reply'.status = "200"
              /\ reply'.sections
                    = [i \in DOMAIN jobs |-> Limited(jobs[i].merged, asked.sections[i].limit)]
          BY <4>1
        <4> QED
          BY <1>1, <4>1, <4>2, <4>3 DEF AnswerFits
      <3>2. CASE \E i \in DOMAIN jobs : SourceFails(i)
        <4>1. PICK i \in DOMAIN jobs : SourceFails(i)
          BY <3>2
        <4>2. jobs[i].step = "ids" /\ reply'.status # "200"
          BY <4>1 DEF SourceFails, Answer
        <4>3. asked.kind = "preview"
          <5>1. asked.kind # "preview" => i = 1 /\ JobFits(jobs[1])
            BY <1>3 DEF LookupInv, LookupFits
          <5> QED
            BY <4>2, <5>1 DEF JobFits
        <4> QED
          BY <1>1, <4>2, <4>3 DEF AnswerFits
      <3> QED
        BY <3>1, <3>2
    <2>2. (Steady' => Steady /\ UNCHANGED <<resources, lists>>) /\ Apart'
      BY <1>1 DEF Steady, LookupInv, Apart
    <2> QED
      BY <1>1, <1>3, <2>1, <2>2, StillFits DEF LookupInv
  <1> QED
    BY <1>2, <1>3

\* What was answered stays so.
LEMMA AnswerStays ==
    ASSUME LookupInv, Seeks, UNCHANGED <<asked, jobs, reply>>
    PROVE  AnswerFits'
  <1>1. [i \in DOMAIN jobs |-> Limited(jobs[i].merged, asked.sections[i].limit)]'
            = [i \in DOMAIN jobs |-> Limited(jobs[i].merged, asked.sections[i].limit)]
    BY DEF Limited
  <1>2. CASE asked.kind = "preview"
    BY <1>1, <1>2 DEF LookupInv, PreviewFits, AnswerFits
  <1>3. CASE asked.kind # "preview"
    BY <1>3 DEF LookupInv, LookupFits, ReplyFits, AnswerFits
  <1> QED
    BY <1>2, <1>3

\* Whatever is imported, what was known of the data no longer matters.
LEMMA ChangeFits == ASSUME LookupInv, Change PROVE LookupInv'
  <1>1. changes' = changes + 1 /\ UNCHANGED <<asked, jobs, reply>>
    BY DEF Change
  <1>2. resources' \subseteq Copies /\ lists' \subseteq Lists
    BY DEF Change, LookupInv
  <1>3. Apart'
    <2>1. Apart
      BY DEF LookupInv
    <2>2. CASE \E r \in Copies :
                  /\ resources' = IF r \in resources THEN resources \ {r}
                                  ELSE {s \in resources : s.mongo # r.mongo} \cup {r}
                  /\ UNCHANGED lists
      BY <2>1, <2>2 DEF Apart
    <2>3. CASE \E l \in Lists :
                  /\ lists' = IF l \in lists THEN lists \ {l}
                              ELSE {k \in lists : k.id # l.id} \cup {l}
                  /\ UNCHANGED resources
      BY <2>1, <2>3 DEF Apart
    <2> QED
      BY <2>2, <2>3 DEF Change
  <1>4. /\ asked # None => ~Steady'
        /\ changes' \in Nat /\ changes <= changes'
    BY <1>1 DEF LookupInv, Steady
  <1>5. CASE ~Seeks
    BY <1>1, <1>2, <1>3, <1>4, <1>5 DEF LookupInv, IsRequest, IsSection, IsList, Seeks
  <1>6. CASE Seeks
    BY <1>1, <1>2, <1>3, <1>4, <1>6, AnswerStays, StillFits DEF Seeks
  <1> QED
    BY <1>5, <1>6

\* Nothing happens.
LEMMA StutterFits == ASSUME LookupInv, UNCHANGED vars PROVE LookupInv'
  <1>1. UNCHANGED <<resources, lists, changes, asked, jobs, reply>>
    BY DEF vars
  <1>2. CASE ~Seeks
    BY <1>1, <1>2 DEF LookupInv, Apart, IsRequest, IsSection, IsList, Seeks
  <1>3. CASE Seeks
    <2>1. (Steady' => Steady /\ UNCHANGED <<resources, lists>>) /\ Apart'
      BY <1>1 DEF Steady, LookupInv, Apart
    <2> QED
      BY <1>1, <1>3, <2>1, AnswerStays, StillFits DEF LookupInv
  <1> QED
    BY <1>2, <1>3

-----------------------------------------------------------------------------
(* The steps of a section. *)

\* Only previews have sources.
LEMMA HasSources ==
    ASSUME LookupInv, Seeks, NEW i \in DOMAIN jobs,
           jobs[i].step \in {"source", "ids"} \/ asked.kind = "preview"
    PROVE  /\ asked.kind = "preview" /\ DOMAIN jobs = DOMAIN asked.sections
           /\ jobs[i].at = i /\ SectionFits(asked.sections[i], jobs[i])
           /\ IsSection(asked.sections[i])
  <1>1. asked.kind = "preview"
    <2> SUFFICES ASSUME asked.kind # "preview" PROVE FALSE
      OBVIOUS
    <2>1. i = 1 /\ JobFits(jobs[1])
      BY DEF LookupInv, LookupFits
    <2> QED
      BY <2>1 DEF JobFits
  <1> QED
    BY <1>1 DEF LookupInv, PreviewFits, IsRequest, Seeks

\* The next source of a section is to be read.
LEMMA NextSourceFits ==
    ASSUME LookupInv, Seeks, NEW i \in DOMAIN jobs, NextSource(i) PROVE LookupInv'
  <1> DEFINE section == asked.sections[i]
             job == jobs[i]
             e == [job EXCEPT !.source = @ + 1, !.step = "ids"]
  <1>1. /\ reply = None /\ job.step = "source" /\ job.source < Len(section.sources)
        /\ SetJob(i, e)
    BY DEF NextSource, Going
  <1>2. /\ asked.kind = "preview" /\ job.at = i /\ SectionFits(section, job)
        /\ IsSection(section)
    BY <1>1, HasSources
  <1>3. /\ DOMAIN job = JobFields /\ job.source \in 0..Len(section.sources)
        /\ IsList(job.merged) /\ Once(job.merged) /\ Len(section.sources) \in Nat
        /\ Steady /\ ~Searches(section) =>
              MergedSoFar(job.merged, section, Done(job))
    BY <1>2 DEF SectionFits, IsSection, IsList
  <1>4. /\ DOMAIN e = JobFields /\ e.source = job.source + 1 /\ e.step = "ids"
        /\ e.at = i /\ e.merged = job.merged
    BY <1>2, <1>3 DEF JobFields
  <1> HIDE DEF e, job, section
  <1>5. e.source \in 0..Len(section.sources) /\ e.source >= 1 /\ Done(e) = Done(job)
    BY <1>1, <1>3, <1>4 DEF Done
  <1>6. SectionFits(section, e)
    BY <1>3, <1>4, <1>5 DEF SectionFits
  <1>7. SectionGoes(i, e)
    BY <1>1, <1>4, <1>6 DEF SectionGoes, section
  <1> QED
    BY <1>1, <1>2, <1>7, PreviewMoves

\* What a source lists is looked up; when it lists nothing it is done.
LEMMA ResolveFits ==
    ASSUME LookupInv, Seeks, NEW i \in DOMAIN jobs, reply = None, jobs[i].step = "ids",
           NEW ids, IsList(ids), Resolve(i, ids),
           Source(jobs[i]).type # "query" => ids = IdsOf(Source(jobs[i]))
    PROVE  LookupInv'
  <1> DEFINE section == asked.sections[i]
             job == jobs[i]
             source == section.sources[job.source]
  <1>1. /\ asked.kind = "preview" /\ job.at = i /\ SectionFits(section, job)
        /\ IsSection(section)
    BY HasSources
  <1>2. /\ DOMAIN job = JobFields /\ job.source \in 0..Len(section.sources) /\ job.source >= 1
        /\ IsList(job.merged) /\ Once(job.merged) /\ Len(section.sources) \in Nat
        /\ Steady /\ ~Searches(section) =>
              MergedSoFar(job.merged, section, job.source - 1)
    BY <1>1 DEF SectionFits, IsSection, IsList, Done
  <1>3. Source(job) = source /\ (source.type # "query" => ids = IdsOf(source))
    BY <1>1 DEF Source
  <1>4. job.source \in DOMAIN section.sources
    <2>1. section.sources \in Seq(ToSet(section.sources))
      BY <1>1 DEF IsSection, IsList
    <2> HIDE DEF section, job
    <2> QED
      BY <1>2, <2>1
  <1>5. CASE ids = <<>>
    <2> DEFINE e == [job EXCEPT !.step = "source"]
    <2>1. SetJob(i, e)
      BY <1>5 DEF Resolve
    <2>2. /\ DOMAIN e = JobFields /\ e.source = job.source /\ e.step = "source"
          /\ e.at = i /\ e.merged = job.merged
      BY <1>1, <1>2 DEF JobFields
    <2> HIDE DEF e, job, section, source
    <2>3. Done(e) = job.source
      BY <2>2 DEF Done
    <2>4. ASSUME Steady, ~Searches(section)
          PROVE  MergedSoFar(e.merged, section, Done(e))
      <3>1. DOMAIN IdsOf(source) = {}
        BY <1>3, <1>4, <1>5, <2>4 DEF Searches, source
      <3>2. Places(section, job.source) = Places(section, job.source - 1)
        <4>1. Places(section, job.source) = Places(section, job.source - 1)
                                            \cup ({job.source} \X DOMAIN IdsOf(source))
          BY <1>2, PlacesGrow DEF source
        <4>2. {job.source} \X DOMAIN IdsOf(source) = {}
          BY <3>1
        <4> QED
          BY <4>1, <4>2
      <3>3. IsList(IdsOf(source))
        BY <1>3, <1>4, <1>5, <2>4 DEF Searches, source
      <3>4. \A k \in 1..job.source : k \in 1..(job.source - 1) \/ k = job.source
        BY <1>2
      <3> QED
        BY <1>2, <2>2, <2>3, <2>4, <3>2, <3>3, <3>4 DEF MergedSoFar, source
    <2>5. SectionFits(section, e)
      BY <1>2, <2>2, <2>4 DEF SectionFits
    <2>6. SectionGoes(i, e)
      BY <2>1, <2>2, <2>5 DEF SectionGoes, section
    <2> QED
      BY <1>1, <2>6, PreviewMoves
  <1>6. CASE ids # <<>>
    <2> DEFINE e == [job EXCEPT !.ids = ids, !.tier = 1, !.found = {}, !.data = Empty,
                                !.errors = <<>>, !.step = "find"]
    <2>1. SetJob(i, e)
      BY <1>6 DEF Resolve
    <2>2. /\ DOMAIN e = JobFields /\ e.source = job.source /\ e.step = "find"
          /\ e.at = i /\ e.merged = job.merged /\ e.ids = ids /\ e.tier = 1
          /\ e.found = {} /\ e.data = Empty /\ e.errors = <<>>
      BY <1>1, <1>2 DEF JobFields
    <2> HIDE DEF e, job, section
    <2>3. JobFits(e)
      BY <2>2, NewLookupsFit DEF IsNew
    <2>4. SourceFits(section, e)
      BY <1>2, <1>3, <2>2, <2>3 DEF SourceFits, source
    <2>5. Done(e) = job.source - 1
      BY <2>2 DEF Done
    <2>6. SectionFits(section, e)
      BY <1>2, <2>2, <2>4, <2>5 DEF SectionFits
    <2>7. SectionGoes(i, e)
      BY <2>1, <2>2, <2>6 DEF SectionGoes, section
    <2> QED
      BY <1>1, <2>7, PreviewMoves
  <1> QED
    BY <1>5, <1>6

LEMMA ReadIdsFits ==
    ASSUME LookupInv, Seeks, NEW i \in DOMAIN jobs, ReadIds(i) PROVE LookupInv'
  <1> DEFINE source == Source(jobs[i])
  <1>1. reply = None /\ jobs[i].step = "ids"
    BY DEF ReadIds, Going
  <1>2. CASE source.type = "resource_ids" /\ Resolve(i, source.ids)
    <2>1. jobs[i].at = i /\ SectionFits(asked.sections[i], jobs[i]) /\ IsSection(asked.sections[i])
      BY <1>1, HasSources
    <2>2. jobs[i].source \in DOMAIN asked.sections[i].sources
      <3> DEFINE section == asked.sections[i]
                 job == jobs[i]
      <3>1. section.sources \in Seq(ToSet(section.sources))
        BY <2>1 DEF IsSection, IsList
      <3>2. job.source \in 0..Len(section.sources) /\ job.source >= 1
        BY <1>1, <2>1 DEF SectionFits
      <3> HIDE DEF section, job
      <3>3. job.source \in DOMAIN section.sources
        BY <3>1, <3>2
      <3> QED
        BY <3>3 DEF section, job
    <2>3. source = asked.sections[i].sources[jobs[i].source]
      BY <2>1 DEF Source
    <2>4. IsList(source.ids)
      BY <1>2, <2>1, <2>2, <2>3 DEF IsSection
    <2>5. IdsOf(source) = source.ids
      BY <1>2 DEF IdsOf
    <2> QED
      BY <1>1, <1>2, <2>4, <2>5, ResolveFits
  <1>3. CASE source.type = "favorites_list" /\ \E l \in Meant(source) : Resolve(i, l.favorites)
    <2>1. PICK l \in Meant(source) : Resolve(i, l.favorites)
      BY <1>3
    <2>2. IsList(l.favorites)
      BY <2>1, ContentAssumption DEF LookupInv, Meant
    <2>3. \A k \in Meant(source) : k = l
      BY <2>1 DEF LookupInv, Apart, Meant
    <2>4. ListOf(source) = l
      <3>1. ListOf(source) \in Meant(source)
        BY <2>1 DEF ListOf
      <3> QED
        BY <2>3, <3>1
    <2>5. IdsOf(source) = l.favorites
      BY <1>3, <2>4 DEF IdsOf
    <2> QED
      BY <1>1, <2>1, <2>2, <2>5, ResolveFits
  <1>4. CASE source.type = "query" /\ \E ids \in Hits : Resolve(i, ids)
    <2>1. PICK ids \in Hits : Resolve(i, ids)
      BY <1>4
    <2>2. IsList(ids)
      BY ContentAssumption
    <2> QED
      BY <1>1, <1>4, <2>1, <2>2, ResolveFits
  <1> QED
    BY <1>2, <1>3, <1>4 DEF ReadIds

\* The resources of a source are merged.
LEMMA SourceDoneFits ==
    ASSUME LookupInv, Seeks, NEW i \in DOMAIN jobs, SourceDone(i) PROVE LookupInv'
  <1> DEFINE section == asked.sections[i]
             job == jobs[i]
             source == section.sources[job.source]
             e == [job EXCEPT !.step = "source",
                              !.missing = @ \cup (ToSet(job.ids) \ DOMAIN job.data),
                              !.merged = Merge(@, job)]
  <1>1. reply = None /\ job.step = "end" /\ asked.kind = "preview" /\ SetJob(i, e)
    BY DEF SourceDone, Going
  <1>2. job.at = i /\ SectionFits(section, job) /\ IsSection(section)
    BY <1>1, HasSources
  <1>3. /\ DOMAIN job = JobFields /\ job.source \in 0..Len(section.sources)
        /\ IsList(job.merged) /\ Once(job.merged) /\ Len(section.sources) \in Nat
        /\ SourceFits(section, job)
        /\ Steady /\ ~Searches(section) =>
              MergedSoFar(job.merged, section, job.source - 1)
    BY <1>1, <1>2 DEF SectionFits, IsSection, IsList, Done
  <1>4. /\ DOMAIN e = JobFields /\ e.source = job.source /\ e.step = "source"
        /\ e.at = i /\ e.merged = Merge(job.merged, job)
    BY <1>2, <1>3 DEF JobFields
  <1>5. job.source \in DOMAIN section.sources
    <2>1. section.sources \in Seq(ToSet(section.sources)) /\ job.source >= 1
      BY <1>2, <1>3 DEF IsSection, IsList, SourceFits
    <2> HIDE DEF section, job
    <2> QED
      BY <1>3, <2>1
  <1> HIDE DEF e, job, section, source
  <1>6. JobFits(job) /\ job.source >= 1 /\ IsList(job.ids)
    BY <1>3 DEF SourceFits, JobFits
  <1>7. IsList(e.merged) /\ Once(e.merged)
    BY <1>3, <1>4, <1>6, MergeKeeps
  <1>8. ASSUME Steady, ~Searches(section)
        PROVE  MergedSoFar(e.merged, section, Done(e))
    <2>1. Resolved(job)
      <3>1. BestSoFar(job) /\ FoundFits(job)
        BY <1>6, <1>8 DEF JobFits
      <3>2. \A id \in Wanted(job) \ job.found : Good(id) = {} /\ id \notin DOMAIN job.data
        BY <1>1, <3>1 DEF BestSoFar, Unknown, Good, FoundFits
      <3>3. \A id \in job.found :
                IF id \in DOMAIN job.data THEN job.data[id] \in Good(id) ELSE Good(id) = {}
        BY <1>1, <3>1 DEF BestSoFar, BestFound
      <3> QED
        BY <3>2, <3>3 DEF Resolved
    <2>2. job.ids = IdsOf(source)
      BY <1>3, <1>5, <1>8 DEF SourceFits, Searches, source
    <2>3. /\ Places(section, job.source) = Places(section, job.source - 1)
                                           \cup ({job.source} \X DOMAIN IdsOf(source))
          /\ \A q \in Places(section, job.source - 1) : q[1] \in Nat /\ q[1] < job.source
      BY <1>3, <1>6, PlacesGrow DEF source
    <2>4. /\ InOrder(job.merged, section, Places(section, job.source - 1), -1)
          /\ \A k \in 1..(job.source - 1) : IsList(IdsOf(section.sources[k]))
      BY <1>3, <1>8 DEF MergedSoFar
    <2>5. job.source \in Nat /\ Apart
      BY <1>3 DEF LookupInv
    <2>6. InOrder(Merge(job.merged, job), section,
                  Places(section, job.source - 1) \cup ({job.source} \X DOMAIN job.ids), -1)
      BY <1>3, <1>6, <2>1, <2>2, <2>3, <2>4, <2>5, MergedInOrder DEF source
    <2>7. Done(e) = job.source
      BY <1>4 DEF Done
    <2>8. \A k \in 1..job.source : k \in 1..(job.source - 1) \/ k = job.source
      BY <1>3
    <2>9. \A k \in 1..job.source : IsList(IdsOf(section.sources[k]))
      BY <1>6, <2>2, <2>4, <2>8 DEF source
    <2> QED
      BY <1>4, <2>2, <2>3, <2>6, <2>7, <2>9 DEF MergedSoFar
  <1>9. SectionFits(section, e)
    BY <1>3, <1>4, <1>7, <1>8 DEF SectionFits
  <1>10. SectionGoes(i, e)
    BY <1>1, <1>4, <1>9 DEF SectionGoes, section
  <1> QED
    BY <1>1, <1>10, PreviewMoves

\* Every step keeps the invariant.
LEMMA NextFits == ASSUME LookupInv, [Next]_vars PROVE LookupInv'
  <1>1. ASSUME NEW q \in Requests, Ask(q) PROVE LookupInv'
    BY <1>1, AskFits
  <1>2. ASSUME NEW i \in DOMAIN jobs, Find(i) \/ Redirect(i) PROVE LookupInv'
    <2>1. asked # None /\ UNCHANGED <<data, asked>>
      BY <1>2 DEF Find, Redirect, Going
    <2> QED
      BY <1>2, <2>1, FindFits, RedirectFits, OthersFit
  <1>3. ASSUME NEW i \in DOMAIN jobs, NextSource(i) \/ ReadIds(i) \/ SourceDone(i)
        PROVE  LookupInv'
    <2>1. asked # None /\ UNCHANGED <<data, asked>>
      <3>1. asked # None
        BY <1>3 DEF NextSource, ReadIds, SourceDone, Going
      <3>2. UNCHANGED <<data, asked>>
        BY <1>3 DEF NextSource, ReadIds, SourceDone, SetJob, Resolve
      <3> QED
        BY <3>1, <3>2
    <2> QED
      BY <1>3, <2>1, NextSourceFits, ReadIdsFits, SourceDoneFits, OthersFit
  <1>4. CASE Respond
    BY <1>4, RespondFits
  <1>5. CASE Previewed \/ \E i \in DOMAIN jobs : SourceFails(i)
    BY <1>5, PreviewedFits
  <1>6. CASE Change
    BY <1>6, ChangeFits
  <1>7. CASE Leave
    BY <1>7 DEF Leave, LookupInv, Apart, Seeks, data
  <1>8. CASE UNCHANGED vars
    BY <1>8, StutterFits
  <1> QED
    BY <1>1, <1>2, <1>3, <1>4, <1>5, <1>6, <1>7, <1>8 DEF Next

\* What the job of a lookup has found, and what it has not, fits the tiers it has
\* asked, and its answer is made of it: findById, findManyByIds.
THEOREM LookupInvHolds == Spec => []LookupInv
  <1> QED
    BY InitLookups, NextFits, PTL DEF Spec

-----------------------------------------------------------------------------
(* The answers. *)

\* The answer of a batch in terms of its job.
LEMMA AnswersComplete == LookupInv => EachIdAnswered
  <1> SUFFICES ASSUME LookupInv, Batched PROVE EachIdAnswered
    BY DEF EachIdAnswered
  <1> DEFINE job == jobs[1]
             about(id, statuses) ==
                {n \in DOMAIN reply.errors :
                    reply.errors[n].id = id /\ reply.errors[n].status \in statuses}
             absent(id) == Cardinality(about(id, {"404", "redirect"}))
  <1>1. JobFits(job) /\ ReplyFits(job) /\ asked.kind = "batch" /\ Wanted(job) = ToSet(asked.ids)
    BY DEF LookupInv, LookupFits, Seeks, Batched, Wanted
  <1>2. /\ job.step = "end" /\ FoundFits(job) /\ AbsentFits(job)
        /\ reply.data = job.data /\ reply.errors = job.errors
    BY <1>1 DEF JobFits, ReplyFits
  <1>3. Cardinality({}) = 0 /\ \A n : Cardinality({n}) = 1
    BY FS_EmptySet, FS_Singleton
  <1> HIDE DEF job
  <1>4. \A n \in DOMAIN job.errors :
            job.errors[n].id \in Wanted(job) /\ job.errors[n].status \in {"400", "404", "redirect"}
    <2>1. job.errors \in Seq(Errors(job))
      BY <1>2 DEF FoundFits
    <2>2. \A n \in DOMAIN job.errors : job.errors[n] \in Errors(job)
      BY <2>1
    <2> QED
      BY <2>2 DEF Errors
  <1>5. ASSUME NEW id \in ToSet(asked.ids)
        PROVE  IF id \in DOMAIN reply.data \/ about(id, {"400"}) # {}
               THEN absent(id) = 0 ELSE absent(id) = 1
    <2>1. CASE id \in job.found
      <3>1. \A n \in Reported(job, id) : job.errors[n].status = "400"
        BY <1>2, <2>1 DEF FoundFits
      <3>2. about(id, {"404", "redirect"}) = {}
        BY <1>2, <3>1 DEF Reported
      <3>3. id \in DOMAIN reply.data \/ about(id, {"400"}) # {}
        <4>1. CASE id \in DOMAIN job.data
          BY <1>2, <4>1
        <4>2. CASE Reported(job, id) # {}
          BY <1>2, <3>1, <4>2 DEF Reported
        <4> QED
          BY <1>2, <2>1, <4>1, <4>2 DEF FoundFits
      <3> HIDE DEF about
      <3> QED
        BY <1>3, <3>2, <3>3
    <2>2. CASE id \notin job.found
      <3>1. PICK n \in DOMAIN job.errors :
                Reported(job, id) = {n} /\ job.errors[n].status = NotFound(id).status
        BY <1>1, <1>2, <2>2 DEF AbsentFits
      <3>2. NotFound(id).status \in {"404", "redirect"}
        BY DEF NotFound
      <3>3. \A m \in DOMAIN reply.errors : reply.errors[m].id = id <=> m = n
        BY <1>2, <3>1 DEF Reported
      <3>4. about(id, {"404", "redirect"}) = {n} /\ about(id, {"400"}) = {}
        <4>1. reply.errors[n].status \in {"404", "redirect"} /\ n \in DOMAIN reply.errors
          BY <1>2, <3>1, <3>2
        <4> QED
          BY <3>3, <4>1
      <3>5. id \notin DOMAIN reply.data
        BY <1>2, <2>2 DEF FoundFits
      <3> HIDE DEF about
      <3> QED
        BY <1>3, <3>4, <3>5
    <2> QED
      BY <2>1, <2>2
  <1>6. DOMAIN reply.data \subseteq ToSet(asked.ids)
    BY <1>1, <1>2 DEF FoundFits
  <1>7. \A n \in DOMAIN reply.errors : reply.errors[n].id \in ToSet(asked.ids)
    BY <1>1, <1>2, <1>4
  <1> QED
    BY <1>5, <1>6, <1>7 DEF EachIdAnswered

\* The answer of a lookup in terms of its job.
LEMMA AnswersBest == LookupInv => BestTierAnswers
  <1> SUFFICES ASSUME LookupInv, asked # None, reply # None,
                      asked.kind \in {"single", "batch"}, Steady,
                      NEW id \in ToSet(asked.ids)
               PROVE  LET good == {r \in Best(id) : r.translated}
                          given == reply.status = "200" /\ id \in DOMAIN reply.data
                      IN /\ given => reply.data[id] \in good
                         /\ good # {} /\ (asked.kind = "single" => good = Best(id)) => given
                         /\ ~given =>
                              Refused(id, IF Best(id) # {} THEN "400"
                                          ELSE IF id \in Redirects THEN "redirect" ELSE "404")
    BY DEF BestTierAnswers
  <1> DEFINE job == jobs[1]
             good == {r \in Best(id) : r.translated}
             given == reply.status = "200" /\ id \in DOMAIN reply.data
  <1>1. JobFits(job) /\ ReplyFits(job) /\ id \in Wanted(job) /\ job.ids = asked.ids
    BY DEF LookupInv, LookupFits, Seeks, Wanted
  <1>2. /\ job.step = "end" /\ FoundFits(job) /\ AbsentFits(job) /\ BestSoFar(job)
        /\ asked.kind = "single" => SingleFits(job)
        /\ reply = IF asked.kind = "batch"
                   THEN [status |-> "200", data |-> job.data, errors |-> job.errors]
                   ELSE IF job.errors # <<>> THEN [status |-> job.errors[1].status]
                   ELSE [status |-> "200", data |-> job.data]
    BY <1>1 DEF JobFits, ReplyFits
  <1> HIDE DEF job
  <1>3. id \notin job.found => Best(id) = {}
    BY <1>1, <1>2 DEF BestSoFar, Unknown
  <1>4. id \in job.found =>
            IF id \in DOMAIN job.data THEN job.data[id] \in good
            ELSE /\ \E r \in Best(id) : ~r.translated
                 /\ asked.kind # "single" => good = {}
    BY <1>2 DEF BestSoFar, BestFound, Good
  <1>5. job.errors \in Seq(Errors(job)) /\ DOMAIN job.data \subseteq job.found
    BY <1>2 DEF FoundFits
  <1>6. job.errors # <<>> => /\ 1 \in DOMAIN job.errors /\ job.errors[1] \in Errors(job)
                             /\ job.errors[1].id \in Wanted(job)
                             /\ job.errors[1].status \in {"400", "404", "redirect"}
    <2>1. job.errors # <<>> => 1 \in DOMAIN job.errors /\ job.errors[1] \in Errors(job)
      BY <1>5
    <2> QED
      BY <2>1 DEF Errors
  <1>7. given => reply.data = job.data /\ id \in DOMAIN job.data
    <2>1. CASE asked.kind = "batch" \/ job.errors = <<>>
      BY <1>2, <2>1
    <2>2. CASE asked.kind # "batch" /\ job.errors # <<>>
      BY <1>2, <1>6, <2>2
    <2> QED
      BY <2>1, <2>2
  <1>8. id \in DOMAIN job.data => given
    <2>1. CASE asked.kind = "batch"
      BY <1>2, <2>1
    <2>2. CASE asked.kind = "single"
      BY <1>2, <2>2 DEF SingleFits
    <2> QED
      BY <2>1, <2>2
  <1>9. ASSUME given PROVE reply.data[id] \in good
    BY <1>4, <1>5, <1>7, <1>9
  <1>10. ASSUME good # {}, asked.kind = "single" => good = Best(id) PROVE given
    <2>1. asked.kind = "single" => \A r \in Best(id) : r.translated
      BY <1>10
    <2>2. id \in job.found
      BY <1>3, <1>10
    <2> QED
      BY <1>4, <1>8, <1>10, <2>1, <2>2
  <1> DEFINE status == IF Best(id) # {} THEN "400"
                       ELSE IF id \in Redirects THEN "redirect" ELSE "404"
  <1>11. id \notin DOMAIN job.data =>
            Reported(job, id) # {} /\ \A n \in Reported(job, id) : job.errors[n].status = status
    <2>1. CASE id \in job.found /\ id \notin DOMAIN job.data
      <3>1. Best(id) # {}
        BY <1>4, <2>1
      <3>2. Reported(job, id) # {} /\ \A n \in Reported(job, id) : job.errors[n].status = "400"
        BY <1>2, <2>1 DEF FoundFits
      <3> QED
        BY <3>1, <3>2
    <2>2. CASE id \notin job.found
      <3>1. PICK n \in DOMAIN job.errors :
                Reported(job, id) = {n} /\ job.errors[n].status = NotFound(id).status
        BY <1>1, <1>2, <2>2 DEF AbsentFits
      <3>2. NotFound(id).status = status
        BY <1>3, <2>2 DEF NotFound
      <3> QED
        BY <3>1, <3>2
    <2> QED
      BY <2>1, <2>2
  <1> HIDE DEF status
  <1>12. ASSUME ~given PROVE Refused(id, status)
    <2>1. Reported(job, id) # {} /\ \A n \in Reported(job, id) : job.errors[n].status = status
      BY <1>8, <1>11, <1>12
    <2>2. CASE asked.kind = "batch"
      BY <1>2, <2>1, <2>2 DEF Refused, Reported
    <2>3. CASE asked.kind = "single"
      <3>1. job.errors # <<>>
        BY <2>1 DEF Reported
      <3>2. job.ids \in Seq(Wanted(job)) /\ Len(job.ids) = 1
        BY <1>1, <2>3 DEF LookupInv, IsRequest, JobFits, IsList, Wanted
      <3>3. \A x \in Wanted(job) : x = job.ids[1]
        BY <3>2 DEF Wanted, ToSet
      <3>4. job.errors[1].id = id
        BY <1>1, <1>6, <3>1, <3>3
      <3>5. job.errors[1].status = status
        BY <1>6, <2>1, <3>1, <3>4 DEF Reported
      <3>6. reply.status = status
        BY <1>2, <2>3, <3>1, <3>5
      <3> QED
        BY <2>3, <3>6 DEF Refused
    <2> QED
      BY <2>2, <2>3
  <1> QED
    BY <1>9, <1>10, <1>12 DEF status

\* The beginning of a sequence.
LEMMA Beginning ==
    ASSUME NEW S, NEW s \in Seq(S), NEW L \in Nat, L <= Len(s)
    PROVE  /\ SubSeq(s, 1, L) \in Seq(S) /\ Len(SubSeq(s, 1, L)) = L
           /\ DOMAIN SubSeq(s, 1, L) = 1..L
           /\ \A n \in 1..L : SubSeq(s, 1, L)[n] = s[n] /\ n \in DOMAIN s
  <1>1. SubSeq(s, 1, L) = [n \in 1..L |-> s[n]] /\ DOMAIN s = 1..Len(s)
    OBVIOUS
  <1>2. \A n \in 1..L : n \in 1..Len(s) /\ s[n] \in S
    BY <1>1
  <1> QED
    BY <1>1, <1>2

\* A prefix of what is in order is in order, as long as it is full.
AreNumbered(places) == \A q \in places : q[1] \in Nat /\ q[2] \in Nat

LEMMA LimitedInOrder ==
    ASSUME NEW s, IsList(s), Once(s), NEW limit \in Nat
    PROVE  /\ Len(Limited(s, limit)) <= limit /\ Once(Limited(s, limit))
           /\ \A section, places :
                 InOrder(s, section, places, -1) /\ AreNumbered(places) =>
                    InOrder(Limited(s, limit), section, places, limit)
  <1> DEFINE t == Limited(s, limit)
  <1>1. s \in Seq(ToSet(s)) /\ Len(s) \in Nat /\ DOMAIN s = 1..Len(s)
    BY DEF IsList
  <1>3. PICK N \in Nat : N = Len(s)
    BY <1>1
  <1>7. t = SubSeq(s, 1, IF N < limit THEN N ELSE limit)
    BY <1>3 DEF Limited
  <1> HIDE DEF t
  <1>2. PICK L \in Nat : L <= N /\ L <= limit /\ (L = N \/ L = limit) /\ t = SubSeq(s, 1, L)
    <2>1. CASE N < limit
      BY <1>7, <2>1
    <2>2. CASE ~(N < limit)
      BY <1>7, <2>2
    <2> QED
      BY <2>1, <2>2
  <1>4. Len(t) = L /\ DOMAIN t = 1..L /\ \A n \in 1..L : t[n] = s[n] /\ n \in DOMAIN s
    BY <1>1, <1>2, <1>3, Beginning
  <1>5. Once(t)
    BY <1>4 DEF Once
  <1>6. ASSUME NEW section, NEW places, InOrder(s, section, places, -1), AreNumbered(places)
        PROVE  InOrder(t, section, places, limit)
    <2>1. PICK at \in [DOMAIN s -> places] :
              /\ \A m, n \in DOMAIN s : m < n => Earlier(at[m], at[n])
              /\ \A n \in DOMAIN s : s[n] \in Good(IdAt(section, at[n]))
              /\ \A p \in places : Good(IdAt(section, p)) # {} =>
                    \/ \E n \in DOMAIN s : /\ s[n] \in Good(IdAt(section, p))
                                           /\ ~Earlier(p, at[n])
                    \/ Len(s) = -1 /\ \A n \in DOMAIN s : Earlier(at[n], p)
      BY <1>6 DEF InOrder
    <2> DEFINE to == [n \in DOMAIN t |-> at[n]]
    <2>2. to \in [DOMAIN t -> places] /\ \A n \in DOMAIN t : to[n] = at[n]
      BY <1>4, <2>1
    <2> HIDE DEF to
    <2>3. \A m, n \in DOMAIN t : m < n => Earlier(to[m], to[n])
      BY <1>4, <2>1, <2>2
    <2>4. \A n \in DOMAIN t : t[n] \in Good(IdAt(section, to[n]))
      BY <1>4, <2>1, <2>2
    <2>5. ASSUME NEW p \in places, Good(IdAt(section, p)) # {}
          PROVE  \/ \E n \in DOMAIN t : t[n] \in Good(IdAt(section, p)) /\ ~Earlier(p, to[n])
                 \/ Len(t) = limit /\ \A n \in DOMAIN t : Earlier(to[n], p)
      <3>1. PICK n \in DOMAIN s : s[n] \in Good(IdAt(section, p)) /\ ~Earlier(p, at[n])
        BY <1>1, <2>1, <2>5
      <3>2. CASE n <= L
        <4>1. n \in DOMAIN t /\ t[n] = s[n] /\ to[n] = at[n]
          BY <1>1, <1>4, <2>2, <3>2
        <4> QED
          BY <3>1, <4>1
      <3>3. CASE ~(n <= L)
        <4>1. Len(t) = limit
          <5>1. n \in 1..N
            BY <1>1, <1>3
          <5>2. L # N
            BY <3>3, <5>1
          <5> QED
            BY <1>2, <1>4, <5>2
        <4>2. ASSUME NEW m \in DOMAIN t PROVE Earlier(to[m], p)
          <5>1. m \in DOMAIN s /\ m < n /\ to[m] = at[m]
            BY <1>1, <1>3, <1>4, <2>2, <3>3
          <5>2. Earlier(at[m], at[n])
            BY <2>1, <5>1
          <5>3. /\ at[m] \in places /\ at[n] \in places
                /\ \A q \in places : q[1] \in Nat /\ q[2] \in Nat
            BY <1>6, <2>1, <5>1 DEF AreNumbered
          <5>4. Earlier(at[m], p)
            BY <3>1, <5>2, <5>3 DEF Earlier
          <5> QED
            BY <5>1, <5>4
        <4> QED
          BY <4>1, <4>2
      <3> QED
        BY <3>2, <3>3
    <2> QED
      BY <2>2, <2>3, <2>4, <2>5 DEF InOrder
  <1> QED
    BY <1>2, <1>4, <1>5, <1>6 DEF t

\* The places of lists have numbers.
LEMMA PlacesAreNumbered ==
    ASSUME NEW section, NEW K \in Nat, \A k \in 1..K : IsList(IdsOf(section.sources[k]))
    PROVE  AreNumbered(Places(section, K))
  <1> SUFFICES ASSUME NEW q \in Places(section, K) PROVE q[1] \in Nat /\ q[2] \in Nat
    BY DEF AreNumbered
  <1>1. PICK k \in 1..K : q \in {k} \X DOMAIN IdsOf(section.sources[k])
    BY DEF Places
  <1>2. q[1] = k /\ q[2] \in DOMAIN IdsOf(section.sources[k])
    BY <1>1
  <1>3. \A s : IsList(s) => DOMAIN s \subseteq Nat
    BY DEF IsList
  <1> QED
    BY <1>2, <1>3

\* The answer of a preview in terms of its sections.
LEMMA PreviewsFit == LookupInv => PreviewsInOrder
  <1> SUFFICES ASSUME LookupInv, asked # None, asked.kind = "preview", reply # None,
                      reply.status = "200", NEW i \in DOMAIN reply.sections
               PROVE  LET shown == reply.sections[i]
                          section == asked.sections[i]
                      IN /\ Len(shown) <= section.limit /\ Once(shown)
                         /\ Steady /\ ~Searches(section) =>
                              InOrder(shown, section, Places(section, Len(section.sources)),
                                      section.limit)
    BY DEF PreviewsInOrder
  <1> DEFINE section == asked.sections[i]
             job == jobs[i]
  <1>1. Seeks /\ PreviewFits
    BY DEF LookupInv, Seeks
  <1>2. /\ i \in DOMAIN asked.sections /\ SectionFits(section, job)
        /\ job.step = "source" /\ job.source = Len(section.sources)
        /\ reply.sections[i] = Limited(job.merged, section.limit)
    BY <1>1 DEF PreviewFits
  <1>3. IsSection(section)
    BY <1>1, <1>2 DEF LookupInv, IsRequest
  <1>4. /\ IsList(job.merged) /\ Once(job.merged) /\ section.limit \in Nat
        /\ Steady /\ ~Searches(section) =>
              MergedSoFar(job.merged, section, Len(section.sources))
    BY <1>2, <1>3 DEF SectionFits, IsSection, Done
  <1>6. Len(section.sources) \in Nat
    BY <1>3 DEF IsSection, IsList
  <1> HIDE DEF section, job
  <1>5. /\ Len(reply.sections[i]) <= section.limit /\ Once(reply.sections[i])
        /\ Steady /\ ~Searches(section) =>
              InOrder(reply.sections[i], section, Places(section, Len(section.sources)),
                      section.limit)
    BY <1>2, <1>4, <1>6, LimitedInOrder, PlacesAreNumbered DEF MergedSoFar
  <1> QED
    BY <1>5 DEF section

\* findManyByIds says of the ids that have neither a resource nor a 400, once
\* of each and of no other, that they were not found, whatever is imported.
THEOREM BatchesAnswerEachId == Spec => []EachIdAnswered
BY LookupInvHolds, AnswersComplete, PTL

\* findById and findManyByIds give a resource of the best tier, refuse with 400
\* ids whose best resources are not translated and with 404 or a redirect ids
\* no tier knows, when nothing is imported meanwhile.
THEOREM LookupsAnswerTheBest == Spec => []BestTierAnswers
BY LookupInvHolds, AnswersBest, PTL

\* previewDirectory shows in each section the best resources of the ids of its
\* sources, in their order and none twice, up to the maximum of the section.
THEOREM PreviewsKeepTheirOrder == Spec => []PreviewsInOrder
BY LookupInvHolds, PreviewsFit, PTL

=============================================================================
