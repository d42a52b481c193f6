----------------------- MODULE TaxonomyScorecardProofs -----------------------
(***************************************************************************)
(* Proofs about TaxonomyScorecard for any number of requests, tenants and  *)
(* codes: the type invariant, and that the scorecard of a document before  *)
(* its first customisation stays restorable however requests interleave;   *)
(* and that versions are kept, and the active one served, when they come   *)
(* one after another.                                                      *)
(***************************************************************************)
EXTENDS TaxonomyScorecardInTurn, TLAPS

(***************************************************************************)
(* A document keeps its shape through getNextVersionId and the two changes *)
(* a request makes to its copy.                                            *)
(***************************************************************************)
LEMMA NextVersionIdIsNat ==
    ASSUME NEW d, IsDoc(d), WellVersioned(d)
    PROVE  NextVersionId(d) \in Nat
  BY DEF IsDoc, WellVersioned, NextVersionId, Metadata

LEMMA UpdatedIsDoc ==
    ASSUME NEW r \in Requests, job[r] \in UpdateJob,
           NEW d, IsDoc(d), WellVersioned(d)
    PROVE  /\ IsDoc(Updated(d, r))
           /\ Updated(d, r).metadata \in Metadata
           /\ SubmittedId(d) \in Nat
           /\ WellVersioned(Updated(d, r))
           /\ DOMAIN Updated(d, r).versions # {}
           /\ BaseScorecard(Updated(d, r)) = BaseScorecard(d)
           /\ Updated(d, r).metadata.next > 0
  <1> DEFINE id == SubmittedId(d)
             V  == VersionsAfterUpdate(d, r)
  <1>1. NextVersionId(d) \in Nat
    BY NextVersionIdIsNat
  <1>2. id \in Nat /\ id # 0
    BY <1>1 DEF SubmittedId, WellVersioned, NeedsBaseVersion, NextVersionId
  <1>3. job[r].need \in Needs
    BY DEF UpdateJob
  <1>4. DOMAIN V = DOMAIN d.versions \cup {0, id}
    BY <1>1 DEF VersionsAfterUpdate, WellVersioned, NeedsBaseVersion
  <1>5. IsVersions(V)
    <2>1. DOMAIN V \subseteq Nat
      BY <1>4, <1>2 DEF IsDoc, IsVersions
    <2>2. \A k \in DOMAIN V : V[k] \in Entry
      BY <1>3 DEF VersionsAfterUpdate, IsDoc, IsVersions, Entry
    <2>3. V = [k \in DOMAIN V |-> V[k]]
      BY DEF VersionsAfterUpdate
    <2> QED
      BY <2>1, <2>2, <2>3 DEF IsVersions
  <1>6. V[0].scorecard = BaseScorecard(d)
    <2>1. CASE DOMAIN d.versions = {}
      <3>1. NeedsBaseVersion(d) /\ NextVersionId(d) = 0
        BY <2>1 DEF WellVersioned
      <3>2. 0 # id
        BY <1>2
      <3> QED
        BY <2>1, <3>1, <3>2 DEF VersionsAfterUpdate, BaseScorecard
    <2>2. CASE DOMAIN d.versions # {}
      <3>1. ~NeedsBaseVersion(d) /\ 0 \in DOMAIN d.versions /\ 0 # id
        BY <2>2, <1>2 DEF WellVersioned, NeedsBaseVersion
      <3> QED
        BY <2>2, <3>1 DEF VersionsAfterUpdate, BaseScorecard
    <2> QED
      BY <2>1, <2>2
  <1>7. ActiveVersion(d) \in Nat \cup {None}
    BY DEF ActiveVersion, IsDoc, Metadata
  <1>8. Updated(d, r).metadata \in Metadata
    BY <1>2, <1>7 DEF Updated, NextAfter, ActiveAfterUpdate, Metadata
  <1>9. IsDoc(Updated(d, r))
    BY <1>3, <1>5, <1>8 DEF Updated, IsDoc
  <1>10. Updated(d, r).metadata.next = id + 1 /\ Updated(d, r).versions = V
    BY DEF Updated, NextAfter
  <1>11. WellVersioned(Updated(d, r))
    BY <1>4, <1>10, <1>2, <1>8, NoneAssumption DEF WellVersioned
  <1>12. DOMAIN Updated(d, r).versions # {}
    BY <1>4, <1>10
  <1>13. BaseScorecard(Updated(d, r)) = BaseScorecard(d)
    BY <1>6, <1>10, <1>12 DEF BaseScorecard
  <1>14. Updated(d, r).metadata.next > 0
    BY <1>2, <1>10
  <1> HIDE DEF id, V
  <1> QED
    BY <1>2, <1>8, <1>9, <1>11, <1>12, <1>13, <1>14 DEF id

LEMMA EnabledIsDoc ==
    ASSUME NEW d, IsDoc(d), WellVersioned(d),
           NEW id \in DOMAIN d.versions
    PROVE  /\ IsDoc(Enabled(d, id))
           /\ WellVersioned(Enabled(d, id))
           /\ BaseScorecard(Enabled(d, id)) = BaseScorecard(d)
           /\ Enabled(d, id).versions = d.versions
           /\ Enabled(d, id).hasNeed = d.hasNeed
           /\ Enabled(d, id).metadata.next > 0
  <1>1. NextVersionId(d) \in Nat /\ NextVersionId(d) > 0
    BY NextVersionIdIsNat DEF WellVersioned, NextVersionId
  <1>2. id \in Nat /\ d.versions[id] \in Entry
    BY DEF IsDoc, IsVersions
  <1>3. Enabled(d, id) = [scorecard |-> d.versions[id].scorecard,
                          hasNeed |-> d.hasNeed, versions |-> d.versions,
                          metadata |-> [next |-> NextVersionId(d),
                                        active |-> id, action |-> "enable"],
                          v |-> d.v]
    BY DEF Enabled
  <1>4. Enabled(d, id).metadata \in Metadata
    BY <1>1, <1>2, <1>3 DEF Metadata
  <1>5. d.versions[id].scorecard \in Needs
    BY <1>2 DEF Entry
  <1>6. IsDoc(Enabled(d, id))
    BY <1>3, <1>4, <1>5 DEF IsDoc
  <1>7. /\ Enabled(d, id).versions = d.versions
        /\ Enabled(d, id).hasNeed = d.hasNeed
        /\ Enabled(d, id).metadata.next > 0
    BY <1>1, <1>3
  <1>8. DOMAIN d.versions # {} /\ 0 \in DOMAIN d.versions
    BY DEF WellVersioned
  <1>9. WellVersioned(Enabled(d, id))
    BY <1>4, <1>7, <1>8, NoneAssumption DEF WellVersioned
  <1>10. BaseScorecard(Enabled(d, id)) = BaseScorecard(d)
    BY <1>7, <1>8 DEF BaseScorecard
  <1> QED
    BY <1>6, <1>7, <1>9, <1>10

(***************************************************************************)
(* A save of a changed copy leaves the stored document well versioned and  *)
(* its base scorecard in place, whatever was saved since the copy was read.*)
(***************************************************************************)
LEMMA MergedKeepsBase ==
    ASSUME NEW d, IsDoc(d), WellVersioned(d),
           NEW c, IsDoc(c), WellVersioned(c), AgreesWith(c, d),
           NEW n, IsDoc(n), WellVersioned(n), DOMAIN n.versions # {},
           BaseScorecard(n) = BaseScorecard(c),
           n.metadata # None, n.metadata.next > 0
    PROVE  /\ IsDoc(Merged(d, c, n))
           /\ WellVersioned(Merged(d, c, n))
           /\ DOMAIN Merged(d, c, n).versions # {}
           /\ BaseScorecard(Merged(d, c, n)) = BaseScorecard(d)
  <1> DEFINE m == Merged(d, c, n)
  <1>1. IsDoc(m)
    BY DEF Merged, Pick, IsDoc
  <1>2. m.versions \in {d.versions, n.versions} /\ m.metadata \in {d.metadata, n.metadata}
    BY DEF Merged, Pick
  <1>3. DOMAIN m.versions # {}
    <2>1. CASE n.versions = c.versions
      <3>1. DOMAIN d.versions # {}
        BY <2>1 DEF AgreesWith
      <3> QED
        BY <2>1, <3>1 DEF Merged, Pick
    <2>2. CASE n.versions # c.versions
      BY <2>2 DEF Merged, Pick
    <2> QED
      BY <2>1, <2>2
  <1>4. 0 \in DOMAIN m.versions
    BY <1>2, <1>3 DEF WellVersioned
  <1>5. m.versions[0].scorecard = BaseScorecard(d)
    BY <1>2, <1>3 DEF AgreesWith, BaseScorecard
  <1>6. m.metadata # None /\ m.metadata.next > 0
    <2>1. CASE DOMAIN d.versions # {}
      BY <2>1, <1>2 DEF WellVersioned
    <2>2. CASE DOMAIN d.versions = {}
      <3>1. DOMAIN c.versions = {}
        BY <2>2 DEF AgreesWith
      <3>2. c.metadata = None \/ c.metadata.next = 0
        BY <3>1 DEF WellVersioned, NextVersionId
      <3>3. n.metadata # c.metadata
        BY <3>2
      <3> QED
        BY <3>3 DEF Merged, Pick
    <2> QED
      BY <2>1, <2>2
  <1> QED
    BY <1>1, <1>3, <1>4, <1>5, <1>6 DEF WellVersioned, BaseScorecard

LEMMA CloneIsDoc ==
    ASSUME NEW d, IsDoc(d)
    PROVE  /\ IsDoc(CloneOf(d))
           /\ WellVersioned(CloneOf(d))
           /\ DOMAIN CloneOf(d).versions = {}
  <1>1. CloneOf(d).metadata \in Metadata /\ CloneOf(d).metadata # None
    BY NoneAssumption DEF CloneOf, Metadata
  <1>2. IsVersions(NoVersions) /\ DOMAIN NoVersions = {}
    BY DEF IsVersions, NoVersions
  <1>3. IsDoc(CloneOf(d))
    BY <1>1, <1>2 DEF CloneOf, IsDoc
  <1>4. CloneOf(d).versions = NoVersions /\ CloneOf(d).metadata.next = 0
        /\ CloneOf(d).metadata.active = None
    BY DEF CloneOf
  <1> QED
    BY <1>1, <1>2, <1>3, <1>4
    DEF WellVersioned, NeedsBaseVersion, ActiveVersion, NextVersionId

-----------------------------------------------------------------------------
(* The inductive invariant. *)

LEMMA InitIInv == Init => IInv
  <1> SUFFICES ASSUME Init PROVE IInv
    OBVIOUS
  <1>1. /\ DOMAIN docs \subseteq Codes \X Owners
        /\ docs = [k \in DOMAIN docs |-> docs[k]]
        /\ \A k \in DOMAIN docs : docs[k] \in LegacyDocs
    <2>1. PICK S \in SUBSET (Codes \X Owners) : docs \in [S -> LegacyDocs]
      BY InitialDocsAssumption DEF Init
    <2> QED
      BY <2>1
  <1>2. IsVersions(NoVersions) /\ DOMAIN NoVersions = {}
    BY DEF IsVersions, NoVersions
  <1>3. ASSUME NEW d \in LegacyDocs
        PROVE  IsDoc(d) /\ WellVersioned(d)
    <2>1. PICK n \in Needs, b \in BOOLEAN : d = Legacy(n, b)
      BY <1>3 DEF LegacyDocs
    <2>2. d.versions = NoVersions /\ d.metadata = None
      BY <2>1 DEF Legacy
    <2>3. IsDoc(d)
      BY <2>1, <1>2 DEF Legacy, IsDoc
    <2> QED
      BY <2>2, <2>3, <1>2
      DEF WellVersioned, NeedsBaseVersion, ActiveVersion, NextVersionId
  <1>4. TypeOK
    BY <1>1, <1>3 DEF Init, TypeOK
  <1>5. \A k \in DOMAIN docs : WellVersioned(docs[k])
    BY <1>1, <1>3
  <1>6. \A r \in Requests : JobFitsStep(r) /\ CopyFitsStore(r)
    BY DEF Init, JobFitsStep, CopyFitsStore
  <1> QED
    BY <1>4, <1>5, <1>6 DEF IInv

\* The document a running request works on is its tenant's.
LEMMA OwnIsTenants ==
    ASSUME IInv, NEW r \in Requests,
           pc[r] \in {"ensure", "save", "enable", "saveEnable"}
    PROVE  Own(r) \in Codes \X Tenants /\ Own(r) \in Codes \X Owners
  <1>1. cur[r] \in Codes /\ job[r].tenant \in Tenants
    BY DEF IInv, JobFitsStep, UpdateJob, EnableJob
  <1> QED
    BY <1>1 DEF Own, Owners

(***************************************************************************)
(* What every step that writes a document d does to the collection.        *)
(***************************************************************************)
GoodWrite(k, d) ==
    /\ k \in Codes \X Tenants /\ k \in Codes \X Owners
    /\ Write(k, d)
    /\ IsDoc(d) /\ WellVersioned(d) /\ DOMAIN d.versions # {}
    /\ k \in DOMAIN docs => BaseScorecard(d) = BaseScorecard(docs[k])

LEMMA SaveNewWrites ==
    ASSUME IInv, NEW r \in Requests, SaveNew(r)
    PROVE  GoodWrite(Own(r), Updated(copy[r], r))
  <1>1. IsDoc(copy[r]) /\ WellVersioned(copy[r]) /\ job[r] \in UpdateJob
    BY DEF IInv, SaveNew, CopyFitsStore, JobFitsStep
  <1>2. Own(r) \in Codes \X Tenants /\ Own(r) \in Codes \X Owners
    BY OwnIsTenants DEF SaveNew
  <1> QED
    BY <1>1, <1>2, UpdatedIsDoc DEF SaveNew, GoodWrite

LEMMA SaveExistingWrites ==
    ASSUME IInv, NEW r \in Requests, SaveExisting(r)
    PROVE  GoodWrite(Own(r), Merged(docs[Own(r)], copy[r], Updated(copy[r], r)))
  <1> DEFINE d == docs[Own(r)]
             n == Updated(copy[r], r)
  <1>1. /\ IsDoc(copy[r]) /\ WellVersioned(copy[r]) /\ job[r] \in UpdateJob
        /\ IsDoc(d) /\ WellVersioned(d) /\ AgreesWith(copy[r], d)
    BY DEF IInv, TypeOK, SaveExisting, CopyFitsStore, JobFitsStep
  <1>2. Own(r) \in Codes \X Tenants /\ Own(r) \in Codes \X Owners
    BY OwnIsTenants DEF SaveExisting
  <1>3. /\ IsDoc(n) /\ WellVersioned(n) /\ DOMAIN n.versions # {}
        /\ BaseScorecard(n) = BaseScorecard(copy[r])
        /\ n.metadata # None /\ n.metadata.next > 0
    BY <1>1, UpdatedIsDoc, NoneAssumption
  <1>4. Write(Own(r), Merged(d, copy[r], n))
    BY DEF SaveExisting
  <1> HIDE DEF d, n
  <1>5. /\ IsDoc(Merged(d, copy[r], n)) /\ WellVersioned(Merged(d, copy[r], n))
        /\ DOMAIN Merged(d, copy[r], n).versions # {}
        /\ BaseScorecard(Merged(d, copy[r], n)) = BaseScorecard(d)
    BY <1>1, <1>3, MergedKeepsBase
  <1> QED
    BY <1>2, <1>4, <1>5 DEF GoodWrite, d, n

LEMMA SaveEnabledWrites ==
    ASSUME IInv, NEW r \in Requests, SaveEnabled(r)
    PROVE  GoodWrite(Own(r), Merged(docs[Own(r)], copy[r],
                                    Enabled(copy[r], job[r].version)))
  <1> DEFINE d == docs[Own(r)]
             n == Enabled(copy[r], job[r].version)
  <1>1. /\ IsDoc(copy[r]) /\ WellVersioned(copy[r])
        /\ job[r].version \in DOMAIN copy[r].versions
        /\ IsDoc(d) /\ WellVersioned(d) /\ AgreesWith(copy[r], d)
    BY DEF IInv, TypeOK, SaveEnabled, CopyFitsStore
  <1>2. Own(r) \in Codes \X Tenants /\ Own(r) \in Codes \X Owners
    BY OwnIsTenants DEF SaveEnabled
  <1>3. /\ IsDoc(n) /\ WellVersioned(n) /\ DOMAIN n.versions # {}
        /\ BaseScorecard(n) = BaseScorecard(copy[r])
        /\ n.metadata # None /\ n.metadata.next > 0
    BY <1>1, EnabledIsDoc DEF WellVersioned
  <1>4. Write(Own(r), Merged(d, copy[r], n))
    BY DEF SaveEnabled
  <1> HIDE DEF d, n
  <1>5. /\ IsDoc(Merged(d, copy[r], n)) /\ WellVersioned(Merged(d, copy[r], n))
        /\ DOMAIN Merged(d, copy[r], n).versions # {}
        /\ BaseScorecard(Merged(d, copy[r], n)) = BaseScorecard(d)
    BY <1>1, <1>3, MergedKeepsBase
  <1> QED
    BY <1>2, <1>4, <1>5 DEF GoodWrite, d, n

(***************************************************************************)
(* A write keeps every document well formed, and every copy that another   *)
(* request holds in agreement with the store.                              *)
(***************************************************************************)
Untouched(q) ==
    /\ pc'[q] = pc[q] /\ job'[q] = job[q] /\ cur'[q] = cur[q]
    /\ copy'[q] = copy[q] /\ fresh'[q] = fresh[q]

DocsOK ==
    /\ DOMAIN docs \subseteq Codes \X Owners
    /\ docs = [k \in DOMAIN docs |-> docs[k]]
    /\ \A k \in DOMAIN docs : IsDoc(docs[k]) /\ WellVersioned(docs[k])

LEMMA GoodWriteKeepsDocs ==
    ASSUME IInv, NEW k, NEW d, GoodWrite(k, d)
    PROVE  DocsOK'
  BY DEF IInv, TypeOK, GoodWrite, Write, DocsOK

LEMMA GoodWriteKeepsCopies ==
    ASSUME IInv, NEW k, NEW d, GoodWrite(k, d),
           NEW q \in Requests, Untouched(q)
    PROVE  CopyFitsStore(q)' /\ JobFitsStep(q)'
  <1>1. CopyFitsStore(q) /\ JobFitsStep(q)
    BY DEF IInv
  <1>2. Own(q)' = Own(q)
    BY DEF Own, Untouched
  <1>3. ASSUME Own(q) \in DOMAIN docs, AgreesWith(copy[q], docs[Own(q)])
        PROVE  Own(q) \in DOMAIN docs' /\ AgreesWith(copy[q], docs'[Own(q)])
    <2>1. CASE Own(q) = k
      BY <1>3, <2>1 DEF GoodWrite, Write, AgreesWith
    <2>2. CASE Own(q) # k
      BY <1>3, <2>2 DEF GoodWrite, Write
    <2> QED
      BY <2>1, <2>2
  <1>4. CopyFitsStore(q)'
    BY <1>1, <1>2, <1>3 DEF CopyFitsStore, Untouched
  <1> QED
    BY <1>1, <1>4 DEF JobFitsStep, Untouched
LEMMA ReadKeepsCopies ==
    ASSUME IInv, UNCHANGED docs, NEW q \in Requests, Untouched(q)
    PROVE  CopyFitsStore(q)' /\ JobFitsStep(q)'
  <1>1. CopyFitsStore(q) /\ JobFitsStep(q)
    BY DEF IInv
  <1>2. Own(q)' = Own(q)
    BY DEF Own, Untouched
  <1> QED
    BY <1>1, <1>2 DEF CopyFitsStore, JobFitsStep, Untouched

(***************************************************************************)
(* One lemma per step of a request.  "Acted" is what is left to show of    *)
(* the invariant once the documents are known to be well formed.           *)
(***************************************************************************)
Acted(r) ==
    /\ TypeOK'
    /\ DocsOK'
    /\ \A q \in Requests \ {r} : Untouched(q)
    /\ JobFitsStep(r)' /\ CopyFitsStore(r)'

LEMMA StartActs ==
    ASSUME IInv, NEW r \in Requests, Start(r)
    PROVE  Acted(r) /\ UNCHANGED docs
  <1> USE DEF Start
  <1>1. TypeOK /\ DocsOK
    BY DEF IInv, TypeOK, DocsOK
  <1>2. CASE pc'[r] = "resolve"
    <2>1. PICK j \in UpdateJob :
              /\ job' = [job EXCEPT ![r] = j]
              /\ todo' = [todo EXCEPT ![r] = j.affected]
              /\ pc' = [pc EXCEPT ![r] = "resolve"]
              /\ UNCHANGED cur
      BY <1>1, <1>2 DEF TypeOK
    <2>2. j.affected \in SUBSET Codes
      BY DEF UpdateJob
    <2>3. TypeOK'
      BY <1>1, <2>1, <2>2 DEF TypeOK, Job
    <2>4. JobFitsStep(r)' /\ CopyFitsStore(r)'
      BY <1>1, <2>1 DEF TypeOK, JobFitsStep, CopyFitsStore
    <2>5. \A q \in Requests \ {r} : Untouched(q)
      BY <1>1, <2>1 DEF TypeOK, Untouched
    <2> QED
      BY <1>1, <2>3, <2>4, <2>5 DEF Acted, DocsOK
  <1>3. CASE pc'[r] # "resolve"
    <2>1. PICK j \in EnableJob :
              /\ job' = [job EXCEPT ![r] = j]
              /\ cur' = [cur EXCEPT ![r] = j.code]
              /\ pc' = [pc EXCEPT ![r] = "enable"]
              /\ UNCHANGED todo
      BY <1>1, <1>3 DEF TypeOK
    <2>2. j.code \in Codes
      BY DEF EnableJob
    <2>3. TypeOK'
      BY <1>1, <2>1, <2>2 DEF TypeOK, Job
    <2>4. JobFitsStep(r)' /\ CopyFitsStore(r)'
      BY <1>1, <2>1, <2>2 DEF TypeOK, JobFitsStep, CopyFitsStore
    <2>5. \A q \in Requests \ {r} : Untouched(q)
      BY <1>1, <2>1 DEF TypeOK, Untouched
    <2> QED
      BY <1>1, <2>3, <2>4, <2>5 DEF Acted, DocsOK
  <1> QED
    BY <1>2, <1>3

LEMMA ResolveActs ==
    ASSUME IInv, NEW r \in Requests, Resolve(r)
    PROVE  Acted(r) /\ UNCHANGED docs
  <1>1. TypeOK /\ DocsOK /\ job[r] \in UpdateJob /\ todo[r] \in SUBSET Codes
    BY DEF IInv, TypeOK, DocsOK, Resolve, JobFitsStep
  <1>2. PICK c \in NextCodes(r) : cur' = [cur EXCEPT ![r] = c]
    BY DEF Resolve
  <1>3. c \in Codes
    BY <1>1 DEF NextCodes
  <1>4. \/ /\ pc' = [pc EXCEPT ![r] = "ensure"]
           /\ \E k \in DOMAIN docs : copy' = [copy EXCEPT ![r] = docs[k]]
        \/ /\ pc' = [pc EXCEPT ![r] = "notFound"]
           /\ UNCHANGED copy
    BY DEF Resolve, Effective
  <1>5. UNCHANGED <<docs, job, todo, fresh, saved>>
    BY DEF Resolve
  <1>6. TypeOK'
    BY <1>1, <1>2, <1>3, <1>4, <1>5 DEF TypeOK, DocsOK, Answers
  <1>7. JobFitsStep(r)' /\ CopyFitsStore(r)'
    BY <1>1, <1>2, <1>3, <1>4, <1>5 DEF TypeOK, DocsOK, JobFitsStep, CopyFitsStore
  <1>8. \A q \in Requests \ {r} : Untouched(q)
    BY <1>1, <1>2, <1>4, <1>5 DEF TypeOK, Untouched
  <1> QED
    BY <1>1, <1>5, <1>6, <1>7, <1>8 DEF Acted, DocsOK

LEMMA EnsureActs ==
    ASSUME IInv, NEW r \in Requests, Ensure(r)
    PROVE  Acted(r) /\ UNCHANGED docs
  <1>1. TypeOK /\ DocsOK /\ job[r] \in UpdateJob /\ cur[r] \in Codes /\ IsDoc(copy[r])
    BY DEF IInv, TypeOK, DocsOK, Ensure, JobFitsStep, CopyFitsStore
  <1>2. /\ IsDoc(CloneOf(copy[r])) /\ WellVersioned(CloneOf(copy[r]))
        /\ DOMAIN CloneOf(copy[r]).versions = {}
    BY <1>1, CloneIsDoc
  <1>3. UNCHANGED <<docs, job, todo, cur, saved>> /\ pc' = [pc EXCEPT ![r] = "save"]
    BY DEF Ensure
  <1>4. \/ /\ Own(r) \in DOMAIN docs
           /\ copy' = [copy EXCEPT ![r] = docs[Own(r)]]
           /\ fresh' = [fresh EXCEPT ![r] = FALSE]
        \/ /\ copy' = [copy EXCEPT ![r] = CloneOf(copy[r])]
           /\ fresh' = [fresh EXCEPT ![r] = TRUE]
    BY DEF Ensure
  <1>5. TypeOK'
    <2>1. \E d : IsDoc(d) /\ copy' = [copy EXCEPT ![r] = d]
      <3>1. CASE Own(r) \in DOMAIN docs /\ copy' = [copy EXCEPT ![r] = docs[Own(r)]]
        BY <1>1, <3>1 DEF TypeOK
      <3>2. CASE copy' = [copy EXCEPT ![r] = CloneOf(copy[r])]
        BY <1>2, <3>2
      <3> QED
        BY <1>4, <3>1, <3>2
    <2>2. PICK d : IsDoc(d) /\ copy' = [copy EXCEPT ![r] = d]
      BY <2>1
    <2>3. copy = [q \in Requests |-> copy[q]] /\ \A q \in Requests : copy[q] = None \/ IsDoc(copy[q])
      BY <1>1 DEF TypeOK
    <2>4. /\ copy' = [q \in Requests |-> copy'[q]]
          /\ \A q \in Requests : copy'[q] = None \/ IsDoc(copy'[q])
      BY <2>2, <2>3
    <2>5. fresh' \in [Requests -> BOOLEAN]
      BY <1>1, <1>4 DEF TypeOK
    <2>6. pc' \in [Requests -> Answers \cup
                      {"idle", "resolve", "ensure", "save", "enable", "saveEnable"}]
      BY <1>1, <1>3 DEF TypeOK
    <2> QED
      BY <1>1, <1>3, <2>4, <2>5, <2>6 DEF TypeOK
  <1>6. JobFitsStep(r)'
    BY <1>1, <1>3 DEF TypeOK, JobFitsStep
  <1>7. CopyFitsStore(r)'
    <2>1. Own(r)' = Own(r) /\ pc'[r] = "save"
      BY <1>1, <1>3 DEF Own, TypeOK
    <2> QED
      BY <1>1, <1>2, <1>3, <1>4, <2>1 DEF TypeOK, DocsOK, CopyFitsStore, AgreesWith
  <1>8. \A q \in Requests \ {r} : Untouched(q)
    BY <1>1, <1>3, <1>4 DEF TypeOK, Untouched
  <1> QED
    BY <1>1, <1>3, <1>5, <1>6, <1>7, <1>8 DEF Acted, DocsOK

LEMMA ReadForEnableActs ==
    ASSUME IInv, NEW r \in Requests, ReadForEnable(r)
    PROVE  Acted(r) /\ UNCHANGED docs
  <1>1. TypeOK /\ DocsOK /\ job[r] \in EnableJob /\ cur[r] \in Codes
    BY DEF IInv, TypeOK, DocsOK, ReadForEnable, JobFitsStep
  <1>2. UNCHANGED <<docs, job, todo, cur, fresh, saved>>
    BY DEF ReadForEnable
  <1>3. \/ /\ HasVersion(Own(r), job[r].version)
           /\ copy' = [copy EXCEPT ![r] = docs[Own(r)]]
           /\ pc' = [pc EXCEPT ![r] = "saveEnable"]
        \/ /\ pc' = [pc EXCEPT ![r] = "notFound"]
           /\ UNCHANGED copy
    BY DEF ReadForEnable
  <1>4. TypeOK'
    BY <1>1, <1>2, <1>3 DEF TypeOK, HasVersion, Answers
  <1>5. JobFitsStep(r)'
    BY <1>1, <1>2, <1>3 DEF TypeOK, JobFitsStep
  <1>6. CopyFitsStore(r)'
    <2>1. Own(r)' = Own(r) /\ pc'[r] \in {"saveEnable", "notFound"}
      BY <1>1, <1>2, <1>3 DEF Own, TypeOK
    <2> QED
      BY <1>1, <1>2, <1>3, <2>1
      DEF TypeOK, DocsOK, CopyFitsStore, AgreesWith, HasVersion
  <1>7. \A q \in Requests \ {r} : Untouched(q)
    BY <1>1, <1>2, <1>3 DEF TypeOK, Untouched
  <1> QED
    BY <1>1, <1>2, <1>4, <1>5, <1>6, <1>7 DEF Acted, DocsOK

LEMMA SaveRefusedActs ==
    ASSUME IInv, NEW r \in Requests, SaveRefused(r)
    PROVE  Acted(r) /\ UNCHANGED docs
  <1>1. TypeOK /\ DocsOK
    BY DEF IInv, TypeOK, DocsOK
  <1>2. /\ UNCHANGED <<docs, job, todo, cur, copy, fresh, saved>>
        /\ pc' = [pc EXCEPT ![r] = "conflict"]
    BY DEF SaveRefused
  <1>3. TypeOK'
    BY <1>1, <1>2 DEF TypeOK, Answers
  <1>4. JobFitsStep(r)' /\ CopyFitsStore(r)'
    BY <1>1, <1>2 DEF TypeOK, JobFitsStep, CopyFitsStore
  <1>5. \A q \in Requests \ {r} : Untouched(q)
    BY <1>1, <1>2 DEF TypeOK, Untouched
  <1> QED
    BY <1>1, <1>2, <1>3, <1>4, <1>5 DEF Acted, DocsOK
(***************************************************************************)
(* The three steps that write a document.                                  *)
(***************************************************************************)
LEMMA SaveUpdateActs ==
    ASSUME IInv, NEW r \in Requests, SaveNew(r) \/ SaveExisting(r)
    PROVE  Acted(r) /\ \E d : GoodWrite(Own(r), d)
  <1>1. /\ TypeOK /\ job[r] \in UpdateJob /\ cur[r] \in Codes
        /\ IsDoc(copy[r]) /\ WellVersioned(copy[r])
    BY DEF IInv, TypeOK, SaveNew, SaveExisting, JobFitsStep, CopyFitsStore
  <1>2. PICK d : GoodWrite(Own(r), d)
    BY SaveNewWrites, SaveExistingWrites
  <1>3. DocsOK'
    BY <1>2, GoodWriteKeepsDocs
  <1>4. /\ UNCHANGED <<job, cur, copy, fresh>>
        /\ NextIteration(r)
        /\ saved' = [saved EXCEPT ![r] = @ \cup {<<cur[r], SubmittedId(copy[r])>>}]
    BY DEF SaveNew, SaveExisting
  <1>5. SubmittedId(copy[r]) \in Nat
    BY <1>1, UpdatedIsDoc
  <1>6. /\ todo' = [todo EXCEPT ![r] = todo[r] \ {cur[r]}]
        /\ \E next \in {"ok", "resolve"} : pc' = [pc EXCEPT ![r] = next]
    BY <1>4 DEF NextIteration
  <1>7. TypeOK'
    <2>1. saved' \in [Requests -> SUBSET (Codes \X Nat)]
      BY <1>1, <1>4, <1>5 DEF TypeOK
    <2>2. todo' \in [Requests -> SUBSET Codes]
      BY <1>1, <1>6 DEF TypeOK
    <2>3. pc' \in [Requests -> Answers \cup
                     {"idle", "resolve", "ensure", "save", "enable", "saveEnable"}]
      BY <1>1, <1>6 DEF TypeOK, Answers
    <2> QED
      BY <1>1, <1>3, <1>4, <2>1, <2>2, <2>3 DEF TypeOK, DocsOK
  <1>8. JobFitsStep(r)' /\ CopyFitsStore(r)'
    BY <1>1, <1>4, <1>6 DEF TypeOK, JobFitsStep, CopyFitsStore
  <1>9. \A q \in Requests \ {r} : Untouched(q)
    BY <1>1, <1>4, <1>6 DEF TypeOK, Untouched
  <1> QED
    BY <1>2, <1>3, <1>7, <1>8, <1>9 DEF Acted

LEMMA SaveEnabledActs ==
    ASSUME IInv, NEW r \in Requests, SaveEnabled(r)
    PROVE  Acted(r) /\ \E d : GoodWrite(Own(r), d)
  <1>1. TypeOK
    BY DEF IInv
  <1>2. PICK d : GoodWrite(Own(r), d)
    BY SaveEnabledWrites
  <1>3. DocsOK'
    BY <1>2, GoodWriteKeepsDocs
  <1>4. UNCHANGED <<job, todo, cur, copy, fresh, saved>> /\ pc' = [pc EXCEPT ![r] = "ok"]
    BY DEF SaveEnabled
  <1>5. TypeOK'
    BY <1>1, <1>3, <1>4 DEF TypeOK, DocsOK, Answers
  <1>6. JobFitsStep(r)' /\ CopyFitsStore(r)'
    BY <1>1, <1>4 DEF TypeOK, JobFitsStep, CopyFitsStore
  <1>7. \A q \in Requests \ {r} : Untouched(q)
    BY <1>1, <1>4 DEF TypeOK, Untouched
  <1> QED
    BY <1>2, <1>3, <1>5, <1>6, <1>7 DEF Acted

\* A step either reads, and leaves the documents alone, or writes one of them.
LEMMA StepActs ==
    ASSUME IInv, NEW r \in Requests, Start(r) \/ Advance(r)
    PROVE  Acted(r) /\ (UNCHANGED docs \/ \E d : GoodWrite(Own(r), d))
  BY StartActs, ResolveActs, EnsureActs, ReadForEnableActs, SaveRefusedActs,
     SaveUpdateActs, SaveEnabledActs
  DEF Advance

LEMMA NextKeepsIInv == IInv /\ [Next]_vars => IInv'
  <1> SUFFICES ASSUME IInv, [Next]_vars PROVE IInv'
    OBVIOUS
  <1>1. ASSUME NEW r \in Requests, Start(r) \/ Advance(r)
        PROVE  IInv'
    <2>1. Acted(r) /\ (UNCHANGED docs \/ \E d : GoodWrite(Own(r), d))
      BY <1>1, StepActs
    <2>2. ASSUME NEW q \in Requests \ {r}
          PROVE  JobFitsStep(q)' /\ CopyFitsStore(q)'
      <3>1. Untouched(q)
        BY <2>1 DEF Acted
      <3>2. CASE UNCHANGED docs
        BY <3>1, <3>2, ReadKeepsCopies
      <3>3. CASE \E d : GoodWrite(Own(r), d)
        BY <3>1, <3>3, GoodWriteKeepsCopies
      <3> QED
        BY <2>1, <3>2, <3>3
    <2> QED
      BY <2>1, <2>2 DEF Acted, DocsOK, IInv
  <1>2. CASE UNCHANGED vars
    BY <1>2 DEF vars, IInv, TypeOK, JobFitsStep, CopyFitsStore, Own
  <1> QED
    BY <1>1, <1>2 DEF Next, Finished

THEOREM IInvHolds == Spec => []IInv
  BY InitIInv, NextKeepsIInv, PTL DEF Spec

-----------------------------------------------------------------------------
(***************************************************************************)
(* Every variable keeps its type, for any number of requests and codes.    *)
(***************************************************************************)
THEOREM TypeCorrect == Spec => []TypeOK
  <1>1. IInv => TypeOK
    BY DEF IInv
  <1> QED
    BY <1>1, IInvHolds, PTL

(***************************************************************************)
(* Version 0 of a document is never removed and never gets another         *)
(* scorecard, whatever requests run at the same time.                      *)
(***************************************************************************)
LEMMA StepKeepsBaseVersion == IInv /\ [Next]_vars => [KeepsBaseVersion]_vars
  <1> SUFFICES ASSUME IInv, Next
               PROVE  KeepsBaseVersion \/ UNCHANGED vars
    OBVIOUS
  <1>1. ASSUME NEW r \in Requests, Start(r) \/ Advance(r),
               NEW k \in DOMAIN docs, DOMAIN docs[k].versions # {}
        PROVE  /\ k \in DOMAIN docs'
               /\ 0 \in DOMAIN docs[k].versions \cap DOMAIN docs'[k].versions
               /\ docs'[k].versions[0].scorecard = docs[k].versions[0].scorecard
    <2>1. UNCHANGED docs \/ \E d : GoodWrite(Own(r), d)
      BY <1>1, StepActs
    <2>2. 0 \in DOMAIN docs[k].versions
      BY <1>1 DEF IInv, WellVersioned
    <2>3. CASE UNCHANGED docs
      BY <2>2, <2>3
    <2>4. ASSUME NEW d, GoodWrite(Own(r), d)
          PROVE  /\ k \in DOMAIN docs'
                 /\ 0 \in DOMAIN docs'[k].versions
                 /\ docs'[k].versions[0].scorecard = docs[k].versions[0].scorecard
      <3>1. CASE k = Own(r)
        BY <1>1, <2>4, <3>1 DEF GoodWrite, Write, WellVersioned, BaseScorecard
      <3>2. CASE k # Own(r)
        BY <2>2, <2>4, <3>2 DEF GoodWrite, Write
      <3> QED
        BY <3>1, <3>2
    <2> QED
      BY <2>1, <2>2, <2>3, <2>4
  <1> QED
    BY <1>1 DEF Next, Finished, KeepsBaseVersion

THEOREM BaseVersionIsKept == Spec => BaseVersionKept
  BY StepKeepsBaseVersion, IInvHolds, PTL DEF Spec, BaseVersionKept

(***************************************************************************)
(* What is going to be version 0 of a document that is not there yet: the  *)
(* seed of an update is the default as it still is, unless the tenant has  *)
(* got its document since.                                                 *)
(***************************************************************************)
SeedFits(r) ==
    Default \notin Tenants /\ Own(r) \notin DOMAIN docs =>
        /\ pc[r] = "ensure" =>
              <<cur[r], Default>> \in DOMAIN docs /\ copy[r] = docs[<<cur[r], Default>>]
        /\ pc[r] = "save" =>
              /\ <<cur[r], Default>> \in DOMAIN docs
              /\ copy[r].scorecard = docs[<<cur[r], Default>>].scorecard

Seeds == \A r \in Requests : SeedFits(r)

\* No request of a tenant writes the default another one starts from.
LEMMA DefaultStays ==
    ASSUME NEW c, Default \notin Tenants, <<c, Default>> \in DOMAIN docs,
           UNCHANGED docs \/ \E k, d : GoodWrite(k, d)
    PROVE  <<c, Default>> \in DOMAIN docs' /\ docs'[<<c, Default>>] = docs[<<c, Default>>]
  <1> DEFINE x == <<c, Default>>
  <1>1. ASSUME NEW k, NEW d, GoodWrite(k, d)
        PROVE  x \in DOMAIN docs' /\ docs'[x] = docs[x]
    <2>1. k # x
      BY <1>1 DEF GoodWrite
    <2>2. x \in DOMAIN docs
      OBVIOUS
    <2> HIDE DEF x
    <2> QED
      BY <1>1, <2>1, <2>2 DEF GoodWrite, Write
  <1> QED
    BY <1>1

\* A request that does not move keeps its seed, whatever is written.
LEMMA RestKeepsSeed ==
    ASSUME NEW q \in Requests, SeedFits(q), Untouched(q),
           UNCHANGED docs \/ \E k, d : GoodWrite(k, d)
    PROVE  SeedFits(q)'
  <1>1. Own(q)' = Own(q) /\ pc'[q] = pc[q] /\ cur'[q] = cur[q] /\ copy'[q] = copy[q]
    BY DEF Untouched, Own
  <1>2. DOMAIN docs \subseteq DOMAIN docs'
    BY DEF GoodWrite, Write
  <1>3. SUFFICES ASSUME Default \notin Tenants, Own(q) \notin DOMAIN docs,
                        pc[q] \in {"ensure", "save"}
                 PROVE  SeedFits(q)'
    BY <1>1, <1>2 DEF SeedFits
  <1>4. <<cur[q], Default>> \in DOMAIN docs
    BY <1>3 DEF SeedFits
  <1>5. <<cur[q], Default>> \in DOMAIN docs' /\ docs'[<<cur[q], Default>>] = docs[<<cur[q], Default>>]
    BY <1>3, <1>4, DefaultStays
  <1> QED
    BY <1>1, <1>3, <1>5 DEF SeedFits

LEMMA ActsKeepsSeed ==
    ASSUME IInv, NEW r \in Requests, SeedFits(r), Start(r) \/ Advance(r)
    PROVE  SeedFits(r)'
  <1>1. TypeOK
    BY DEF IInv
  <1>2. CASE Start(r)
    BY <1>1, <1>2 DEF Start, TypeOK, SeedFits
  <1>3. CASE Resolve(r)
    <2>1. CASE pc'[r] = "notFound"
      BY <2>1 DEF SeedFits
    <2>2. CASE pc'[r] # "notFound"
      <3> DEFINE t == job[r].tenant
      <3>1. PICK c \in NextCodes(r) :
              /\ cur' = [cur EXCEPT ![r] = c] /\ Effective(c, t) # {}
              /\ copy' = [copy EXCEPT ![r] =
                    docs[IF <<c, t>> \in Effective(c, t) THEN <<c, t>> ELSE <<c, Default>>]]
              /\ pc' = [pc EXCEPT ![r] = "ensure"]
        BY <1>1, <1>3, <2>2 DEF Resolve, TypeOK
      <3>2. /\ cur'[r] = c /\ pc'[r] = "ensure" /\ docs' = docs /\ job' = job
            /\ copy'[r] = docs[IF <<c, t>> \in Effective(c, t) THEN <<c, t>> ELSE <<c, Default>>]
        BY <1>1, <1>3, <3>1 DEF Resolve, TypeOK
      <3>3. Own(r)' = <<c, t>>
        BY <3>2 DEF Own
      <3> QED
        BY <3>1, <3>2, <3>3 DEF SeedFits, Effective
    <2> QED
      BY <2>1, <2>2
  <1>4. CASE Ensure(r)
    <2>1. /\ pc[r] = "ensure" /\ pc'[r] = "save" /\ docs' = docs /\ cur' = cur
          /\ Own(r)' = Own(r)
          /\ Own(r) \notin DOMAIN docs => copy'[r] = CloneOf(copy[r])
      BY <1>1, <1>4 DEF Ensure, TypeOK, Own
    <2> QED
      BY <2>1 DEF SeedFits, CloneOf
  <1>5. CASE SaveNew(r) \/ SaveExisting(r)
    <2>1. pc'[r] \in {"ok", "resolve"}
      BY <1>1, <1>5 DEF SaveNew, SaveExisting, NextIteration, TypeOK
    <2> QED
      BY <2>1 DEF SeedFits
  <1>6. CASE SaveRefused(r) \/ ReadForEnable(r) \/ SaveEnabled(r)
    <2>1. pc'[r] \in {"conflict", "saveEnable", "notFound", "ok"}
      BY <1>1, <1>6 DEF SaveRefused, ReadForEnable, SaveEnabled, TypeOK
    <2> QED
      BY <2>1 DEF SeedFits
  <1> QED
    BY <1>2, <1>3, <1>4, <1>5, <1>6 DEF Advance

LEMMA SeedsKept == IInv /\ Seeds /\ [Next]_vars => Seeds'
  <1> SUFFICES ASSUME IInv, Seeds, [Next]_vars, NEW q \in Requests PROVE SeedFits(q)'
    BY DEF Seeds
  <1>1. CASE UNCHANGED vars
    BY <1>1 DEF vars, Seeds, SeedFits, Own
  <1>2. ASSUME NEW r \in Requests, Start(r) \/ Advance(r) PROVE SeedFits(q)'
    <2>1. Acted(r) /\ (UNCHANGED docs \/ \E d : GoodWrite(Own(r), d))
      BY <1>2, StepActs
    <2>2. CASE q = r
      BY <1>2, <2>2, ActsKeepsSeed DEF Seeds
    <2>3. CASE q # r
      <3>1. Untouched(q) /\ SeedFits(q)
        BY <2>1, <2>3 DEF Acted, Seeds
      <3> QED
        BY <2>1, <3>1, RestKeepsSeed
    <2> QED
      BY <2>2, <2>3
  <1> QED
    BY <1>1, <1>2 DEF Next, Finished

\* The write of a first version keeps what was served.
LEMMA StepKeepsServed ==
    IInv /\ Seeds /\ [Next]_vars => [Default \notin Tenants => FirstVersionKeepsServed]_vars
  <1> SUFFICES ASSUME IInv, Seeds, Next, Default \notin Tenants
               PROVE  FirstVersionKeepsServed \/ UNCHANGED vars
    OBVIOUS
  <1>1. ASSUME NEW r \in Requests, Start(r) \/ Advance(r),
               NEW k \in DOMAIN docs', Uncustomised(k), DOMAIN docs'[k].versions # {}
        PROVE  docs'[k].versions[0].scorecard = Served(k)
    <2>1. UNCHANGED docs \/ \E d : GoodWrite(Own(r), d)
      BY <1>1, StepActs
    <2>2. CASE k \in DOMAIN docs
      <3>1. BaseScorecard(docs[k]) = docs[k].scorecard /\ Served(k) = docs[k].scorecard
        BY <1>1, <2>2 DEF Uncustomised, BaseScorecard, Served
      <3>2. BaseScorecard(docs'[k]) = BaseScorecard(docs[k])
        BY <2>1, <2>2 DEF GoodWrite, Write
      <3> QED
        BY <1>1, <3>1, <3>2 DEF BaseScorecard
    <2>3. CASE k \notin DOMAIN docs
      <3>1. k = Own(r) /\ docs' # docs
        BY <1>1, <2>1, <2>3 DEF GoodWrite, Write
      <3>2. SaveNew(r)
        <4>1. CASE SaveExisting(r) \/ SaveEnabled(r)
          BY <2>3, <3>1, <4>1 DEF IInv, CopyFitsStore, SaveExisting, SaveEnabled
        <4>2. CASE Start(r) \/ Resolve(r) \/ Ensure(r) \/ SaveRefused(r) \/ ReadForEnable(r)
          BY <3>1, <4>2 DEF Start, Resolve, Ensure, SaveRefused, ReadForEnable
        <4> QED
          BY <1>1, <4>1, <4>2 DEF Advance
      <3>3. /\ IsDoc(copy[r]) /\ WellVersioned(copy[r]) /\ DOMAIN copy[r].versions = {}
            /\ job[r] \in UpdateJob
        BY <3>2 DEF IInv, SaveNew, CopyFitsStore, JobFitsStep
      <3>4. docs'[k] = Updated(copy[r], r)
        BY <3>1, <3>2 DEF SaveNew, Write
      <3>5. BaseScorecard(docs'[k]) = copy[r].scorecard
        BY <3>3, <3>4, UpdatedIsDoc DEF BaseScorecard
      <3>6. copy[r].scorecard = docs[<<cur[r], Default>>].scorecard
        BY <2>3, <3>1, <3>2 DEF Seeds, SeedFits, SaveNew
      <3>7. Served(k) = docs[<<cur[r], Default>>].scorecard
        BY <2>3, <3>1 DEF Served, Own
      <3> QED
        BY <1>1, <3>5, <3>6, <3>7 DEF BaseScorecard
    <2> QED
      BY <2>2, <2>3
  <1>2. CASE \E r \in Requests : Start(r) \/ Advance(r)
    BY <1>1, <1>2 DEF FirstVersionKeepsServed
  <1> QED
    BY <1>2 DEF Next, Finished

(***************************************************************************)
(* THEOREM: the first version a tenant gets of a scorecard is kept beside  *)
(* the one it was served until then, however requests interleave, as long  *)
(* as the default it may come from is not customised itself.               *)
(***************************************************************************)
THEOREM ServedStaysRestorable == Spec => ServedIsRestorable
  <1>1. Init => Seeds
    BY DEF Init, Seeds, SeedFits
  <1> QED
    BY <1>1, SeedsKept, StepKeepsServed, IInvHolds, PTL DEF Spec, ServedIsRestorable

-----------------------------------------------------------------------------
(***************************************************************************)
(* What a request has saved, against what it still has to do.  An answer   *)
(* is right because the loop is: the selected code comes first, a code is  *)
(* crossed out when its version is saved, and at every await of the loop   *)
(* there is a code left.                                                   *)
(***************************************************************************)
SavesFitStep(r) ==
    /\ pc[r] \in {"idle", "enable", "saveEnable"} => saved[r] = {}
    /\ pc[r] \in {"enable", "saveEnable"} => job[r] \in EnableJob
    /\ pc[r] \in {"resolve", "ensure", "save"} =>
          /\ job[r] \in UpdateJob /\ todo[r] # {}
          /\ job[r].code \in todo[r] => saved[r] = {}
    /\ pc[r] \in {"ensure", "save"} => cur[r] \in NextCodes(r)
    /\ pc[r] # "idle" /\ job[r] \in UpdateJob =>
          /\ SavedCodes(r) \cap todo[r] = {}
          /\ SavedCodes(r) \cup todo[r] = job[r].affected
          /\ pc[r] = "ok" => todo[r] = {}
          /\ pc[r] \in {"notFound", "conflict"} => todo[r] # {}
    /\ saved[r] # {} => job[r].code \in SavedCodes(r)
    /\ \A s, t \in saved[r] : s[1] = t[1] => s = t

LEMMA JobsApart == UpdateJob \cap EnableJob = {}
  BY DEF UpdateJob, EnableJob

\* Steps that save nothing.
LEMMA LookFits ==
    ASSUME TypeOK, NEW r \in Requests, SavesFitStep(r),
           Start(r) \/ Resolve(r) \/ Ensure(r) \/ SaveRefused(r)
             \/ ReadForEnable(r) \/ SaveEnabled(r)
    PROVE  SavesFitStep(r)'
  <1>1. saved' = saved /\ SavedCodes(r)' = SavedCodes(r)
    BY DEF Start, Resolve, Ensure, SaveRefused, ReadForEnable, SaveEnabled, SavedCodes
  <1>2. CASE Start(r)
    <2>1. saved[r] = {} /\ SavedCodes(r) = {}
      BY <1>2 DEF Start, SavesFitStep, SavedCodes
    <2>2. CASE pc'[r] = "resolve"
      <3>1. PICK j \in UpdateJob :
                /\ job' = [job EXCEPT ![r] = j]
                /\ todo' = [todo EXCEPT ![r] = j.affected]
        BY <1>2, <2>2 DEF Start, TypeOK
      <3>2. job'[r] = j /\ todo'[r] = j.affected /\ j.code \in j.affected
        BY <3>1 DEF TypeOK, UpdateJob
      <3>3. saved'[r] = {} /\ SavedCodes(r)' = {}
        BY <1>1, <2>1
      <3> QED
        BY <2>2, <3>2, <3>3 DEF SavesFitStep
    <2>3. CASE pc'[r] # "resolve"
      <3>1. pc'[r] = "enable" /\ job'[r] \in EnableJob
        BY <1>2, <2>3 DEF Start, TypeOK
      <3>2. saved'[r] = {} /\ SavedCodes(r)' = {}
        BY <1>1, <2>1
      <3>3. job'[r] \notin UpdateJob
        BY <3>1, JobsApart
      <3> QED
        BY <3>1, <3>2, <3>3 DEF SavesFitStep
    <2> QED
      BY <2>2, <2>3
  <1>3. CASE Resolve(r)
    <2>1. /\ job' = job /\ todo' = todo /\ pc[r] = "resolve"
          /\ pc'[r] \in {"ensure", "notFound"}
          /\ cur'[r] \in NextCodes(r)
      BY <1>3 DEF Resolve, TypeOK
    <2>2. NextCodes(r)' = NextCodes(r)
      BY <2>1 DEF NextCodes
    <2> QED
      BY <1>1, <2>1, <2>2 DEF SavesFitStep
  <1>4. CASE Ensure(r) \/ SaveRefused(r)
    <2>1. /\ job' = job /\ todo' = todo /\ cur' = cur
          /\ pc[r] \in {"ensure", "save"} /\ pc'[r] \in {"save", "conflict"}
      BY <1>4 DEF Ensure, SaveRefused, TypeOK
    <2>2. NextCodes(r)' = NextCodes(r)
      BY <2>1 DEF NextCodes
    <2> QED
      BY <1>1, <2>1, <2>2 DEF SavesFitStep
  <1>5. CASE ReadForEnable(r) \/ SaveEnabled(r)
    <2>1. /\ job' = job /\ todo' = todo
          /\ pc[r] \in {"enable", "saveEnable"} /\ pc'[r] \in {"saveEnable", "notFound", "ok"}
      BY <1>5 DEF ReadForEnable, SaveEnabled, TypeOK
    <2> QED
      BY <1>1, <2>1, JobsApart DEF SavesFitStep
  <1> QED
    BY <1>2, <1>3, <1>4, <1>5

\* A save crosses out the code it saved a version for.
LEMMA SaveFits ==
    ASSUME TypeOK, NEW r \in Requests, SavesFitStep(r), SaveNew(r) \/ SaveExisting(r)
    PROVE  SavesFitStep(r)'
  <1>1. /\ pc[r] = "save" /\ job' = job
        /\ saved'[r] = saved[r] \cup {<<cur[r], SubmittedId(copy[r])>>}
        /\ todo'[r] = todo[r] \ {cur[r]}
        /\ pc'[r] = IF todo[r] \ {cur[r]} = {} THEN "ok" ELSE "resolve"
    BY DEF SaveNew, SaveExisting, NextIteration, TypeOK
  <1>2. SavedCodes(r)' = SavedCodes(r) \cup {cur[r]}
    <2> DEFINE new == <<cur[r], SubmittedId(copy[r])>>
    <2>1. saved'[r] = saved[r] \cup {new} /\ new[1] = cur[r]
      BY <1>1
    <2> HIDE DEF new
    <2> QED
      BY <2>1 DEF SavedCodes
  <1>3. /\ job[r] \in UpdateJob /\ job[r].code \in job[r].affected
        /\ SavedCodes(r) \cap todo[r] = {} /\ SavedCodes(r) \cup todo[r] = job[r].affected
        /\ cur[r] \in NextCodes(r)
    BY <1>1 DEF SavesFitStep, UpdateJob
  <1>4. cur[r] \in todo[r] /\ (job[r].code \in todo[r] => cur[r] = job[r].code)
    BY <1>3 DEF NextCodes
  <1>5. job[r].code \in SavedCodes(r)' /\ job[r].code \notin todo'[r]
    BY <1>1, <1>2, <1>3, <1>4
  <1>6. SavedCodes(r)' \cap todo'[r] = {} /\ SavedCodes(r)' \cup todo'[r] = job[r].affected
    BY <1>1, <1>2, <1>3, <1>4
  <1>7. ASSUME NEW s \in saved'[r], NEW t \in saved'[r], s[1] = t[1] PROVE s = t
    <2> DEFINE new == <<cur[r], SubmittedId(copy[r])>>
    <2>1. \A x \in saved[r] : x[1] # cur[r]
      BY <1>3, <1>4 DEF SavedCodes
    <2>2. saved'[r] = saved[r] \cup {new} /\ new[1] = cur[r]
      BY <1>1
    <2>3. \A x, y \in saved[r] : x[1] = y[1] => x = y
      BY DEF SavesFitStep
    <2> HIDE DEF new
    <2> QED
      BY <1>7, <2>1, <2>2, <2>3
  <1>8. \/ pc'[r] = "ok" /\ todo'[r] = {}
        \/ pc'[r] = "resolve" /\ todo'[r] # {}
    BY <1>1
  <1> QED
    BY <1>1, <1>3, <1>5, <1>6, <1>7, <1>8 DEF SavesFitStep

(***************************************************************************)
(* THEOREM: an update answered 200 has saved one version for each of the   *)
(* codes that were affected when it began; one that failed halfway, for    *)
(* some of them but not all, the selected code among them.                 *)
(***************************************************************************)
THEOREM AnswersMatchSaves == Spec => []AnswerMatchesSaves
  <1> DEFINE Fit == \A r \in Requests : SavesFitStep(r)
  <1>1. Init => Fit
    <2>1. ASSUME Init, NEW r \in Requests PROVE SavesFitStep(r)
      BY <2>1 DEF Init, SavesFitStep, SavedCodes
    <2> QED
      BY <2>1
  <1>2. Fit /\ TypeOK /\ TypeOK' /\ [Next]_vars => Fit'
    <2> SUFFICES ASSUME Fit, TypeOK, TypeOK', [Next]_vars, NEW q \in Requests
                 PROVE  SavesFitStep(q)'
      OBVIOUS
    <2>1. ASSUME pc'[q] = pc[q], job'[q] = job[q], todo'[q] = todo[q],
                 cur'[q] = cur[q], saved'[q] = saved[q]
          PROVE  SavesFitStep(q)'
      BY <2>1 DEF SavesFitStep, SavedCodes, NextCodes
    <2>2. CASE UNCHANGED vars
      BY <2>1, <2>2 DEF vars
    <2>3. ASSUME NEW r \in Requests, Start(r) \/ Advance(r) PROVE SavesFitStep(q)'
      <3>1. CASE q = r
        BY <2>3, <3>1, LookFits, SaveFits DEF Advance
      <3>2. CASE q # r
        <4>1. /\ pc'[q] = pc[q] /\ job'[q] = job[q] /\ todo'[q] = todo[q]
              /\ cur'[q] = cur[q] /\ saved'[q] = saved[q]
          <5>1. CASE SaveNew(r) \/ SaveExisting(r)
            BY <3>2, <5>1 DEF SaveNew, SaveExisting, NextIteration, TypeOK
          <5>2. CASE Start(r)
            BY <3>2, <5>2 DEF Start, TypeOK
          <5>3. CASE Resolve(r) \/ Ensure(r) \/ SaveRefused(r)
                       \/ ReadForEnable(r) \/ SaveEnabled(r)
            BY <3>2, <5>3 DEF Resolve, Ensure, SaveRefused, ReadForEnable, SaveEnabled, TypeOK
          <5> QED
            BY <2>3, <5>1, <5>2, <5>3 DEF Advance
        <4> QED
          BY <2>1, <4>1
      <3> QED
        BY <3>1, <3>2
    <2> QED
      BY <2>2, <2>3 DEF Next, Finished
  <1>3. Fit => AnswerMatchesSaves
    <2> SUFFICES ASSUME Fit, NEW r \in Requests, job[r] \in UpdateJob
                 PROVE  /\ SavedCodes(r) \subseteq job[r].affected
                        /\ \A s, t \in saved[r] : s[1] = t[1] => s = t
                        /\ saved[r] # {} => job[r].code \in SavedCodes(r)
                        /\ pc[r] = "ok" => SavedCodes(r) = job[r].affected
                        /\ pc[r] \in {"notFound", "conflict"} => SavedCodes(r) # job[r].affected
      BY DEF AnswerMatchesSaves
    <2>1. SavesFitStep(r)
      OBVIOUS
    <2>2. CASE pc[r] = "idle"
      BY <2>1, <2>2 DEF SavesFitStep, SavedCodes
    <2>3. CASE pc[r] # "idle"
      <3>1. /\ SavedCodes(r) \cap todo[r] = {}
            /\ SavedCodes(r) \cup todo[r] = job[r].affected
            /\ pc[r] = "ok" => todo[r] = {}
            /\ pc[r] \in {"notFound", "conflict"} => todo[r] # {}
            /\ saved[r] # {} => job[r].code \in SavedCodes(r)
            /\ \A s, t \in saved[r] : s[1] = t[1] => s = t
        BY <2>1, <2>3 DEF SavesFitStep
      <3> QED
        BY <3>1
    <2> QED
      BY <2>2, <2>3
  <1> QED
    BY <1>1, <1>2, <1>3, TypeCorrect, PTL DEF Spec

-----------------------------------------------------------------------------
(***************************************************************************)
(* Requests one after another.  What is saved was computed from the        *)
(* document that is stored.                                                *)
(***************************************************************************)

\* What a document serves and keeps is the same but for its __v.
Same(d, n) ==
    d.scorecard = n.scorecard /\ d.versions = n.versions /\ d.metadata = n.metadata

\* A document that is made of another: its versions are still there.
Extends(n, d) ==
    /\ Whole(n)
    /\ \A id \in DOMAIN d.versions : id \in DOMAIN n.versions /\ n.versions[id] = d.versions[id]

\* A draft of it serves the same.
ServesSame(n, d) == ActiveVersion(n) = ActiveVersion(d) /\ n.scorecard = d.scorecard

LEMMA UpdatedExtends ==
    ASSUME NEW r \in Requests, job[r] \in UpdateJob,
           NEW d, IsDoc(d), WellVersioned(d), Whole(d)
    PROVE  /\ Extends(Updated(d, r), d)
           /\ SubmittedId(d) \in DOMAIN Updated(d, r).versions
           /\ Updated(d, r).versions[SubmittedId(d)] = [scorecard |-> job[r].need, by |-> r]
           /\ job[r].kind = "draft" => ServesSame(Updated(d, r), d)
  <1> DEFINE n == Updated(d, r)
             id == SubmittedId(d)
             N == NextVersionId(d)
  <1>1. N \in Nat /\ id \in {N, N + 1} /\ id \in Nat /\ n.metadata # None
    BY NextVersionIdIsNat, UpdatedIsDoc, NoneAssumption DEF SubmittedId
  <1>2. /\ \A k \in DOMAIN d.versions : k \in Nat /\ k < N
        /\ NeedsBaseVersion(d) => DOMAIN d.versions = {}
    BY DEF Whole, IsDoc, IsVersions, NeedsBaseVersion
  <1>3. /\ DOMAIN n.versions =
              DOMAIN d.versions \cup (IF NeedsBaseVersion(d) THEN {N} ELSE {}) \cup {id}
        /\ n.versions[id] = [scorecard |-> job[r].need, by |-> r]
    BY DEF Updated, VersionsAfterUpdate
  <1>4. \A k \in DOMAIN d.versions : k # id
    <2> HIDE DEF id, N
    <2> QED
      BY <1>1, <1>2
  <1>5. \A k \in DOMAIN d.versions : n.versions[k] = d.versions[k]
    BY <1>2, <1>4 DEF Updated, VersionsAfterUpdate
  <1>6. NextVersionId(n) = id + 1 /\ ActiveVersion(n) = ActiveAfterUpdate(d, r)
    BY <1>1 DEF NextVersionId, ActiveVersion, Updated, NextAfter
  <1>7. n.scorecard = IF job[r].kind = "publish" THEN job[r].need ELSE d.scorecard
    BY DEF Updated
  <1> HIDE DEF n, id, N
  <1>8. \A k \in DOMAIN n.versions : k < NextVersionId(n)
    BY <1>1, <1>2, <1>3, <1>6
  <1>9. ASSUME ActiveVersion(n) # None
        PROVE  ActiveVersion(n) \in DOMAIN n.versions
               /\ n.scorecard = n.versions[ActiveVersion(n)].scorecard
    <2>1. CASE job[r].kind = "publish"
      BY <1>3, <1>6, <1>7, <2>1 DEF ActiveAfterUpdate, id
    <2>2. CASE job[r].kind # "publish"
      <3>1. ActiveVersion(n) = ActiveVersion(d)
        BY <1>6, <2>2 DEF ActiveAfterUpdate
      <3>2. /\ ActiveVersion(d) \in DOMAIN d.versions
            /\ d.scorecard = d.versions[ActiveVersion(d)].scorecard
        BY <1>9, <3>1 DEF Whole
      <3> QED
        BY <1>3, <1>5, <1>7, <2>2, <3>1, <3>2
    <2> QED
      BY <2>1, <2>2
  <1>10. Extends(n, d)
    BY <1>3, <1>5, <1>8, <1>9 DEF Extends, Whole
  <1>11. job[r].kind = "draft" => ServesSame(n, d)
    BY <1>6, <1>7 DEF ServesSame, ActiveAfterUpdate
  <1> QED
    BY <1>3, <1>10, <1>11 DEF n, id

LEMMA EnabledExtends ==
    ASSUME NEW d, IsDoc(d), WellVersioned(d), Whole(d), NEW id \in DOMAIN d.versions
    PROVE  Extends(Enabled(d, id), d)
  <1> DEFINE n == Enabled(d, id)
  <1>1. /\ n.versions = d.versions /\ n.scorecard = d.versions[id].scorecard
        /\ n.metadata.next = NextVersionId(d) /\ n.metadata.active = id
        /\ n.metadata.action = "enable"
    BY DEF Enabled
  <1>2. n.metadata # None
    <2>1. n.metadata \in Metadata
      BY EnabledIsDoc, NextVersionIdIsNat DEF Enabled, Metadata, IsDoc, IsVersions
    <2> QED
      BY <2>1, NoneAssumption
  <1>3. NextVersionId(n) = NextVersionId(d) /\ ActiveVersion(n) = id
    BY <1>1, <1>2 DEF NextVersionId, ActiveVersion
  <1> HIDE DEF n
  <1> QED
    BY <1>1, <1>3 DEF Extends, Whole, n

\* A save of what was computed from the stored document stores it.
LEMMA MergedSame ==
    ASSUME NEW d, NEW n PROVE Same(Merged(d, d, n), n)
  BY DEF Merged, Pick, Same

LEMMA SameExtends ==
    ASSUME NEW d, NEW n, NEW m, Same(m, n), Extends(n, d)
    PROVE  Extends(m, d)
  BY DEF Same, Extends, Whole, NextVersionId, ActiveVersion, MaxVersion

\* A clone has no version and none that is active.
LEMMA CloneIsWhole ==
    ASSUME NEW d, IsDoc(d) PROVE Whole(CloneOf(d))
  <1>1. DOMAIN CloneOf(d).versions = {} /\ CloneOf(d).metadata.active = None
    BY DEF CloneOf, NoVersions
  <1> QED
    BY <1>1 DEF Whole, ActiveVersion

Alone(r) == \A q \in Requests : Running(q) => q = r

\* What is left to show of TurnInv when r has taken a step alone.
Went(r) ==
    /\ \A q \in Requests : q # r => pc'[q] = pc[q]
    /\ \A k \in DOMAIN docs' : Whole(docs'[k])
    /\ \A q \in Requests : Kept(q)'
    /\ Current(r)' /\ pc'[r] # "conflict"
    /\ DraftKeepsActive(r)

WholeDocs == \A k \in DOMAIN docs : Whole(docs[k])
AllKept == \A q \in Requests : Kept(q)

LEMMA ReadKeepsSaved ==
    ASSUME NEW q \in Requests, Kept(q), docs' = docs, job'[q] = job[q], saved'[q] = saved[q],
           pc'[q] = "idle" => pc[q] = "idle"
    PROVE  Kept(q)'
  BY DEF Kept

LEMMA WriteKeepsSaved ==
    ASSUME NEW q \in Requests, Kept(q), NEW k, NEW d, Write(k, d),
           k \in DOMAIN docs => Extends(d, docs[k]),
           job'[q] = job[q], saved'[q] = saved[q], pc'[q] = "idle" => pc[q] = "idle"
    PROVE  Kept(q)'
  <1>1. ASSUME NEW s \in saved[q], NEW x, x = <<s[1], job[q].tenant>>
        PROVE  /\ x \in DOMAIN docs' /\ s[2] \in DOMAIN docs'[x].versions
               /\ docs'[x].versions[s[2]] = [scorecard |-> job[q].need, by |-> q]
    <2>1. /\ x \in DOMAIN docs /\ s[2] \in DOMAIN docs[x].versions
          /\ docs[x].versions[s[2]] = [scorecard |-> job[q].need, by |-> q]
      BY <1>1 DEF Kept
    <2>2. CASE x = k
      BY <2>1, <2>2 DEF Write, Extends
    <2>3. CASE x # k
      BY <2>1, <2>3 DEF Write
    <2> QED
      BY <2>2, <2>3
  <1> QED
    BY <1>1 DEF Kept

\* The steps that save nothing.
LEMMA LookWent ==
    ASSUME IInv, WholeDocs, AllKept, NEW r \in Requests, Current(r),
           \/ Start(r) \/ Resolve(r) \/ Ensure(r) \/ SaveRefused(r) \/ ReadForEnable(r)
    PROVE  Went(r)
  <1>1. /\ TypeOK /\ JobFitsStep(r) /\ CopyFitsStore(r) /\ docs' = docs /\ saved' = saved
    BY DEF IInv, Start, Resolve, Ensure, SaveRefused, ReadForEnable
  <1>2. \A k \in DOMAIN docs' : Whole(docs'[k])
    BY <1>1 DEF WholeDocs
  <1>3. DraftKeepsActive(r)
    BY <1>1 DEF DraftKeepsActive
  <1>4. CASE Start(r)
    <2>1. /\ pc[r] = "idle" /\ pc'[r] \in {"resolve", "enable"}
          /\ \A q \in Requests : q # r => pc'[q] = pc[q] /\ job'[q] = job[q]
      BY <1>1, <1>4 DEF TypeOK, Start
    <2>2. Kept(r)'
      BY <1>1, <2>1 DEF AllKept, Kept
    <2>3. \A q \in Requests : Kept(q)'
      BY <1>1, <2>1, <2>2, ReadKeepsSaved DEF AllKept
    <2> QED
      BY <1>2, <1>3, <2>1, <2>3 DEF Went, Current
  <1>5. CASE ~Start(r)
    <2>1. job' = job
      BY <1>5 DEF Resolve, Ensure, SaveRefused, ReadForEnable
    <2>2. \A q \in Requests : q # r => pc'[q] = pc[q]
      BY <1>1, <1>5 DEF TypeOK, Resolve, Ensure, SaveRefused, ReadForEnable
    <2>3. pc'[r] # "idle"
      BY <1>1, <1>5 DEF TypeOK, Resolve, Ensure, SaveRefused, ReadForEnable
    <2>4. \A q \in Requests : Kept(q)'
      BY <1>1, <2>1, <2>2, <2>3, ReadKeepsSaved DEF AllKept
    <2>5. Current(r)' /\ pc'[r] # "conflict"
      <3>1. CASE Resolve(r)
        BY <1>1, <3>1 DEF TypeOK, Resolve, Current
      <3>2. CASE Ensure(r)
        <4>1. /\ pc[r] = "ensure" /\ pc'[r] = "save" /\ Own(r)' = Own(r)
              /\ \/ fresh'[r] = FALSE /\ copy'[r] = docs[Own(r)]
                 \/ fresh'[r] = TRUE /\ Own(r) \notin DOMAIN docs /\ copy'[r] = CloneOf(copy[r])
          BY <1>1, <3>2 DEF TypeOK, Ensure, Own
        <4>2. Whole(CloneOf(copy[r]))
          BY <1>1, <4>1, CloneIsWhole DEF CopyFitsStore
        <4> QED
          BY <1>1, <4>1, <4>2 DEF Current
      <3>3. CASE SaveRefused(r)
        BY <3>3 DEF SaveRefused, Current
      <3>4. CASE ReadForEnable(r)
        <4>1. /\ pc'[r] = "notFound" \/ (pc'[r] = "saveEnable" /\ copy'[r] = docs[Own(r)])
              /\ Own(r)' = Own(r)
          BY <1>1, <3>4 DEF TypeOK, ReadForEnable, Own
        <4> QED
          BY <1>1, <4>1 DEF Current
      <3> QED
        BY <1>5, <3>1, <3>2, <3>3, <3>4
    <2> QED
      BY <1>2, <1>3, <2>2, <2>4, <2>5 DEF Went
  <1> QED
    BY <1>4, <1>5

\* What an update saves: the document it read, or cloned, with its version.
Submits(r, d) ==
    /\ Write(Own(r), d) /\ Whole(d)
    /\ Own(r) \in DOMAIN docs => Extends(d, docs[Own(r)])
    /\ Own(r) \in DOMAIN docs /\ job[r].kind = "draft" => ServesSame(d, docs[Own(r)])
    /\ SubmittedId(copy[r]) \in DOMAIN d.versions
    /\ d.versions[SubmittedId(copy[r])] = [scorecard |-> job[r].need, by |-> r]

LEMMA SaveNewSubmits ==
    ASSUME IInv, NEW r \in Requests, Current(r), SaveNew(r)
    PROVE  Submits(r, Updated(copy[r], r))
  <1>1. /\ IsDoc(copy[r]) /\ WellVersioned(copy[r]) /\ Whole(copy[r]) /\ job[r] \in UpdateJob
    BY DEF IInv, SaveNew, Current, CopyFitsStore, JobFitsStep
  <1> QED
    BY <1>1, UpdatedExtends DEF SaveNew, Submits, Extends

LEMMA SaveExistingSubmits ==
    ASSUME IInv, WholeDocs, NEW r \in Requests, Current(r), SaveExisting(r)
    PROVE  Submits(r, Merged(docs[Own(r)], copy[r], Updated(copy[r], r)))
  <1> DEFINE d == docs[Own(r)]
             n == Updated(d, r)
             m == Merged(d, d, n)
  <1>1. /\ copy[r] = d /\ Own(r) \in DOMAIN docs /\ IsDoc(d) /\ WellVersioned(d)
        /\ Whole(d) /\ job[r] \in UpdateJob
    BY DEF IInv, TypeOK, WholeDocs, SaveExisting, Current, CopyFitsStore, JobFitsStep
  <1>2. Write(Own(r), m)
    BY <1>1 DEF SaveExisting
  <1>3. /\ Extends(n, d) /\ SubmittedId(d) \in DOMAIN n.versions
        /\ n.versions[SubmittedId(d)] = [scorecard |-> job[r].need, by |-> r]
        /\ job[r].kind = "draft" => ServesSame(n, d)
    BY <1>1, UpdatedExtends
  <1> HIDE DEF d, n
  <1>4. Same(m, n)
    BY MergedSame
  <1> HIDE DEF m
  <1>5. Extends(m, d) /\ m.versions = n.versions
    BY <1>3, <1>4, SameExtends DEF Same
  <1>6. job[r].kind = "draft" => ServesSame(m, d)
    BY <1>3, <1>4 DEF Same, ServesSame, ActiveVersion
  <1>7. Submits(r, m)
    BY <1>1, <1>2, <1>3, <1>5, <1>6 DEF Submits, Extends, d
  <1> QED
    BY <1>1, <1>7 DEF d, n, m

LEMMA SaveUpdateWent ==
    ASSUME IInv, WholeDocs, AllKept, NEW r \in Requests, Current(r),
           SaveNew(r) \/ SaveExisting(r)
    PROVE  Went(r)
  <1>1. PICK d : Submits(r, d)
    BY SaveNewSubmits, SaveExistingSubmits
  <1>2. /\ TypeOK /\ pc[r] = "save" /\ job' = job
        /\ saved'[r] = saved[r] \cup {<<cur[r], SubmittedId(copy[r])>>}
        /\ pc'[r] \in {"ok", "resolve"}
        /\ \A q \in Requests : q # r => pc'[q] = pc[q] /\ saved'[q] = saved[q]
    BY DEF IInv, TypeOK, SaveNew, SaveExisting, NextIteration
  <1>3. \A k \in DOMAIN docs' : Whole(docs'[k])
    BY <1>1 DEF WholeDocs, Submits, Write
  <1>4. \A q \in Requests : q # r => Kept(q)'
    BY <1>1, <1>2, WriteKeepsSaved DEF AllKept, Submits
  <1>5. Kept(r)'
    <2>1. ASSUME NEW s \in saved[r], NEW x, x = <<s[1], job[r].tenant>>
          PROVE  /\ x \in DOMAIN docs' /\ s[2] \in DOMAIN docs'[x].versions
                 /\ docs'[x].versions[s[2]] = [scorecard |-> job[r].need, by |-> r]
      <3>1. /\ x \in DOMAIN docs /\ s[2] \in DOMAIN docs[x].versions
            /\ docs[x].versions[s[2]] = [scorecard |-> job[r].need, by |-> r]
        BY <2>1 DEF AllKept, Kept
      <3>2. CASE x = Own(r)
        BY <1>1, <3>1, <3>2 DEF Submits, Write, Extends
      <3>3. CASE x # Own(r)
        BY <1>1, <3>1, <3>3 DEF Submits, Write
      <3> QED
        BY <3>2, <3>3
    <2>2. /\ Own(r) \in DOMAIN docs' /\ SubmittedId(copy[r]) \in DOMAIN docs'[Own(r)].versions
          /\ docs'[Own(r)].versions[SubmittedId(copy[r])] = [scorecard |-> job[r].need, by |-> r]
      BY <1>1 DEF Submits, Write
    <2> DEFINE new == <<cur[r], SubmittedId(copy[r])>>
    <2>3. <<new[1], job[r].tenant>> = Own(r) /\ new[2] = SubmittedId(copy[r])
      BY DEF Own
    <2> HIDE DEF new
    <2>4. ASSUME NEW s \in saved'[r], NEW x, x = <<s[1], job[r].tenant>>
          PROVE  /\ x \in DOMAIN docs' /\ s[2] \in DOMAIN docs'[x].versions
                 /\ docs'[x].versions[s[2]] = [scorecard |-> job[r].need, by |-> r]
      <3>1. s \in saved[r] \/ s = new
        BY <1>2, <2>4 DEF new
      <3> QED
        BY <2>1, <2>2, <2>3, <2>4, <3>1
    <2> QED
      BY <1>2, <2>4 DEF Kept
  <1>6. DraftKeepsActive(r)
    BY <1>1 DEF DraftKeepsActive, SavesDraft, Submits, Write, ServesSame
  <1> QED
    BY <1>2, <1>3, <1>4, <1>5, <1>6 DEF Went, Current

LEMMA SaveEnabledWent ==
    ASSUME IInv, WholeDocs, AllKept, NEW r \in Requests, Current(r), SaveEnabled(r)
    PROVE  Went(r)
  <1> DEFINE d == docs[Own(r)]
             n == Enabled(d, job[r].version)
             m == Merged(d, d, n)
  <1>1. /\ TypeOK /\ copy[r] = d /\ Own(r) \in DOMAIN docs /\ IsDoc(d) /\ WellVersioned(d)
        /\ Whole(d) /\ job[r].version \in DOMAIN d.versions
    BY DEF IInv, TypeOK, WholeDocs, SaveEnabled, Current, CopyFitsStore
  <1>2. /\ pc[r] = "saveEnable" /\ pc'[r] = "ok" /\ job' = job /\ saved' = saved
        /\ \A q \in Requests : q # r => pc'[q] = pc[q]
    BY <1>1 DEF TypeOK, SaveEnabled
  <1>3. Write(Own(r), m)
    BY <1>1 DEF SaveEnabled
  <1>4. Extends(n, d)
    BY <1>1, EnabledExtends
  <1> HIDE DEF d, n
  <1>5. Same(m, n)
    BY MergedSame
  <1> HIDE DEF m
  <1>6. Extends(m, d)
    BY <1>4, <1>5, SameExtends
  <1>7. \A k \in DOMAIN docs' : Whole(docs'[k])
    BY <1>3, <1>6 DEF WholeDocs, Write, Extends
  <1>8. \A q \in Requests : Kept(q)'
    BY <1>2, <1>3, <1>6, WriteKeepsSaved DEF AllKept, d
  <1> QED
    BY <1>2, <1>7, <1>8 DEF Went, Current, DraftKeepsActive, SavesDraft

\* In turn, a step is taken by a request that is alone.
TurnStep(r) == Alone(r) /\ Went(r)

LEMMA TurnSteps ==
    ASSUME IInv, TurnInv, inTurn, [TurnNext]_<<vars, inTurn>>
    PROVE  UNCHANGED vars \/ \E r \in Requests : TurnStep(r)
  <1>1. WholeDocs /\ AllKept /\ \A r \in Requests : Current(r)
    BY DEF TurnInv, WholeDocs, AllKept
  <1>2. ASSUME NEW r \in Requests, Advance(r) PROVE TurnStep(r)
    <2>1. Running(r)
      BY <1>2
      DEF Advance, Resolve, Ensure, SaveNew, SaveExisting, SaveRefused, ReadForEnable,
          SaveEnabled, Running, Answers
    <2> QED
      BY <1>1, <1>2, <2>1, LookWent, SaveUpdateWent, SaveEnabledWent
      DEF Advance, TurnInv, TurnStep, Alone
  <1>3. ASSUME NEW r \in Requests, Start(r), ~AnyRunning PROVE TurnStep(r)
    BY <1>1, <1>3, LookWent DEF TurnStep, Alone, AnyRunning
  <1> QED
    BY <1>2, <1>3 DEF TurnNext, Finished

LEMMA TurnInvKept == IInv /\ TurnInv /\ [TurnNext]_<<vars, inTurn>> => TurnInv'
  <1> SUFFICES ASSUME IInv, TurnInv, [TurnNext]_<<vars, inTurn>>, inTurn
               PROVE  TurnInv'
    BY DEF TurnInv, TurnNext
  <1>1. CASE UNCHANGED vars
    <2>1. \A r \in Requests : Current(r)' /\ Kept(r)'
      BY <1>1 DEF vars, TurnInv, Current, Kept, Own
    <2> QED
      BY <1>1, <2>1 DEF vars, TurnInv, Running
  <1>2. ASSUME NEW r \in Requests, TurnStep(r) PROVE TurnInv'
    <2>1. \A q \in Requests : q # r => ~Running(q) /\ pc'[q] = pc[q]
      BY <1>2 DEF TurnStep, Alone, Went
    <2>2. \A q \in Requests : q # r => ~Running(q)' /\ Current(q)' /\ pc'[q] # "conflict"
      BY <2>1 DEF Running, Current, Answers, TurnInv
    <2> QED
      BY <1>2, <2>2 DEF TurnInv, TurnStep, Went
  <1> QED
    BY <1>1, <1>2, TurnSteps

LEMMA TurnRefines == TurnSpec => Spec
  <1>1. TurnInit => Init
    BY DEF TurnInit
  <1>2. [TurnNext]_<<vars, inTurn>> => [Next]_vars
    BY DEF TurnNext, Next, vars
  <1> QED
    BY <1>1, <1>2, PTL DEF TurnSpec, Spec

(***************************************************************************)
(* THEOREM: when updates and enables come one after another, every version *)
(* that was saved is kept as submitted, the active version is the one that *)
(* is served, no save is refused, and a draft changes neither.             *)
(***************************************************************************)
THEOREM OneAtATimeIsRight == TurnSpec => RightInTurn
  <1>1. TurnInit => TurnInv
    <2> SUFFICES ASSUME Init PROVE TurnInv
      BY DEF TurnInit
    <2>1. \A r \in Requests : pc[r] = "idle" /\ saved[r] = {}
      BY DEF Init
    <2>2. ASSUME NEW k \in DOMAIN docs PROVE Whole(docs[k])
      <3>1. PICK n \in Needs, b \in BOOLEAN : docs[k] = Legacy(n, b)
        BY InitialDocsAssumption DEF Init, LegacyDocs
      <3>2. DOMAIN docs[k].versions = {} /\ docs[k].metadata = None
        BY <3>1 DEF Legacy, NoVersions
      <3> QED
        BY <3>2 DEF Whole, ActiveVersion
    <2> QED
      BY <2>1, <2>2 DEF TurnInv, Running, Current, Kept
  <1>2. TurnSpec => []IInv
    BY TurnRefines, IInvHolds, PTL
  <1>3. TurnSpec => []TurnInv
    BY <1>1, <1>2, TurnInvKept, PTL DEF TurnSpec
  <1>4. TurnInv => (inTurn => SavedVersionsKept /\ ServedIsActive /\ NoneRefused)
    BY DEF TurnInv, Kept, Whole, SavedVersionsKept, ServedIsActive, NoneRefused
  <1>5. IInv /\ TurnInv /\ [TurnNext]_<<vars, inTurn>> =>
            [inTurn => \A r \in Requests : DraftKeepsActive(r)]_vars
    <2> SUFFICES ASSUME IInv, TurnInv, inTurn, [TurnNext]_<<vars, inTurn>>
                 PROVE  UNCHANGED vars \/ \A r \in Requests : DraftKeepsActive(r)
      OBVIOUS
    <2>1. ASSUME NEW r \in Requests, TurnStep(r), NEW q \in Requests PROVE DraftKeepsActive(q)
      BY <2>1 DEF TurnStep, Went, DraftKeepsActive, SavesDraft
    <2> QED
      BY <2>1, TurnSteps
  <1> QED
    BY <1>2, <1>3, <1>4, <1>5, PTL DEF TurnSpec, RightInTurn

=============================================================================
