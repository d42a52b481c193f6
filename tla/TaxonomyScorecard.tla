-------------------------- MODULE TaxonomyScorecard --------------------------
(***************************************************************************)
(* The tenant customisation of ML taxonomy scorecards                      *)
(* (src/taxonomy-scorecard/taxonomy-scorecard.service.ts): updates that    *)
(* publish or draft a new version of a scorecard for one or several        *)
(* taxonomy codes, and the request that enables a saved version again.     *)
(*                                                                         *)
(* Every request is a process.  It reads a MongoDB document, computes the  *)
(* new one in memory and saves it: other requests run between any two of   *)
(* its awaits.  No request holds a lock or a transaction.                  *)
(*                                                                         *)
(* The scorecard of a document is abstracted to its "need" component, the  *)
(* only one an update changes; "source", e-mails and timestamps are left   *)
(* out, and a version entry carries the request that wrote it instead.     *)
(***************************************************************************)
EXTENDS Naturals, FiniteSets

CONSTANTS
    Requests,     \* the requests that clients may send, one call each
    Tenants,      \* the owners of customised scorecards
    Default,      \* the owner of the scorecards every tenant starts from
    Codes,        \* the taxonomy codes
    Needs,        \* the values of the "need" component
    Kinds,        \* the kinds of requests that are sent
    VersionIds,   \* the version ids a client may ask to enable
    InitialDocs,  \* the collections the program may be started on
    MaxInFlight,  \* how many requests may be running at once
    None          \* missing metadata, or no active version

ASSUME ScorecardAssumption ==
    /\ Kinds \subseteq {"publish", "draft", "enable"}
    /\ VersionIds \subseteq Nat
    /\ MaxInFlight \in Nat \ {0}

VARIABLES
    docs,    \* docs[c, o]: the document <code>::<owner>, where there is one
    pc,      \* pc[r]: the next step of request r, or its answer
    job,     \* job[r]: what the client asked for
    todo,    \* todo[r]: the codes the loop of an update still has to visit
    cur,     \* cur[r]: the code being visited
    copy,    \* copy[r]: the document read into memory
    fresh,   \* fresh[r]: the document in memory was never saved
    saved    \* saved[r]: the versions request r saved, as <<code, id>>

vars == <<docs, pc, job, todo, cur, copy, fresh, saved>>

Owners  == Tenants \cup {Default}
Answers == {"ok", "notFound", "conflict"}

Entry    == [scorecard : Needs, by : Requests]
Metadata == [next : Nat, active : Nat \cup {None}, action : {"update", "enable"}]

ASSUME NoneAssumption == None \notin Metadata

IsVersions(f) == DOMAIN f \subseteq Nat /\ f \in [DOMAIN f -> Entry]

NoVersions == [k \in {} |-> None]

(***************************************************************************)
(* hasNeed: components_available contains 'need'.  v: Mongoose's __v.      *)
(***************************************************************************)
IsDoc(d) ==
    /\ d = [scorecard |-> d.scorecard, hasNeed |-> d.hasNeed,
            versions |-> d.versions, metadata |-> d.metadata, v |-> d.v]
    /\ d.scorecard \in Needs
    /\ d.hasNeed \in BOOLEAN
    /\ IsVersions(d.versions)
    /\ d.metadata \in Metadata \cup {None}
    /\ d.v \in Nat

(***************************************************************************)
(* affected: what resolveAffectedCodes returned, the code of the request   *)
(* and, when the client asks for them, codes the search index has for its  *)
(* children and siblings; an update answers with it.                       *)
(***************************************************************************)
UpdateJob ==
    {j \in [kind : Kinds \cap {"publish", "draft"}, tenant : Tenants,
            code : Codes, need : Needs, affected : SUBSET Codes] :
        j.code \in j.affected}
EnableJob == [kind : Kinds \cap {"enable"},
              tenant : Tenants, code : Codes, version : VersionIds]
Job == UpdateJob \cup EnableJob

(***************************************************************************)
(* A document written before versioning was introduced: neither versions   *)
(* nor version_metadata.                                                   *)
(***************************************************************************)
Legacy(need, hasNeed) ==
    [scorecard |-> need, hasNeed |-> hasNeed, versions |-> NoVersions,
     metadata |-> None, v |-> 0]

LegacyDocs == {Legacy(n, b) : n \in Needs, b \in BOOLEAN}

ASSUME InitialDocsAssumption ==
    InitialDocs \subseteq UNION {[S -> LegacyDocs] : S \in SUBSET (Codes \X Owners)}

Init ==
    /\ docs \in InitialDocs
    /\ pc = [r \in Requests |-> "idle"]
    /\ job = [r \in Requests |-> None]
    /\ todo = [r \in Requests |-> {}]
    /\ cur = [r \in Requests |-> None]
    /\ copy = [r \in Requests |-> None]
    /\ fresh = [r \in Requests |-> FALSE]
    /\ saved = [r \in Requests |-> {}]

-----------------------------------------------------------------------------
(* The computations on a document in memory. *)

MaxVersion(versions) ==
    CHOOSE m \in DOMAIN versions : \A k \in DOMAIN versions : k <= m

\* getNextVersionId: the stored counter wins over the keys of versions.
NextVersionId(d) ==
    IF d.metadata # None THEN d.metadata.next
    ELSE IF DOMAIN d.versions = {} THEN 0
    ELSE MaxVersion(d.versions) + 1

ActiveVersion(d) == IF d.metadata = None THEN None ELSE d.metadata.active

\* The scorecard a document had before its first version is itself kept.
NeedsBaseVersion(d) == DOMAIN d.versions = {} /\ ActiveVersion(d) = None

\* A slip: the submitted scorecard takes the id of the base version.
OverBase(d) == NextVersionId(d)
SubmittedId(d) ==
    IF NeedsBaseVersion(d) THEN NextVersionId(d) + 1 ELSE NextVersionId(d)

\* ensureTenantDocument: the unsaved tenant document cloned from a seed.
CloneOf(seed) ==
    [scorecard |-> seed.scorecard, hasNeed |-> seed.hasNeed,
     versions |-> NoVersions,
     metadata |-> [next |-> 0, active |-> None, action |-> "update"],
     v |-> 0]

\* A slip: the scorecard is replaced before it is kept as the base version.
KeepsSubmittedTwice(d, r) ==
    [k \in DOMAIN d.versions \cup {NextVersionId(d), SubmittedId(d)} |->
        IF k \in DOMAIN d.versions THEN d.versions[k]
        ELSE [scorecard |-> job[r].need, by |-> r]]

VersionsAfterUpdate(d, r) ==
    LET id   == SubmittedId(d)
        base == IF NeedsBaseVersion(d) THEN {NextVersionId(d)} ELSE {}
    IN  [k \in DOMAIN d.versions \cup base \cup {id} |->
            IF k = id THEN [scorecard |-> job[r].need, by |-> r]
            ELSE IF k \in base THEN [scorecard |-> d.scorecard, by |-> r]
            ELSE d.versions[k]]

\* The counter after an update.
NextAfter(id) == id + 1

\* The active version after an update; the slip: a draft becomes active.
DraftActivates(d, r) == SubmittedId(d)
ActiveAfterUpdate(d, r) ==
    IF job[r].kind = "publish" THEN SubmittedId(d) ELSE ActiveVersion(d)

Updated(d, r) ==
    [scorecard |-> IF job[r].kind = "publish" THEN job[r].need ELSE d.scorecard,
     hasNeed   |-> TRUE,
     versions  |-> VersionsAfterUpdate(d, r),
     metadata  |-> [next   |-> NextAfter(SubmittedId(d)),
                    active |-> ActiveAfterUpdate(d, r),
                    action |-> "update"],
     v         |-> d.v]

Enabled(d, version) ==
    [scorecard |-> d.versions[version].scorecard,
     hasNeed   |-> d.hasNeed,
     versions  |-> d.versions,
     metadata  |-> [next   |-> NextVersionId(d),
                    active |-> version,
                    action |-> "enable"],
     v         |-> d.v]

(***************************************************************************)
(* document.save() on a loaded document sends a $set of the paths whose    *)
(* value changed since it was read, and leaves the others as stored.  A    *)
(* $set of a whole array (components_available) also requires the stored   *)
(* __v to be the one read, and increments it; the other paths are not      *)
(* arrays and are written unconditionally.                                 *)
(***************************************************************************)
Pick(stored, read, new) == IF new = read THEN stored ELSE new

SetsArray(read, new) == new.hasNeed # read.hasNeed

Merged(stored, read, new) ==
    [scorecard |-> Pick(stored.scorecard, read.scorecard, new.scorecard),
     hasNeed   |-> Pick(stored.hasNeed, read.hasNeed, new.hasNeed),
     versions  |-> Pick(stored.versions, read.versions, new.versions),
     metadata  |-> Pick(stored.metadata, read.metadata, new.metadata),
     v         |-> IF SetsArray(read, new) THEN stored.v + 1 ELSE stored.v]

-----------------------------------------------------------------------------
(* The steps of a request. *)

Running(r) == pc[r] \notin Answers \cup {"idle"}

\* The _id <code>::<tenant>.
Own(r) == <<cur[r], job[r].tenant>>

Start(r) ==
    /\ pc[r] = "idle"
    /\ Cardinality({q \in Requests : Running(q)}) < MaxInFlight
    /\ \/ \E j \in UpdateJob :
            /\ job' = [job EXCEPT ![r] = j]
            /\ todo' = [todo EXCEPT ![r] = j.affected]
            /\ pc' = [pc EXCEPT ![r] = "resolve"]
            /\ UNCHANGED cur
       \/ \E j \in EnableJob :
            /\ job' = [job EXCEPT ![r] = j]
            /\ cur' = [cur EXCEPT ![r] = j.code]
            /\ pc' = [pc EXCEPT ![r] = "enable"]
            /\ UNCHANGED todo
    /\ UNCHANGED <<docs, copy, fresh, saved>>

\* The affected codes are a JavaScript Set: the selected code comes first,
\* then the others in the order the search index returned them.
NextCodes(r) == IF job[r].code \in todo[r] THEN {job[r].code} ELSE todo[r]

\* Where resolveEffectiveDocument finds a scorecard for a code and a tenant.
Effective(c, t) == {<<c, t>>, <<c, Default>>} \cap DOMAIN docs

\* The slip: a code without a configuration is passed over.
SkipsMissing(r) ==
    /\ pc[r] = "resolve"
    /\ \E c \in NextCodes(r) :
        LET readable == Effective(c, job[r].tenant)
            found    == IF <<c, job[r].tenant>> \in readable
                        THEN <<c, job[r].tenant>> ELSE <<c, Default>>
            rest     == todo[r] \ {c}
        IN  /\ cur' = [cur EXCEPT ![r] = c]
            /\ \/ /\ readable # {}
                  /\ copy' = [copy EXCEPT ![r] = docs[found]]
                  /\ pc' = [pc EXCEPT ![r] = "ensure"]
                  /\ UNCHANGED todo
               \/ /\ readable = {}
                  /\ todo' = [todo EXCEPT ![r] = rest]
                  /\ pc' = [pc EXCEPT ![r] = IF rest = {} THEN "ok" ELSE "resolve"]
                  /\ UNCHANGED copy
    /\ UNCHANGED <<docs, job, fresh, saved>>

(***************************************************************************)
(* resolveEffectiveDocument: the tenant's document, else the default one,  *)
(* else 404.  The two reads are one step, that of the second: documents    *)
(* are never removed, and one the tenant has got in between is read again  *)
(* by Ensure.                                                              *)
(***************************************************************************)
Resolve(r) ==
    /\ pc[r] = "resolve"
    /\ \E c \in NextCodes(r) :
        LET readable == Effective(c, job[r].tenant)
            found    == IF <<c, job[r].tenant>> \in readable
                        THEN <<c, job[r].tenant>> ELSE <<c, Default>>
        IN  /\ cur' = [cur EXCEPT ![r] = c]
            /\ \/ /\ readable # {}
                  /\ copy' = [copy EXCEPT ![r] = docs[found]]
                  /\ pc' = [pc EXCEPT ![r] = "ensure"]
               \/ /\ readable = {}
                  /\ pc' = [pc EXCEPT ![r] = "notFound"]
                  /\ UNCHANGED copy
    /\ UNCHANGED <<docs, job, todo, fresh, saved>>

\* ensureTenantDocument reads the tenant's document again, or clones the seed.
Ensure(r) ==
    /\ pc[r] = "ensure"
    /\ \/ /\ Own(r) \in DOMAIN docs
          /\ copy' = [copy EXCEPT ![r] = docs[Own(r)]]
          /\ fresh' = [fresh EXCEPT ![r] = FALSE]
       \/ /\ Own(r) \notin DOMAIN docs
          /\ copy' = [copy EXCEPT ![r] = CloneOf(copy[r])]
          /\ fresh' = [fresh EXCEPT ![r] = TRUE]
    /\ pc' = [pc EXCEPT ![r] = "save"]
    /\ UNCHANGED <<docs, job, todo, cur, saved>>

Write(k, d) ==
    docs' = [x \in DOMAIN docs \cup {k} |-> IF x = k THEN d ELSE docs[x]]

\* The loop goes on with the next code, or the update is answered.
NextIteration(r) ==
    LET rest == todo[r] \ {cur[r]}
    IN  /\ todo' = [todo EXCEPT ![r] = rest]
        /\ pc' = [pc EXCEPT ![r] = IF rest = {} THEN "ok" ELSE "resolve"]

\* save() of a document that was cloned: an insert, refused for a known _id.
SaveNew(r) ==
    /\ pc[r] = "save" /\ fresh[r]
    /\ Own(r) \notin DOMAIN docs
    /\ Write(Own(r), Updated(copy[r], r))
    /\ saved' = [saved EXCEPT ![r] = @ \cup {<<cur[r], SubmittedId(copy[r])>>}]
    /\ NextIteration(r)
    /\ UNCHANGED <<job, cur, copy, fresh>>

\* save() of a document that was read.
SaveExisting(r) ==
    LET new == Updated(copy[r], r) IN
    /\ pc[r] = "save" /\ ~fresh[r]
    /\ SetsArray(copy[r], new) => docs[Own(r)].v = copy[r].v
    /\ Write(Own(r), Merged(docs[Own(r)], copy[r], new))
    /\ saved' = [saved EXCEPT ![r] = @ \cup {<<cur[r], SubmittedId(copy[r])>>}]
    /\ NextIteration(r)
    /\ UNCHANGED <<job, cur, copy, fresh>>

\* A duplicate key or a version mismatch is not handled: it answers 500.  The
\* slip saves the same document again.
SavesAgain(r) ==
    /\ pc[r] = "save" /\ fresh[r] /\ Own(r) \in DOMAIN docs
    /\ UNCHANGED vars

SaveRefused(r) ==
    /\ pc[r] = "save"
    /\ \/ fresh[r] /\ Own(r) \in DOMAIN docs
       \/ /\ ~fresh[r]
          /\ SetsArray(copy[r], Updated(copy[r], r))
          /\ docs[Own(r)].v # copy[r].v
    /\ pc' = [pc EXCEPT ![r] = "conflict"]
    /\ UNCHANGED <<docs, job, todo, cur, copy, fresh, saved>>

\* The entry of versions that is asked for; the slip looks for a document only.
HasDocument(k, id) == k \in DOMAIN docs
HasVersion(k, id) == k \in DOMAIN docs /\ id \in DOMAIN docs[k].versions

\* Only the tenant's own document is looked at, never the default one.
ReadForEnable(r) ==
    /\ pc[r] = "enable"
    /\ \/ /\ HasVersion(Own(r), job[r].version)
          /\ copy' = [copy EXCEPT ![r] = docs[Own(r)]]
          /\ pc' = [pc EXCEPT ![r] = "saveEnable"]
       \/ /\ ~HasVersion(Own(r), job[r].version)
          /\ pc' = [pc EXCEPT ![r] = "notFound"]
          /\ UNCHANGED copy
    /\ UNCHANGED <<docs, job, todo, cur, fresh, saved>>

SaveEnabled(r) ==
    /\ pc[r] = "saveEnable"
    /\ Write(Own(r), Merged(docs[Own(r)], copy[r],
                            Enabled(copy[r], job[r].version)))
    /\ pc' = [pc EXCEPT ![r] = "ok"]
    /\ UNCHANGED <<job, todo, cur, copy, fresh, saved>>

Advance(r) ==
    \/ Resolve(r) \/ Ensure(r)
    \/ SaveNew(r) \/ SaveExisting(r) \/ SaveRefused(r)
    \/ ReadForEnable(r) \/ SaveEnabled(r)

\* Every request has been answered and no client sends another one.
Finished ==
    /\ \A r \in Requests : pc[r] \in Answers
    /\ UNCHANGED vars

Next == (\E r \in Requests : Start(r) \/ Advance(r)) \/ Finished

Spec == Init /\ [][Next]_vars

-----------------------------------------------------------------------------
(* Properties. *)

TypeOK ==
    /\ DOMAIN docs \subseteq Codes \X Owners
    /\ docs = [k \in DOMAIN docs |-> docs[k]]
    /\ \A k \in DOMAIN docs : IsDoc(docs[k])
    /\ pc \in [Requests -> Answers \cup
                  {"idle", "resolve", "ensure", "save", "enable", "saveEnable"}]
    /\ job \in [Requests -> Job \cup {None}]
    /\ todo \in [Requests -> SUBSET Codes]
    /\ cur \in [Requests -> Codes \cup {None}]
    /\ copy = [r \in Requests |-> copy[r]]
    /\ \A r \in Requests : copy[r] = None \/ IsDoc(copy[r])
    /\ fresh \in [Requests -> BOOLEAN]
    /\ saved \in [Requests -> SUBSET (Codes \X Nat)]

Versioned == {k \in DOMAIN docs : DOMAIN docs[k].versions # {}}

(***************************************************************************)
(* However requests interleave, the scorecard a document had before its    *)
(* first customisation stays restorable: once version 0 exists it is never *)
(* removed and never holds another scorecard.  Nothing locks the document: *)
(* a save writes the whole versions object from a copy that may be stale.  *)
(***************************************************************************)
KeepsBaseVersion ==
    \A k \in DOMAIN docs :
        DOMAIN docs[k].versions # {} =>
            /\ k \in DOMAIN docs'
            /\ 0 \in DOMAIN docs[k].versions \cap DOMAIN docs'[k].versions
            /\ docs'[k].versions[0].scorecard = docs[k].versions[0].scorecard
BaseVersionKept == [][KeepsBaseVersion]_vars

(***************************************************************************)
(* The first version a tenant gets of a scorecard is kept beside the one   *)
(* it was served until then, as version 0: its own or, before there was    *)
(* one, the default, although that was read several awaits before the      *)
(* clone is saved.  (A default that is itself customised may change then.) *)
(***************************************************************************)
Served(k) == IF k \in DOMAIN docs THEN docs[k].scorecard ELSE docs[k[1], Default].scorecard
Uncustomised(k) == k \in DOMAIN docs => DOMAIN docs[k].versions = {}
FirstVersionKeepsServed ==
    \A k \in DOMAIN docs' :
        Uncustomised(k) /\ DOMAIN docs'[k].versions # {} =>
            docs'[k].versions[0].scorecard = Served(k)
ServedIsRestorable == [][Default \notin Tenants => FirstVersionKeepsServed]_vars

(***************************************************************************)
(* An update answered 200 has saved one version for each of the codes that *)
(* were affected when it began, which is what it answers with; one that    *)
(* failed halfway, for some of them but not all, the selected code among   *)
(* them (nothing rolls the others back).                                   *)
(***************************************************************************)
SavedCodes(r) == {s[1] : s \in saved[r]}
AnswerMatchesSaves ==
    \A r \in Requests : job[r] \in UpdateJob =>
        /\ SavedCodes(r) \subseteq job[r].affected
        /\ \A s, t \in saved[r] : s[1] = t[1] => s = t
        /\ saved[r] # {} => job[r].code \in SavedCodes(r)
        /\ pc[r] = "ok" => SavedCodes(r) = job[r].affected
        /\ pc[r] \in {"notFound", "conflict"} => SavedCodes(r) # job[r].affected

(***************************************************************************)
(* The scorecard being served is the one of the active version.            *)
(***************************************************************************)
ServedIsActive ==
    \A k \in DOMAIN docs :
        LET active == ActiveVersion(docs[k])
        IN  active # None =>
                /\ active \in DOMAIN docs[k].versions
                /\ docs[k].scorecard = docs[k].versions[active].scorecard

\* A version that an update saved stays in the document, as submitted.
SavedVersionsKept ==
    \A r \in Requests : \A s \in saved[r] :
        LET versions == docs[s[1], job[r].tenant].versions
        IN  /\ s[2] \in DOMAIN versions
            /\ versions[s[2]] = [scorecard |-> job[r].need, by |-> r]

\* Every request that was sent is answered.
EveryRequestAnswered ==
    \A r \in Requests : Running(r) ~> pc[r] \in Answers

-----------------------------------------------------------------------------
(***************************************************************************)
(* The inductive invariant behind BaseVersionKept.  A document either has  *)
(* no version, and then the next update saves its scorecard as version 0,  *)
(* or it has version 0 and its counter is past it.  A copy in memory that  *)
(* is going to be saved, however stale, agrees with the stored document    *)
(* about the scorecard that is or will be version 0.                       *)
(***************************************************************************)
WellVersioned(d) ==
    IF DOMAIN d.versions = {}
    THEN NeedsBaseVersion(d) /\ NextVersionId(d) = 0
    ELSE 0 \in DOMAIN d.versions /\ d.metadata # None /\ d.metadata.next > 0

\* The scorecard that version 0 of a document holds, or is going to hold.
BaseScorecard(d) ==
    IF DOMAIN d.versions = {} THEN d.scorecard ELSE d.versions[0].scorecard

AgreesWith(c, d) ==
    /\ DOMAIN d.versions = {} => DOMAIN c.versions = {}
    /\ BaseScorecard(c) = BaseScorecard(d)

JobFitsStep(r) ==
    /\ pc[r] \in {"resolve", "ensure", "save"} => job[r] \in UpdateJob
    /\ pc[r] \in {"enable", "saveEnable"} => job[r] \in EnableJob
    /\ pc[r] \in {"ensure", "save", "enable", "saveEnable"} => cur[r] \in Codes

CopyFitsStore(r) ==
    /\ pc[r] = "ensure" => IsDoc(copy[r])
    /\ pc[r] = "save" /\ fresh[r] =>
          IsDoc(copy[r]) /\ DOMAIN copy[r].versions = {} /\ WellVersioned(copy[r])
    /\ pc[r] = "saveEnable" \/ (pc[r] = "save" /\ ~fresh[r]) =>
          /\ Own(r) \in DOMAIN docs
          /\ IsDoc(copy[r]) /\ WellVersioned(copy[r])
          /\ AgreesWith(copy[r], docs[Own(r)])
    /\ pc[r] = "saveEnable" => job[r].version \in DOMAIN copy[r].versions

IInv ==
    /\ TypeOK
    /\ \A k \in DOMAIN docs : WellVersioned(docs[k])
    /\ \A r \in Requests : JobFitsStep(r) /\ CopyFitsStore(r)

=============================================================================
