------------------------- MODULE PrintableDirectory -------------------------
(***************************************************************************)
(* The printable directories of users                                      *)
(* (src/printable-directory/printable-directory.service.ts): directories   *)
(* with an access policy and a public slug, their ordered sections, and    *)
(* the ordered sources of each section.                                    *)
(*                                                                         *)
(* Every request is a process of two awaits: it reads a directory, works   *)
(* on it in memory and saves it.  What save() sends depends on the change: *)
(* a push, the whole array, or one field at its position.                  *)
(*                                                                         *)
(* The localised texts and the limit of a section, and the payload of a    *)
(* source, are abstracted to one "text" each; covers, headers, layouts,    *)
(* query defaults and updatedBy, which no operation reads, are left out,   *)
(* as are the refusals of malformed payloads, which change nothing.        *)
(***************************************************************************)
EXTENDS Naturals, FiniteSets, SequencesExt

CONSTANTS
    Requests,     \* the requests clients may send, one call each
    Users,        \* the users
    Tenants,      \* the tenants
    Ids,          \* the ids of the directories, sections and sources to start on
    Texts,        \* the contents of sections and sources
    Slugs,        \* the public slugs
    Kinds,        \* the kinds of requests that are sent
    InitialDirs,  \* the collections the program may be started on
    MaxInFlight,  \* how many requests may be running at once
    None,         \* nothing yet, or no slug
    Keep          \* a field the payload of an update leaves out

VARIABLES
    dirs,  \* dirs[d]: the stored directory whose _id is d
    pc,    \* pc[r]: the next step of request r, or its answer
    job,   \* job[r]: what the client asked for
    copy   \* copy[r]: the directory read into memory

vars == <<dirs, pc, job, copy>>

Policies == {"private", "shared-read", "shared-edit"}
Answers  == {"ok", "notFound", "invalid", "conflict", "failed"}

SectionKinds == {"updateSection", "removeSection", "createSource", "reorderSources"}
SourceKinds  == {"updateSource", "removeSource"}
EditKinds    == {"createSection", "reorderSections"} \cup SectionKinds \cup SourceKinds
AllKinds     == {"create", "update", "remove"} \cup EditKinds

ASSUME DirectoryAssumption ==
    /\ Kinds \subseteq AllKinds
    /\ MaxInFlight \in Nat \ {0}
    /\ None \notin Slugs
    /\ Ids \cap Requests = {}

\* What a request makes is named after it: a directory, a section or a source.
AllIds == Ids \cup Requests

Source    == [id : AllIds, order : Nat, text : Texts]
Section   == [id : AllIds, order : Nat, text : Texts, sources : Seq(Source)]
\* v: Mongoose's __v.
Directory == [owner : Users, tenant : Tenants, policy : Policies,
              slug : Slugs \cup {None}, sections : Seq(Section), v : Nat]

IdsOf(items) == {items[k].id : k \in DOMAIN items}
UniqueIds(items) == \A j, k \in DOMAIN items : items[j].id = items[k].id => j = k

\* The orders of sections, or of sources, are 0, 1, 2, ... along the array.
OrdersArePositions(items) == \A k \in DOMAIN items : items[k].order = k - 1

WellFormed(d) ==
    /\ UniqueIds(d.sections)
    /\ \A k \in DOMAIN d.sections :
          /\ UniqueIds(d.sections[k].sources)
          /\ OrdersArePositions(d.sections[k].sources)

ASSUME InitialDirsAssumption ==
    \A ds \in InitialDirs :
        /\ ds \in [DOMAIN ds -> Directory] /\ DOMAIN ds \subseteq Ids
        /\ \A d \in DOMAIN ds :
              /\ WellFormed(ds[d])
              /\ \A k \in DOMAIN ds[d].sections :
                    IdsOf(ds[d].sections[k].sources) \cup IdsOf(ds[d].sections) \subseteq Ids
        /\ \A d, e \in DOMAIN ds :
              ds[d].slug # None /\ ds[d].slug = ds[e].slug
                /\ ds[d].tenant = ds[e].tenant => d = e

Init ==
    /\ dirs \in InitialDirs
    /\ pc = [r \in Requests |-> "idle"]
    /\ job = [r \in Requests |-> None]
    /\ copy = [r \in Requests |-> None]

Running(r) == pc[r] \notin Answers \cup {"idle"}

Goto(r, step) == pc' = [pc EXCEPT ![r] = step]

Write(d, dir) ==
    dirs' = [x \in DOMAIN dirs \cup {d} |-> IF x = d THEN dir ELSE dirs[x]]

-----------------------------------------------------------------------------
(* Sections and sources are arrays of items with an id and an order. *)

Find(items, i) == CHOOSE k \in DOMAIN items : items[k].id = i

\* Where the items of other ids are.
Without(items, i) == {k \in DOMAIN items : items[k].id # i}

\* The place of the k-th item once those kept are sorted (stably) by order.
Rank(items, kept, k) ==
    Cardinality({j \in kept :
        \/ items[j].order < items[k].order
        \/ items[j].order = items[k].order /\ j <= k})

\* The n-th of them.
Ranked(items, kept, n) == items[CHOOSE k \in kept : Rank(items, kept, k) = n]

\* reindexSections, reindexSources, of the items that are kept; the slip keeps
\* the numbers as they were.
NotReindexed(items, kept) ==
    [n \in 1..Cardinality(kept) |-> Ranked(items, kept, n)]
Reindexed(items, kept) ==
    [n \in 1..Cardinality(kept) |-> [Ranked(items, kept, n) EXCEPT !.order = n - 1]]

\* The items in the order of ids, numbered.
Reordered(items, ids) ==
    [n \in DOMAIN ids |-> [items[Find(items, ids[n])] EXCEPT !.order = n - 1]]

\* validateExactIdSet; the slip looks only for unknown ids.
KnownIds(expected, provided) == ToSet(provided) \subseteq ToSet(expected)
ExactIdSet(expected, provided) ==
    /\ Len(expected) = Len(provided)
    /\ Cardinality(ToSet(expected)) = Cardinality(ToSet(provided))
    /\ Cardinality(ToSet(expected)) = Len(expected)
    /\ ToSet(provided) \subseteq ToSet(expected)

IdSeq(items) == [k \in DOMAIN items |-> items[k].id]

\* toSourceEntity, and the sources a new section comes with: none or one.
NewSource(r, order) == [id |-> r, order |-> order, text |-> job[r].text]

NewSection(r, order) ==
    [id |-> r, order |-> order, text |-> job[r].text,
     sources |-> IF job[r].withSource THEN <<NewSource(r, 0)>> ELSE <<>>]

-----------------------------------------------------------------------------
(* The requests clients send, about sections and sources they have seen. *)

Send(r, j) ==
    /\ j.kind \in Kinds
    /\ job' = [job EXCEPT ![r] = j]
    /\ Goto(r, IF j.kind = "create" THEN "create" ELSE "load")
    /\ UNCHANGED <<dirs, copy>>

\* Any list of as many ids as there are, including permutations.
Orderings(items) == [DOMAIN items -> IdsOf(items)] \ {<<>>}

Creations ==
    [kind : {"create"}, user : Users, tenant : Tenants,
     policy : Policies, slug : Slugs \cup {None}]

WithinSection(d, section) ==
    LET sources == section.sources IN
    [kind : {"removeSection"}, user : Users, tenant : Tenants, dir : {d},
     section : {section.id}]
    \cup
    [kind : {"updateSection", "createSource"}, user : Users, tenant : Tenants, dir : {d},
     section : {section.id}, text : Texts]
    \cup
    [kind : {"reorderSources"}, user : Users, tenant : Tenants, dir : {d},
     section : {section.id}, ids : Orderings(sources)]
    \cup
    [kind : {"removeSource"}, user : Users, tenant : Tenants, dir : {d},
     section : {section.id}, source : IdsOf(sources)]
    \cup
    [kind : {"updateSource"}, user : Users, tenant : Tenants, dir : {d},
     section : {section.id}, source : IdsOf(sources), text : Texts, array : BOOLEAN]

About(d) ==
    LET sections == dirs[d].sections IN
    [kind : {"remove"}, user : Users, tenant : Tenants, dir : {d}]
    \cup
    [kind : {"update"}, user : Users, tenant : Tenants, dir : {d},
     policy : Policies \cup {Keep}, slug : Slugs \cup {None, Keep}]
    \cup
    [kind : {"createSection"}, user : Users, tenant : Tenants, dir : {d},
     text : Texts, withSource : BOOLEAN]
    \cup
    [kind : {"reorderSections"}, user : Users, tenant : Tenants, dir : {d},
     ids : Orderings(sections)]
    \cup
    UNION {WithinSection(d, sections[k]) : k \in DOMAIN sections}

Start(r) ==
    /\ pc[r] = "idle"
    /\ Cardinality({q \in Requests : Running(q)}) < MaxInFlight
    /\ \/ \E j \in Creations : Send(r, j)
       \/ \E d \in DOMAIN dirs : \E j \in About(d) : Send(r, j)

-----------------------------------------------------------------------------
(* The steps of a request. *)

\* The partial unique index on tenant and slug; the slip is not to declare it.
SlugNotUnique(d, tenant, slug) == FALSE
SlugTaken(d, tenant, slug) ==
    slug # None /\ \E e \in DOMAIN dirs \ {d} :
                      dirs[e].tenant = tenant /\ dirs[e].slug = slug

\* The document that is made.
Made(r) ==
    [owner |-> job[r].user, tenant |-> job[r].tenant, policy |-> job[r].policy,
     slug |-> job[r].slug, sections |-> <<>>, v |-> 0]

Create(r) ==
    /\ pc[r] = "create"
    /\ \/ /\ SlugTaken(r, job[r].tenant, job[r].slug)
          /\ Goto(r, "conflict")
          /\ UNCHANGED dirs
       \/ /\ ~SlugTaken(r, job[r].tenant, job[r].slug)
          /\ Write(r, Made(r))
          /\ Goto(r, "ok")
    /\ UNCHANGED <<job, copy>>

\* getOwnedDirectoryOrThrow and getUpdatableDirectoryOrThrow; the slip lets
\* everyone who may update a directory remove it.
Updatable(r) ==
    /\ job[r].dir \in DOMAIN dirs
    /\ dirs[job[r].dir].tenant = job[r].tenant
    /\ dirs[job[r].dir].owner = job[r].user \/ dirs[job[r].dir].policy = "shared-edit"
Permitted(r) ==
    /\ Updatable(r)
    /\ job[r].kind = "remove" => dirs[job[r].dir].owner = job[r].user

HasSection(r) ==
    job[r].kind \in SectionKinds \cup SourceKinds =>
        job[r].section \in IdsOf(dirs[job[r].dir].sections)

SectionOf(r, dir) == dir.sections[Find(dir.sections, job[r].section)]

HasSource(r) ==
    job[r].kind \in SourceKinds =>
        job[r].source \in IdsOf(SectionOf(r, dirs[job[r].dir]).sources)

ValidOrder(r) ==
    LET dir == dirs[job[r].dir] IN
    /\ job[r].kind = "reorderSections" => ExactIdSet(IdSeq(dir.sections), job[r].ids)
    /\ job[r].kind = "reorderSources" =>
          ExactIdSet(IdSeq(SectionOf(r, dir).sources), job[r].ids)

\* The read of the directory and the checks made on it, up to the next await.
Load(r) ==
    /\ pc[r] = "load"
    /\ \/ /\ ~(Permitted(r) /\ HasSection(r) /\ HasSource(r))
          /\ Goto(r, "notFound")
          /\ UNCHANGED copy
       \/ /\ Permitted(r) /\ HasSection(r) /\ HasSource(r) /\ ~ValidOrder(r)
          /\ Goto(r, "invalid")
          /\ UNCHANGED copy
       \/ /\ Permitted(r) /\ HasSection(r) /\ HasSource(r) /\ ValidOrder(r)
          /\ copy' = [copy EXCEPT ![r] = dirs[job[r].dir]]
          /\ Goto(r, CASE job[r].kind = "remove" -> "delete"
                       [] job[r].kind = "update" -> "saveUpdate"
                       [] OTHER -> "save")
    /\ UNCHANGED <<dirs, job>>

\* deleteOne({_id}).
Delete(r) ==
    /\ pc[r] = "delete"
    /\ dirs' = [d \in DOMAIN dirs \ {job[r].dir} |-> dirs[d]]
    /\ Goto(r, "ok")
    /\ UNCHANGED <<job, copy>>

\* A field of an update that is left out, or that has the value that was read,
\* is not sent.
Updated(stored, read, asked) == IF asked \in {Keep, read} THEN stored ELSE asked

NewSlug(r) == Updated(dirs[job[r].dir].slug, copy[r].slug, job[r].slug)

SaveUpdate(r) ==
    LET d == job[r].dir IN
    /\ pc[r] = "saveUpdate" /\ d \in DOMAIN dirs
    /\ \/ /\ SlugTaken(d, dirs[d].tenant, NewSlug(r))
          /\ Goto(r, "conflict")
          /\ UNCHANGED dirs
       \/ /\ ~SlugTaken(d, dirs[d].tenant, NewSlug(r))
          /\ dirs' = [dirs EXCEPT
                         ![d].policy = Updated(@, copy[r].policy, job[r].policy),
                         ![d].slug = NewSlug(r)]
          /\ Goto(r, "ok")
    /\ UNCHANGED <<job, copy>>

(***************************************************************************)
(* What the handler makes of the sources of its section, in memory.        *)
(***************************************************************************)
EditedSources(r) ==
    LET sources == SectionOf(r, copy[r]).sources IN
    CASE job[r].kind = "createSource"   -> Append(sources, NewSource(r, Len(sources)))
      [] job[r].kind = "removeSource"   -> Reindexed(sources, Without(sources, job[r].source))
      [] job[r].kind = "reorderSources" -> Reordered(sources, job[r].ids)
      [] job[r].kind = "updateSource"   ->
            [sources EXCEPT ![Find(sources, job[r].source)].text = job[r].text]
      [] OTHER -> sources

\* And of the sections.
EditedSections(r) ==
    LET sections == copy[r].sections IN
    CASE job[r].kind = "createSection"   -> Append(sections, NewSection(r, Len(sections)))
      [] job[r].kind = "removeSection"   -> Reindexed(sections, Without(sections, job[r].section))
      [] job[r].kind = "reorderSections" -> Reordered(sections, job[r].ids)
      [] job[r].kind = "updateSection"   ->
            [sections EXCEPT ![Find(sections, job[r].section)].text = job[r].text]
      [] OTHER ->
            [sections EXCEPT ![Find(sections, job[r].section)].sources = EditedSources(r)]

(***************************************************************************)
(* save() sends what changed: a push of the last section or source, the    *)
(* whole array of sections or of sources, or one text at its position.     *)
(***************************************************************************)
Written(r, stored) ==
    LET k == Find(copy[r].sections, job[r].section) IN
    CASE job[r].kind = "createSection" -> Append(stored, Last(EditedSections(r)))
      [] job[r].kind \in {"removeSection", "reorderSections"} -> EditedSections(r)
      [] job[r].kind = "updateSection" -> [stored EXCEPT ![k].text = job[r].text]
      [] job[r].kind = "createSource" ->
            [stored EXCEPT ![k].sources = Append(@, Last(EditedSources(r)))]
      [] job[r].kind = "updateSource" ->
            LET n == Find(SectionOf(r, copy[r]).sources, job[r].source)
            IN  [stored EXCEPT ![k].sources[n].text = job[r].text]
      [] OTHER -> [stored EXCEPT ![k].sources = EditedSources(r)]

Changed(r) == EditedSections(r) # copy[r].sections

(***************************************************************************)
(* Mongoose asks for the __v that was read when it replaces an array or    *)
(* writes at a position, but not when it pushes to a top-level array; it   *)
(* increments __v unless it only writes a field at a position that is not  *)
(* itself an array (resourceIds is one).  The slips: positions, or whole   *)
(* arrays, are not checked; a push leaves __v alone.                       *)
(***************************************************************************)
ChecksArrays(r) ==
    Changed(r) /\ job[r].kind \in {"removeSection", "reorderSections"}
ChecksPositions(r) ==
    Changed(r) /\ job[r].kind \in (SectionKinds \cup SourceKinds) \ {"removeSection"}
Checks(r) == Changed(r) /\ job[r].kind # "createSection"

PushKeepsVersion(r) == ChecksArrays(r)
Increments(r) ==
    Changed(r) /\ ~(\/ job[r].kind = "updateSection"
                    \/ job[r].kind = "updateSource" /\ ~job[r].array)

SaveSections(r) ==
    LET d == job[r].dir IN
    /\ pc[r] = "save" /\ d \in DOMAIN dirs
    /\ Checks(r) => dirs[d].v = copy[r].v
    /\ dirs' = [dirs EXCEPT
                   ![d].sections = IF Changed(r) THEN Written(r, @) ELSE @,
                   ![d].v = IF Increments(r) THEN @ + 1 ELSE @]
    /\ Goto(r, "ok")
    /\ UNCHANGED <<job, copy>>

\* save() of a removed directory, or one whose arrays changed: answers 500.
SaveRefused(r) ==
    /\ \/ pc[r] \in {"save", "saveUpdate"} /\ job[r].dir \notin DOMAIN dirs
       \/ /\ pc[r] = "save" /\ job[r].dir \in DOMAIN dirs
          /\ Checks(r) /\ dirs[job[r].dir].v # copy[r].v
    /\ Goto(r, "failed")
    /\ UNCHANGED <<dirs, job, copy>>

Advance(r) ==
    \/ Create(r) \/ Load(r) \/ Delete(r)
    \/ SaveUpdate(r) \/ SaveSections(r) \/ SaveRefused(r)

\* Every request has been answered and no client sends another one.
Finished ==
    /\ \A r \in Requests : pc[r] \in Answers
    /\ UNCHANGED vars

Next == (\E r \in Requests : Start(r) \/ Advance(r)) \/ Finished

Spec == Init /\ [][Next]_vars

-----------------------------------------------------------------------------
(* Properties. *)

TypeOK ==
    /\ DOMAIN dirs \subseteq AllIds
    /\ dirs \in [DOMAIN dirs -> Directory]
    /\ pc \in [Requests -> Answers \cup
                  {"idle", "create", "load", "delete", "save", "saveUpdate"}]
    /\ \A r \in Requests :
          /\ job[r] = None \/ job[r].kind \in Kinds
          /\ copy[r] = None \/ copy[r] \in Directory

\* No two directories of a tenant have one slug, so that a public link leads
\* to one directory, however creations and updates interleave.
SlugsUnique ==
    \A d, e \in DOMAIN dirs :
        dirs[d].slug # None /\ dirs[d].slug = dirs[e].slug
          /\ dirs[d].tenant = dirs[e].tenant => d = e

(***************************************************************************)
(* The ids of sections, and of the sources of a section, are unique, and   *)
(* the orders of sources are 0, 1, 2, ... in any interleaving: a nested    *)
(* push is refused when the array changed since its order was computed.    *)
(***************************************************************************)
DirectoriesWellFormed == \A d \in DOMAIN dirs : WellFormed(dirs[d])

(***************************************************************************)
(* The orders of sections stay 0, 1, 2, ... until a section is pushed to   *)
(* a directory that has gained or lost one since it was read: Mongoose     *)
(* does not check the version for a push to a top-level array.             *)
(***************************************************************************)
PushesStale(r, d) ==
    /\ pc[r] = "save" /\ pc'[r] = "ok"
    /\ job[r].kind = "createSection" /\ job[r].dir = d
    /\ Len(copy[r].sections) # Len(dirs[d].sections)
SectionOrdersKept ==
    [][\A d \in DOMAIN dirs \cap DOMAIN dirs' :
          OrdersArePositions(dirs[d].sections) =>
              \/ OrdersArePositions(dirs'[d].sections)
              \/ \E r \in Requests : PushesStale(r, d)]_vars

\* Everything there is: directories, their sections, the sources of these.
Items(ds) ==
    LET secs(d) == ds[d].sections
        srcs(d, k) == IdsOf(secs(d)[k].sources)
    IN  {<<d>> : d \in DOMAIN ds}
        \cup (UNION {{<<d, secs(d)[k].id>> : k \in DOMAIN secs(d)} : d \in DOMAIN ds})
        \cup (UNION {UNION {{<<d, secs(d)[k].id, s>> : s \in srcs(d, k)} :
                               k \in DOMAIN secs(d)} : d \in DOMAIN ds})

Ends(r) == pc[r] # "idle" /\ pc'[r] = "ok" /\ pc[r] # "ok"

(***************************************************************************)
(* A section or a source disappears only because it, or what it is in, is  *)
(* removed, and a directory only because its owner removes it: no save of  *)
(* a stale array drops what another request added.                         *)
(***************************************************************************)
Removes(r, item) ==
    /\ Ends(r) /\ job[r].kind \in {"remove", "removeSection", "removeSource"}
    /\ job[r].dir = item[1]
    /\ CASE job[r].kind = "remove" -> job[r].user = dirs[item[1]].owner
         [] job[r].kind = "removeSection" -> Len(item) > 1 /\ item[2] = job[r].section
         [] OTHER -> Len(item) = 3 /\ Tail(item) = <<job[r].section, job[r].source>>
NothingLost ==
    [][\A item \in Items(dirs) \ Items(dirs') :
          \E r \in Requests : Removes(r, item)]_vars

\* Nothing comes back either: what appears was made by the request that ends.
NothingReturns ==
    [][\A item \in Items(dirs') \ Items(dirs) :
          \E r \in Requests :
              /\ Ends(r) /\ item[Len(item)] = r
              /\ job[r].kind \in {"create", "createSection", "createSource"}]_vars

(***************************************************************************)
(* An edit, which writes at the position it read, changes the text of the  *)
(* section or source it names, wherever other requests moved it, or fails: *)
(* it changes nothing else.                                                *)
(***************************************************************************)
TextAt(ds, item) ==
    LET section == ds[item[1]].sections[Find(ds[item[1]].sections, item[2])]
    IN  IF Len(item) = 2 THEN section.text
        ELSE section.sources[Find(section.sources, item[3])].text

Target(r) ==
    IF job[r].kind = "updateSection" THEN <<job[r].dir, job[r].section>>
    ELSE <<job[r].dir, job[r].section, job[r].source>>

HitsTarget(r) ==
    /\ Items(dirs') = Items(dirs)
    /\ \A item \in Items(dirs) :
          Len(item) > 1 /\ TextAt(dirs', item) # TextAt(dirs, item) => item = Target(r)
    /\ Changed(r) => Target(r) \in Items(dirs) /\ TextAt(dirs', Target(r)) = job[r].text
EditsHitTarget ==
    [][\A r \in Requests :
          Ends(r) /\ job[r].kind \in {"updateSection", "updateSource"} => HitsTarget(r)]_vars

-----------------------------------------------------------------------------
(***************************************************************************)
(* What a save relies on: while the __v that was read is the stored one,   *)
(* sections and sources are where they were, with the orders they had.     *)
(***************************************************************************)
Places(items) == [k \in DOMAIN items |-> <<items[k].id, items[k].order>>]
Shape(sections) ==
    [k \in DOMAIN sections |->
        <<sections[k].id, sections[k].order, Places(sections[k].sources)>>]

VersionGuards(r) ==
    pc[r] = "save" /\ job[r].dir \in DOMAIN dirs =>
        /\ copy[r].v <= dirs[job[r].dir].v
        /\ copy[r].v = dirs[job[r].dir].v =>
              Shape(copy[r].sections) = Shape(dirs[job[r].dir].sections)
VersionGuardsShape == \A r \in Requests : VersionGuards(r)

(***************************************************************************)
(* The inductive invariant behind SlugsUnique: every directory has a slug  *)
(* field, possibly None, and a tenant.                                     *)
(***************************************************************************)
SlugInv ==
    /\ SlugsUnique
    /\ \A d \in DOMAIN dirs : {"slug", "tenant"} \subseteq DOMAIN dirs[d]

(***************************************************************************)
(* The inductive invariant behind the other properties: what a directory   *)
(* holds was there at the start or was made by a request that has been     *)
(* answered, and a request that is about to save has a well-formed copy    *)
(* in which it has found what it was asked for.                            *)
(***************************************************************************)
Settled == Ids \cup {q \in Requests : pc[q] = "ok"}

Old(dir) ==
    \A k \in DOMAIN dir.sections :
        dir.sections[k].id \in Settled /\ IdsOf(dir.sections[k].sources) \subseteq Settled

DirsInv ==
    /\ DOMAIN dirs \subseteq Settled
    /\ \A d \in DOMAIN dirs : WellFormed(dirs[d]) /\ Old(dirs[d])

JobFits(j) ==
    /\ j.kind \in {"remove", "update"} \cup EditKinds
    /\ j.dir \in Settled
    /\ j.kind = "update" =>
          j.policy \in Policies \cup {Keep} /\ j.slug \in Slugs \cup {None, Keep}
    /\ j.kind \in {"createSection", "updateSection", "createSource", "updateSource"} =>
          j.text \in Texts
    /\ j.kind \in {"reorderSections", "reorderSources"} => j.ids \in Seq(AllIds)

Loaded(r) ==
    LET sections == copy[r].sections IN
    /\ copy[r] \in Directory /\ WellFormed(copy[r]) /\ Old(copy[r])
    /\ job[r].kind \in EditKinds
    /\ job[r].kind \in SectionKinds \cup SourceKinds => job[r].section \in IdsOf(sections)
    /\ job[r].kind \in SourceKinds =>
          job[r].source \in IdsOf(SectionOf(r, copy[r]).sources)
    /\ job[r].kind = "reorderSections" => ExactIdSet(IdSeq(sections), job[r].ids)
    /\ job[r].kind = "reorderSources" =>
          ExactIdSet(IdSeq(SectionOf(r, copy[r]).sources), job[r].ids)

RequestFits(r) ==
    /\ pc[r] = "create" => job[r] \in Creations
    /\ pc[r] \in {"load", "delete", "save", "saveUpdate"} => JobFits(job[r])
    /\ pc[r] = "save" => Loaded(r)
    /\ pc[r] = "saveUpdate" => job[r].kind = "update"
    /\ pc[r] = "delete" =>
          /\ job[r].kind = "remove"
          /\ job[r].dir \in DOMAIN dirs => dirs[job[r].dir].owner = job[r].user

DirectoryInv ==
    /\ TypeOK /\ DOMAIN job = Requests /\ DOMAIN copy = Requests
    /\ DirsInv /\ (\A r \in Requests : RequestFits(r)) /\ VersionGuardsShape

=============================================================================
