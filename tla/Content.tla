------------------------------ MODULE Content ------------------------------
(***************************************************************************)
(* Reading resources: one at a time (findById, findByOriginalId), in       *)
(* batches (findManyByIds), their titles (findTitlesByIds), and the        *)
(* previews of printable directories, whose sections are resolved side by  *)
(* side, their sources one after another, each as a batch.  A resource is  *)
(* looked for in tiers, each a query of its own; imports replace resources *)
(* and users edit their favourite lists in between.  An id may be that of  *)
(* several resources: those of other tenants are shared.                   *)
(***************************************************************************)
EXTENDS Integers, Sequences, FiniteSets, Functions, SequencesExt, FiniteSetsExt

CONSTANTS
    Copies,      \* the resources there may be, records
    Redirects,   \* the ids that redirect to another
    Lists,       \* the favourite lists there may be, records
    Requests,    \* what clients ask for, records
    Hits,        \* what the searches of query sources may find
    MaxChanges,  \* a bound of the model: how often the data changes
    None

\* Lookups of one id and batches; a preview names sections instead of ids.
Lookups == {"single", "original", "titles", "batch"}

IsList(s) == s \in Seq(ToSet(s))

IsSection(section) ==
    /\ section.limit \in Nat /\ IsList(section.sources)
    /\ \A n \in DOMAIN section.sources :
          section.sources[n].type = "resource_ids" => IsList(section.sources[n].ids)

IsRequest(q) ==
    /\ {"kind", "tenant"} \subseteq DOMAIN q
    /\ q.kind \in Lookups \cup {"preview"}
    /\ q.kind \in Lookups => "ids" \in DOMAIN q /\ IsList(q.ids)
    /\ q.kind \in {"single", "original"} => Len(q.ids) = 1
    /\ q.kind = "preview" =>
          /\ {"user", "owner", "sections"} \subseteq DOMAIN q
          /\ \A i \in DOMAIN q.sections : IsSection(q.sections[i])

ASSUME ContentAssumption ==
    /\ IsFiniteSet(Copies)
    /\ \A q \in Requests : IsRequest(q)
    /\ \A l \in Lists : IsList(l.favorites)
    /\ \A ids \in Hits : IsList(ids)

VARIABLES
    resources,   \* the collection of resources
    lists,       \* the collection of favourite lists
    changes,     \* how often one of them changed
    asked,       \* the request under way, and when it began
    jobs,        \* its lookups: one, or one for each section of a preview
    reply        \* its answer

vars == <<resources, lists, changes, asked, jobs, reply>>
data == <<resources, lists, changes>>

Empty == [x \in {} |-> None]

\* Both records or functions, with what the first one says of what is in both.
Over(f, g) == [x \in DOMAIN f \cup DOMAIN g |-> IF x \in DOMAIN f THEN f[x] ELSE g[x]]

\* The database tells resources and lists apart by their ids.
Apart == /\ \A r, s \in resources : r.mongo = s.mongo => r = s
         /\ \A k, l \in lists : k.id = l.id => k = l

Init ==
    /\ resources \in SUBSET Copies /\ lists \in SUBSET Lists /\ Apart
    /\ changes = 0
    /\ asked = None /\ jobs = <<>> /\ reply = None

-----------------------------------------------------------------------------
(* The tiers. *)

Tiers(kind) ==
    CASE kind = "original" -> <<"original">>
      [] kind = "titles" -> <<"primary", "byId">>
      [] OTHER -> <<"primary", "byId", "anyTenant">>

Named(r, tier) == IF tier = "byId" THEN r.mongo
                  ELSE IF tier = "original" THEN r.orig ELSE r.sal

Matches(tier, tenant, ids) ==
    {r \in resources : /\ Named(r, tier) \in ids
                       /\ tier # "anyTenant" => r.tenant = tenant}

\* A lookup of ids; at, source and merged are those of a section.
Lookup(ids) ==
    [ids |-> ids, tier |-> 1, found |-> {}, data |-> Empty, errors |-> <<>>, step |-> "find",
     at |-> 0, source |-> 0, merged |-> <<>>, missing |-> {}]

\* The slip: each tier looks for all of the ids again.
MissingNone(job) == ToSet(job.ids)

Missing(job) == ToSet(job.ids) \ job.found

\* The later of two resources with one id is kept, and each one that is not
\* translated is an error.
Collected(job, tier, order, found) ==
    LET ids == [i \in DOMAIN order |-> Named(order[i], tier)]
        good == {i \in DOMAIN order : order[i].translated}
    IN [job EXCEPT
            !.found = @ \cup {ids[i] : i \in found},
            !.data = Over([id \in {ids[i] : i \in good} |->
                             order[Max({i \in good : ids[i] = id})]], @),
            !.errors = @ \o SetToSeq({[id |-> ids[i], status |-> "400", n |-> i] :
                                        i \in DOMAIN order \ good})]

\* The slip: an id whose resource is not translated is not noted as found.
CollectTranslated(job, tier, order) ==
    Collected(job, tier, order, {i \in DOMAIN order : order[i].translated})

\* The slip: a resource that is not translated is answered like none.
CollectAsMissing(job, tier, order) ==
    LET collected == Collected(job, tier, order, DOMAIN order)
    IN [collected EXCEPT !.errors = [n \in DOMAIN @ |-> [@[n] EXCEPT !.status = "404"]]]

\* collectTransformedResources.
Collect(job, tier, order) == Collected(job, tier, order, DOMAIN order)

NotFound(id) == [id |-> id, status |-> IF id \in Redirects THEN "redirect" ELSE "404", n |-> 0]

-----------------------------------------------------------------------------
(* The requests. *)

Source(job) == asked.sections[job.at].sources[job.source]
Owner == IF asked.user = None THEN asked.owner ELSE asked.user

\* findOne of the favourite list that a source names.
Meant(source) ==
    {l \in lists : l.id = source.list /\ l.owner = Owner /\ l.tenant = asked.tenant}

Ask(q) ==
    /\ asked = None
    /\ asked' = Over([since |-> changes], q)
    /\ jobs' = IF q.kind = "preview"
               THEN [i \in DOMAIN q.sections |->
                        [Lookup(<<>>) EXCEPT !.step = "source", !.at = i]]
               ELSE <<Lookup(q.ids)>>
    /\ UNCHANGED <<data, reply>>

Going(i) == asked # None /\ reply = None /\ i \in DOMAIN jobs

\* One tier of a lookup, in the order the database gives.
Find(i) ==
    /\ Going(i) /\ jobs[i].step = "find"
    /\ LET job == jobs[i]
           tier == Tiers(asked.kind)[job.tier]
       IN \E order \in SetToSeqs(Matches(tier, asked.tenant, Missing(job))) :
            LET done == IF asked.kind \in {"single", "original"} /\ order # <<>>
                        THEN [Collect(job, tier, <<Head(order)>>) EXCEPT !.step = "end"]
                        ELSE Collect(job, tier, order)
                more == job.tier < Len(Tiers(asked.kind)) /\ Missing(done) # {}
            IN jobs' = [jobs EXCEPT ![i] =
                    IF done.step = "end" THEN done
                    ELSE IF more THEN [done EXCEPT !.tier = @ + 1]
                    ELSE [done EXCEPT !.step =
                            IF asked.kind = "titles" THEN "end" ELSE "redirect"]]
    /\ UNCHANGED <<data, asked, reply>>

\* The ids found nowhere are errors, with the redirect if there is one.
Redirect(i) ==
    /\ Going(i) /\ jobs[i].step = "redirect"
    /\ jobs' = [jobs EXCEPT ![i] =
            [jobs[i] EXCEPT
                !.step = "end",
                !.errors = @ \o [n \in 1..Cardinality(Missing(jobs[i])) |->
                                   NotFound(SetToSeq(Missing(jobs[i]))[n])]]]
    /\ UNCHANGED <<data, asked, reply>>

Answer(r) == reply' = r /\ UNCHANGED <<data, asked, jobs>>

Respond ==
    /\ Going(1) /\ asked.kind # "preview" /\ jobs[1].step = "end"
    /\ LET job == jobs[1]
       IN \/ asked.kind = "titles" /\ Answer([status |-> "200", titles |-> job.found])
          \/ /\ asked.kind = "batch"
             /\ Answer([status |-> "200", data |-> job.data, errors |-> job.errors])
          \/ /\ asked.kind \in {"single", "original"}
             /\ Answer(IF job.errors # <<>> THEN [status |-> job.errors[1].status]
                       ELSE [status |-> "200", data |-> job.data])

-----------------------------------------------------------------------------
(* Previews. *)

SetJob(i, job) == jobs' = [jobs EXCEPT ![i] = job] /\ UNCHANGED <<data, asked, reply>>

Resolve(i, ids) ==
    SetJob(i, IF ids = <<>> THEN [jobs[i] EXCEPT !.step = "source"]
              ELSE [jobs[i] EXCEPT !.ids = ids, !.tier = 1, !.found = {}, !.data = Empty,
                                   !.errors = <<>>, !.step = "find"])

NextSource(i) ==
    /\ Going(i) /\ jobs[i].step = "source"
    /\ jobs[i].source < Len(asked.sections[i].sources)
    /\ SetJob(i, [jobs[i] EXCEPT !.source = @ + 1, !.step = "ids"])

\* resolveSourceResources: what a source lists, or that it fails.
ReadIds(i) ==
    /\ Going(i) /\ jobs[i].step = "ids"
    /\ LET source == Source(jobs[i])
       IN \/ source.type = "resource_ids" /\ Resolve(i, source.ids)
          \/ /\ source.type = "favorites_list"
             /\ \E l \in Meant(source) : Resolve(i, l.favorites)
          \/ source.type = "query" /\ \E ids \in Hits : Resolve(i, ids)

\* A source that fails fails the whole preview.
SourceFails(i) ==
    /\ Going(i) /\ jobs[i].step = "ids"
    /\ LET source == Source(jobs[i])
       IN \/ /\ source.type = "favorites_list" /\ Meant(source) = {}
             /\ Answer([status |-> "404"])
          \/ source.type = "query" /\ Answer([status |-> "500"])

\* The slip: a resource is told apart by the id it was asked for.
MergeByRequest(merged, job) ==
    merged \o [n \in 1..Len(SelectSeq(job.ids, LAMBDA id : id \in DOMAIN job.data)) |->
                job.data[SelectSeq(job.ids, LAMBDA id : id \in DOMAIN job.data)[n]]]

\* resolveResourcesByIds and the merging of the sources: in the order of the
\* ids, those without a resource left out, and no resource twice.
MergeOne(merged, job, id) ==
    IF id \in DOMAIN job.data /\ \A n \in DOMAIN merged : merged[n].mongo # job.data[id].mongo
    THEN Append(merged, job.data[id]) ELSE merged

Merge(merged, job) ==
    LET after[n \in 0..Len(job.ids)] ==
            IF n = 0 THEN merged ELSE MergeOne(after[n - 1], job, job.ids[n])
    IN after[Len(job.ids)]

SourceDone(i) ==
    /\ Going(i) /\ asked.kind = "preview" /\ jobs[i].step = "end"
    /\ SetJob(i, [jobs[i] EXCEPT !.step = "source",
                                 !.missing = @ \cup (ToSet(jobs[i].ids) \ DOMAIN jobs[i].data),
                                 !.merged = Merge(@, jobs[i])])

Limited(s, limit) == SubSeq(s, 1, IF Len(s) < limit THEN Len(s) ELSE limit)

Previewed ==
    /\ Going(1) /\ asked.kind = "preview"
    /\ \A i \in DOMAIN jobs :
            jobs[i].step = "source" /\ jobs[i].source = Len(asked.sections[i].sources)
    /\ Answer([status |-> "200",
               sections |-> [i \in DOMAIN jobs |->
                                Limited(jobs[i].merged, asked.sections[i].limit)]])

-----------------------------------------------------------------------------
(* Imports and the users' lists are external. *)

Change ==
    /\ changes < MaxChanges /\ changes' = changes + 1
    /\ \/ \E r \in Copies :
            /\ resources' = IF r \in resources THEN resources \ {r}
                            ELSE {s \in resources : s.mongo # r.mongo} \cup {r}
            /\ UNCHANGED lists
       \/ \E l \in Lists :
            /\ lists' = IF l \in lists THEN lists \ {l} ELSE {k \in lists : k.id # l.id} \cup {l}
            /\ UNCHANGED resources
    /\ UNCHANGED <<asked, jobs, reply>>

Leave ==
    /\ reply # None
    /\ asked' = None /\ jobs' = <<>> /\ reply' = None
    /\ UNCHANGED data

Next ==
    \/ \E q \in Requests : Ask(q)
    \/ \E i \in DOMAIN jobs :
        Find(i) \/ Redirect(i) \/ NextSource(i) \/ ReadIds(i) \/ SourceFails(i) \/ SourceDone(i)
    \/ Respond \/ Previewed \/ Change \/ Leave

Spec == Init /\ [][Next]_vars

-----------------------------------------------------------------------------
(* Properties. *)

Batched == asked # None /\ asked.kind = "batch" /\ reply # None
Steady == changes = asked.since

(***************************************************************************)
(* A batch tells of each id asked for and of no other, whatever is         *)
(* imported between the tiers: an id with neither a resource nor a 400 has *)
(* one error that it was not found, and an id with either of them has no   *)
(* such error.  (An id that several resources share may have a resource    *)
(* and a 400, or several 400s.)                                            *)
(***************************************************************************)
EachIdAnswered ==
    Batched =>
        LET about(id, statuses) ==
                {n \in DOMAIN reply.errors :
                    reply.errors[n].id = id /\ reply.errors[n].status \in statuses}
            absent(id) == Cardinality(about(id, {"404", "redirect"}))
        IN /\ DOMAIN reply.data \subseteq ToSet(asked.ids)
           /\ \A n \in DOMAIN reply.errors : reply.errors[n].id \in ToSet(asked.ids)
           /\ \A id \in ToSet(asked.ids) :
                IF id \in DOMAIN reply.data \/ about(id, {"400"}) # {}
                THEN absent(id) = 0
                ELSE absent(id) = 1

(***************************************************************************)
(* When nothing is imported meanwhile, a batch and a lookup of one id give *)
(* a resource of the best tier the id has: the tenant's own by its public  *)
(* id, then by its database id, and only then one of another tenant.  An   *)
(* id that gets none is refused in one way only: with 400 if the best tier *)
(* that knows it has no translation to give, and with 404, or the redirect *)
(* there is, if no tier knows it.                                          *)
(***************************************************************************)
Best(id) ==
    LET own == {r \in resources : r.tenant = asked.tenant}
        public == {r \in own : r.sal = id}
        legacy == {r \in own : r.mongo = id}
    IN IF public # {} THEN public ELSE IF legacy # {} THEN legacy
       ELSE {r \in resources : r.sal = id}

Refused(id, status) ==
    IF asked.kind = "single" THEN reply.status = status
    ELSE LET errors == {n \in DOMAIN reply.errors : reply.errors[n].id = id}
         IN errors # {} /\ \A n \in errors : reply.errors[n].status = status

BestTierAnswers ==
    asked # None /\ reply # None /\ asked.kind \in {"single", "batch"} /\ Steady =>
        \A id \in ToSet(asked.ids) :
            LET good == {r \in Best(id) : r.translated}
                given == reply.status = "200" /\ id \in DOMAIN reply.data
            IN /\ given => reply.data[id] \in good
               /\ good # {} /\ (asked.kind = "single" => good = Best(id)) => given
               /\ ~given =>
                    Refused(id, IF Best(id) # {} THEN "400"
                                ELSE IF id \in Redirects THEN "redirect" ELSE "404")

(***************************************************************************)
(* A section of a preview shows what one gets by going through the ids of  *)
(* its sources in order: each place of an id shows its best resource that  *)
(* is translated, unless an earlier place showed it, until the section is  *)
(* full; so it is as long as the data stays as it is, and where no search  *)
(* is a source.  It never shows a resource twice, even when two ids name   *)
(* it, or more than its maximum.                                           *)
(***************************************************************************)
Good(id) == {r \in Best(id) : r.translated}

ListOf(source) == CHOOSE l \in Meant(source) : TRUE
IdsOf(source) ==
    IF source.type = "resource_ids" THEN source.ids ELSE ListOf(source).favorites

\* The places of the ids of the first sources.
Places(section, sources) ==
    UNION {{k} \X DOMAIN IdsOf(section.sources[k]) : k \in 1..sources}
IdAt(section, place) == IdsOf(section.sources[place[1]])[place[2]]
Earlier(p, q) == p[1] < q[1] \/ (p[1] = q[1] /\ p[2] < q[2])

InOrder(shown, section, places, limit) ==
    \E at \in [DOMAIN shown -> places] :
        /\ \A m, n \in DOMAIN shown : m < n => Earlier(at[m], at[n])
        /\ \A n \in DOMAIN shown : shown[n] \in Good(IdAt(section, at[n]))
        /\ \A p \in places : Good(IdAt(section, p)) # {} =>
              \/ \E n \in DOMAIN shown : /\ shown[n] \in Good(IdAt(section, p))
                                        /\ ~Earlier(p, at[n])
              \/ Len(shown) = limit /\ \A n \in DOMAIN shown : Earlier(at[n], p)

Once(shown) == \A m, n \in DOMAIN shown : shown[m].mongo = shown[n].mongo => m = n

Searches(section) == \E n \in DOMAIN section.sources : section.sources[n].type = "query"

PreviewsInOrder ==
    asked # None /\ asked.kind = "preview" /\ reply # None /\ reply.status = "200" =>
        \A i \in DOMAIN reply.sections :
            LET shown == reply.sections[i]
                section == asked.sections[i]
            IN /\ Len(shown) <= section.limit /\ Once(shown)
               /\ Steady /\ ~Searches(section) =>
                    InOrder(shown, section, Places(section, Len(section.sources)), section.limit)

(***************************************************************************)
(* docs/printable-directories.md: a preview fails as a whole when any      *)
(* source or resource resolution fails.                                    *)
(***************************************************************************)
PreviewFailsWhole ==
    asked # None /\ asked.kind = "preview" /\ reply # None /\ reply.status = "200" =>
        \A i \in DOMAIN jobs : jobs[i].missing = {}

-----------------------------------------------------------------------------
(***************************************************************************)
(* The inductive invariant behind EachIdAnswered, BestTierAnswers and      *)
(* PreviewsInOrder.  Every id that was found has its resource, or an error *)
(* that it is not translated; as long as the data is as it was when the    *)
(* lookup began, the tiers that have been asked know no id that was not    *)
(* found, and what was found is of the best tier.  What a section has      *)
(* merged so far is in the order of the places of the sources it has done. *)
(***************************************************************************)
Seeks == asked # None /\ asked.kind \in {"single", "batch", "preview"}
Wanted(job) == ToSet(job.ids)

JobFields == {"ids", "tier", "found", "data", "errors", "step",
              "at", "source", "merged", "missing"}
Errors(job) == [id : Wanted(job), status : {"400", "404", "redirect"}, n : Nat]
Reported(job, id) == {n \in DOMAIN job.errors : job.errors[n].id = id}

\* What was found is in the data, or in the errors as not translated.
FoundFits(job) ==
    /\ job.found \subseteq Wanted(job) /\ DOMAIN job.data \subseteq job.found
    /\ job.errors \in Seq(Errors(job))
    /\ \A id \in job.found :
          /\ \A n \in Reported(job, id) : job.errors[n].status = "400"
          /\ id \in DOMAIN job.data \/ Reported(job, id) # {}

\* What was not found is in the errors once, at the end.
AbsentFits(job) ==
    \A id \in Wanted(job) \ job.found :
        /\ job.step # "end" => Reported(job, id) = {}
        /\ job.step = "end" =>
              \E n \in DOMAIN job.errors :
                  Reported(job, id) = {n} /\ job.errors[n].status = NotFound(id).status

\* A lookup of one id ends with the first resource.
SingleFits(job) ==
    /\ job.step # "end" => job.found = {} /\ job.errors = <<>>
    /\ DOMAIN job.data # {} => job.errors = <<>>

Unknown(job, id) ==
    IF job.step = "find"
    THEN \A t \in 1..(job.tier - 1) :
            Matches(Tiers(asked.kind)[t], asked.tenant, {id}) = {}
    ELSE Best(id) = {}

\* What was found of an id: a translated resource if there is one, but for a
\* lookup of one id, which takes the first resource there is.
BestFound(job, id) ==
    IF id \in DOMAIN job.data THEN job.data[id] \in Good(id)
    ELSE /\ \E r \in Best(id) : ~r.translated
         /\ asked.kind # "single" => Good(id) = {}

BestSoFar(job) ==
    /\ \A id \in Wanted(job) \ job.found : Unknown(job, id)
    /\ \A id \in job.found : BestFound(job, id)

JobFits(job) ==
    /\ DOMAIN job = JobFields /\ IsList(job.ids)
    /\ job.step \in {"find", "redirect", "end"} /\ job.tier \in 1..3
    /\ FoundFits(job) /\ AbsentFits(job)
    /\ asked.kind = "single" => SingleFits(job)
    /\ Steady => BestSoFar(job)

\* The answer is made of the job.
ReplyFits(job) ==
    /\ job.step = "end"
    /\ reply = IF asked.kind = "batch"
               THEN [status |-> "200", data |-> job.data, errors |-> job.errors]
               ELSE IF job.errors # <<>> THEN [status |-> job.errors[1].status]
               ELSE [status |-> "200", data |-> job.data]

LookupFits ==
    /\ DOMAIN jobs = {1} /\ JobFits(jobs[1]) /\ jobs[1].ids = asked.ids
    /\ reply # None => ReplyFits(jobs[1])

\* How many sources of its section a job has merged.
Done(job) == IF job.step = "source" THEN job.source ELSE job.source - 1

\* As long as the data stays, a source has the ids it lists.
SourceFits(section, job) ==
    /\ job.source >= 1 /\ JobFits(job)
    /\ Steady /\ section.sources[job.source].type # "query" =>
          job.ids = IdsOf(section.sources[job.source])

\* What the first sources list is merged, without a limit.
MergedSoFar(merged, section, sources) ==
    /\ \A k \in 1..sources : IsList(IdsOf(section.sources[k]))
    /\ InOrder(merged, section, Places(section, sources), -1)

SectionFits(section, job) ==
    /\ DOMAIN job = JobFields /\ job.source \in 0..Len(section.sources)
    /\ job.step \in {"source", "ids", "find", "redirect", "end"}
    /\ job.step = "ids" => job.source >= 1
    /\ job.step \in {"find", "redirect", "end"} => SourceFits(section, job)
    /\ IsList(job.merged) /\ Once(job.merged)
    /\ Steady /\ ~Searches(section) => MergedSoFar(job.merged, section, Done(job))

PreviewFits ==
    /\ DOMAIN jobs = DOMAIN asked.sections
    /\ \A i \in DOMAIN jobs : jobs[i].at = i /\ SectionFits(asked.sections[i], jobs[i])
    /\ reply # None /\ reply.status = "200" =>
          /\ \A i \in DOMAIN jobs :
                jobs[i].step = "source" /\ jobs[i].source = Len(asked.sections[i].sources)
          /\ reply.sections = [i \in DOMAIN jobs |->
                                  Limited(jobs[i].merged, asked.sections[i].limit)]

LookupInv ==
    /\ resources \subseteq Copies /\ lists \subseteq Lists /\ Apart /\ changes \in Nat
    /\ asked = None => reply = None
    /\ asked # None => IsRequest(asked) /\ asked.since \in Nat /\ asked.since <= changes
    /\ Seeks => IF asked.kind = "preview" THEN PreviewFits ELSE LookupFits

=============================================================================
