------------------------------- MODULE Search -------------------------------
(***************************************************************************)
(* Searching resources: SearchService.searchResources (text, taxonomy,     *)
(* complex, more-like-this), HybridSearchService.searchHybrid and the      *)
(* needs classification of AiSearchService, whose options show how many    *)
(* resources each of them would find.  Elasticsearch is external: an index *)
(* of documents, which changes while clients turn pages.  A search tries   *)
(* several services first and goes on without those that fail or, in the   *)
(* classic search, do not answer within two seconds.                       *)
(***************************************************************************)
EXTENDS Integers, Sequences, FiniteSets, SequencesExt, FiniteSetsExt

CONSTANTS
    Docs,        \* the documents there may be, records
    Queries,     \* what clients ask for, records
    FacetKeys,   \* the facets the tenant has configured
    Translated,  \* Translated[v]: the value of a facet v in the other language
    Rank,        \* Rank[v]: the alphabetical rank of a value
    Broker,      \* the answers the classifier may give
    Scope,       \* Scope[need]: the codes the re-ranking gives for a need
    FoundBy,    \* FoundBy[code]: what a client may write to find a code
    TotalCap,    \* how far Elasticsearch counts hits unless told to count all
    FacetsLimit, \* FACETS_LIMIT: how many values of a facet are counted
    MaxPages,    \* bounds of the model
    MaxChanges,
    None

\* A complex query as validateComplexQuery finds it: an inner node has a list.
IsTree(tree) ==
    /\ tree \in Seq(ToSet(tree)) /\ tree # <<>>
    /\ \A i \in DOMAIN tree : tree[i].code = None =>
            /\ tree[i].or # None \/ tree[i].and # None
            /\ \A list \in {tree[i].or, tree[i].and} \ {None} :
                    list \in Seq((i + 1)..Len(tree))

\* What SearchResourcesQueryDto lets through, of what clients may ask.
ASSUME SearchAssumption ==
    /\ IsFiniteSet(Docs)
    /\ \A d \in Docs :
        /\ d.id \in Int /\ d.priority \in Int
        /\ d.point # None => d.point \in Int
        /\ \A key \in FacetKeys :
            /\ IsFiniteSet(d.facets[key]) /\ IsFiniteSet(d.facetsEn[key])
            /\ d.facetsEn[key] \subseteq DOMAIN Translated
            /\ \A v \in d.facets[key] \cup d.facetsEn[key] : Rank[v] \in Int
    /\ \A d, e \in Docs : d.id = e.id => d = e
    /\ \A q \in Queries :
        /\ q.limit \in Nat \ {0} /\ q.distance \in Nat
        /\ q.age # None => q.age \in Nat
        /\ q.coords # None => q.coords \in Int
        /\ IsFiniteSet(q.meant)
        /\ q.form = "complex" => IsTree(q.tree)
    /\ FacetsLimit \in Nat /\ TotalCap \in Nat
    /\ None # "boundary"

VARIABLES
    index,       \* the documents in the index
    changes,     \* how often it has changed
    pc,          \* the next step of the search
    query,       \* what it is for
    page,        \* the page it is for
    basis,       \* what the services gave: facets, vector, codes, pinned
    reply,       \* its answer
    seen,        \* the pages of this query so far, each with its basis
    ai,          \* the classification under way, and its options
    counts       \* the counts of getDocumentsCount that Redis keeps

search == <<pc, query, page, basis, reply, seen>>
vars == <<index, changes, search, ai, counts>>

Init ==
    /\ index \in SUBSET Docs
    /\ changes = 0
    /\ pc = "idle" /\ query = None /\ page = 0
    /\ basis = None /\ reply = None /\ seen = <<>>
    /\ ai = None /\ counts = {}

-----------------------------------------------------------------------------
(* Complex queries: trees, as the sequence of their nodes, the root first.  *)
(* A node is a code, or has OR, AND or both: lists of nodes that come after. *)

IsLeaf(node) == node.code # None
Lists(node) == {node.or, node.and} \ {None}
Operands(node) == UNION {ToSet(list) : list \in Lists(node)}

Height(tree) ==
    LET height[i \in DOMAIN tree] ==
            IF IsLeaf(tree[i]) THEN 1
            ELSE 1 + Max({0} \cup {height[k] : k \in Operands(tree[i])})
    IN height[1]

\* validateComplexQuery: a list of no operands is let through.
Valid(tree) ==
    /\ Height(tree) <= 5
    /\ \A i \in DOMAIN tree : ~IsLeaf(tree[i]) =>
            \A list \in Lists(tree[i]) : Len(list) # 1

\* getComplexQueryObject, as Elasticsearch evaluates it: of a node with both
\* lists only OR is used, and a bool query without clauses matches.
Satisfied(d, tree) ==
    LET satisfied[i \in DOMAIN tree] ==
            IF IsLeaf(tree[i]) THEN tree[i].code \in d.codes
            ELSE IF tree[i].or # None
                 THEN tree[i].or = <<>> \/ \E k \in ToSet(tree[i].or) : satisfied[k]
                 ELSE \A k \in ToSet(tree[i].and) : satisfied[k]
    IN satisfied

Satisfies(d, tree) == Satisfied(d, tree)[1]

-----------------------------------------------------------------------------
(* buildFilters: what every search filters by. *)

Distance(a, b) == IF a < b THEN b - a ELSE a - b

HasFacet(d, key, value) == value \in d.facets[key] \cup d.facetsEn[key]
AgeFits(q, d) ==
    q.age # None =>
        /\ d.minAge # None => d.minAge <= q.age
        /\ d.maxAge # None => q.age <= d.maxAge
\* A document without a point is within any distance.
WithinRadius(q, d) ==
    q.distance > 0 => d.point = None \/ Distance(d.point, q.coords) <= q.distance
\* The slip: a boundary search goes on to the coordinates.
GeoFitsBoth(q, d) ==
    /\ q.geoType = "boundary" => q.geometry \cap d.area # {}
    /\ q.coords # None =>
            /\ q.geoType # "proximity" => q.coords \in d.area
            /\ WithinRadius(q, d)

GeoFits(q, d) ==
    IF q.geoType = "boundary" THEN q.geometry \cap d.area # {}
    ELSE q.coords # None =>
            /\ q.geoType # "proximity" => q.coords \in d.area
            /\ WithinRadius(q, d)

Filtered(q, d) ==
    /\ \A f \in q.filters : HasFacet(d, f[1], f[2])
    /\ AgeFits(q, d)
    /\ GeoFits(q, d)

-----------------------------------------------------------------------------
(* The documents of an index S that a search matches. *)

\* The fields of a text: those of the tenant's own attributes are searched
\* only if its configuration is there.
Searched(b, d) == d.words \cup d.title \cup IF b.attributes THEN d.attributes ELSE {}

\* getQueryObject: the text; the codes, by match_phrase_prefix; or the tree,
\* by whole codes.  The index is the tenant's own.
Classic(q, b, d) ==
    /\ d.tenant = q.tenant
    /\ IF q.form = "complex" THEN Satisfies(d, q.tree)
       ELSE IF q.type = "taxonomy" THEN \E c \in d.codes : q.codes \cap FoundBy[c] # {}
       ELSE (q.type = "text" /\ q.word = None) \/ q.word \in Searched(b, d)
    /\ Filtered(q, d)

InScope(codes, d) == codes \cap d.codes # {}

\* buildHybridQuery: filters make the population, all else only ranks.
Hybrid(q, d) ==
    /\ d.tenant = q.tenant
    /\ Filtered(q, d)
    /\ q.scope # {} => InScope(q.scope, d)

Matching(q, b, S) ==
    {d \in S : IF q.type = "hybrid" THEN Hybrid(q, d) ELSE Classic(q, b, d)}

\* Only the hybrid search sets track_total_hits.
Total(q, n) == IF q.type = "hybrid" \/ n < TotalCap THEN n ELSE TotalCap

\* What getDocumentsCount counts: the tenant and the codes alone.
Counted(tenant, codes) == {d \in index : d.tenant = tenant /\ InScope(codes, d)}

-----------------------------------------------------------------------------
(* Ranking.  A document has a sequence of keys, higher ones first; documents *)
(* with equal keys come in any order, another one for each search.           *)

Above(k1, k2) ==
    \E n \in DOMAIN k1 : k1[n] > k2[n] /\ \A m \in 1..(n - 1) : k1[m] = k2[m]

Bit(b) == IF b THEN 1 ELSE 0
Away(q, d) == IF d.point = None THEN 100 ELSE Distance(d.point, q.coords)

\* buildTaxonomyBoostClauses: the earlier a code was predicted, the more.
CodeBoost(b, d) ==
    LET boost[i \in 0..Len(b.predicted)] ==
            IF i = 0 THEN 0
            ELSE boost[i - 1] + IF b.predicted[i] \in d.codes THEN 100 + 50 \div i ELSE 0
    IN boost[Len(b.predicted)]

\* The sum of the clauses and functions, in halves.
Score(q, b, d) ==
    LET lexical == IF q.word = None THEN 0
                   ELSE 30 * Bit(q.word \in d.title) + 2 * Bit(q.word \in d.words)
        vector == IF b.vector THEN 200 * Bit(q.word \in d.meaning) ELSE 0
        near == IF q.coords = None \/ d.point = None THEN 0 ELSE 3 \div (1 + Away(q, d))
        boosts == IF b.pinned THEN 10 * Bit(d.pinned) + 2 * d.priority ELSE 0
    IN lexical + vector + CodeBoost(b, d) + near + boosts

\* The last key, the id of the document, is never the same twice.
HybridKeys(q, b, d) ==
    IF b.pinned THEN <<Score(q, b, d), -d.id>>
    ELSE <<Bit(d.pinned), d.priority, Score(q, b, d), -d.id>>

\* buildSort: without coordinates, distance falls through to the name.
ClassicKeys(q, d) ==
    LET near == q.coords # None /\ (q.sort = "relevance" => q.type = "taxonomy")
    IN IF q.sort \in {"distance", "relevance"} /\ near THEN <<d.priority, -Away(q, d)>>
       ELSE IF q.sort = "organization" THEN <<d.priority, -d.org, -d.name>>
       ELSE IF q.sort # "relevance" THEN <<d.priority, -d.name>>
       ELSE IF q.type = "taxonomy" THEN <<d.priority, -d.id>> ELSE <<d.priority>>

\* The slip: no key that is unique.
KeysWithoutId(q, b, d) ==
    IF q.type = "hybrid" THEN Front(HybridKeys(q, b, d)) ELSE ClassicKeys(q, d)

Keys(q, b, d) == IF q.type = "hybrid" THEN HybridKeys(q, b, d) ELSE ClassicKeys(q, d)

Orders(q, b, hits) ==
    LET keys == [d \in hits |-> Keys(q, b, d)]
    IN {s \in SetToSeqs(hits) :
            \A i, j \in DOMAIN s : i < j => ~Above(keys[s[j]], keys[s[i]])}

Slice(s, from, size) == SubSeq(s, from + 1, IF from + size < Len(s) THEN from + size ELSE Len(s))

-----------------------------------------------------------------------------
(* Facets.  The values of each language are counted apart, most frequent    *)
(* first, equals by the alphabet, and the first FacetsLimit given;          *)
(* transformAggregations puts the two lists side by side.                   *)

Values(d, key, lang) == IF lang = "en" THEN d.facetsEn[key] ELSE d.facets[key]

Counts(hits, key, lang) ==
    {[key |-> v, count |-> Cardinality({d \in hits : v \in Values(d, key, lang)})] :
        v \in UNION {Values(d, key, lang) : d \in hits}}

Before(x, y) == x.count > y.count \/ (x.count = y.count /\ Rank[x.key] < Rank[y.key])
Place(all, x) == Cardinality({y \in all : Before(y, x)}) + 1

Buckets(hits, key, lang) ==
    LET all == Counts(hits, key, lang)
        first == {x \in all : Place(all, x) <= FacetsLimit}
    IN [n \in 1..Cardinality(first) |-> CHOOSE x \in first : Place(all, x) = n]

\* The slip: both lists are of the same field.
FacetLocalOnly(hits, key) ==
    LET en == Buckets(hits, key, "en")
    IN [i \in DOMAIN en |->
            [en |-> en[i].key, locale |-> en[i].key, count |-> en[i].count]]

Facet(hits, key) ==
    LET en == Buckets(hits, key, "en")
        local == Buckets(hits, key, "locale")
    IN [i \in DOMAIN en |->
            [en |-> en[i].key, count |-> en[i].count,
             locale |-> IF i \in DOMAIN local THEN local[i].key ELSE en[i].key]]

-----------------------------------------------------------------------------
(* A search. *)

Answer(r) == pc' = "done" /\ reply' = r
Refused(status) == [status |-> status]

\* What searchResources and getQueryType turn away before anything is asked.
Refusal(q) ==
    IF q.type = "hybrid" THEN None
    ELSE IF q.type = "text" /\ q.form = "codes" THEN "501"
    ELSE IF q.form = "complex" /\ (q.type # "taxonomy" \/ ~Valid(q.tree)) THEN "400"
    ELSE None

Unbounded(q) == q.geoType = "boundary" /\ q.geometry = None

Start(q, n) ==
    /\ pc \in {"idle", "done"}
    /\ query' = q
    /\ page' = n
    /\ pc' = "config"
    /\ basis' = None /\ reply' = None
    /\ UNCHANGED <<index, changes, ai, counts>>

Ask(q) == Start(q, 1) /\ seen' = <<>>

\* A client turns the page.
NextPage ==
    /\ pc = "done" /\ reply.status = "200" /\ page < MaxPages
    /\ Start(query, page + 1)
    /\ UNCHANGED seen

Embeds(q) == q.type = "hybrid" /\ q.word # None

\* The configuration of the tenant (its facets and, for a classic search, the
\* attributes to search), and for a hybrid search with a query its embedding,
\* all at once; each may fail or be late, and is then done without.
Configure ==
    /\ pc = "config"
    /\ \E facets \in {FacetKeys, {}}, attributes, vector, pinned \in BOOLEAN :
        /\ attributes => query.type # "hybrid"
        /\ vector => Embeds(query)
        /\ pinned => query.type = "hybrid"
        /\ basis' = [facets |-> facets, attributes |-> attributes, vector |-> vector,
                     pinned |-> pinned, predicted |-> <<>>]
        /\ pc' = IF vector THEN "predict" ELSE "search"
    /\ UNCHANGED <<index, changes, query, page, reply, seen, ai, counts>>

\* getTaxonomyCodes: needs a vector; when it fails, no code is boosted.
PredictCodes ==
    /\ pc = "predict"
    /\ \E codes \in {<<>>} \cup SetToSeqs(query.meant) :
        basis' = [basis EXCEPT !.predicted = codes]
    /\ pc' = "search"
    /\ UNCHANGED <<index, changes, query, page, reply, seen, ai, counts>>

Found(hits, order) ==
    [status |-> "200", total |-> Total(query, Cardinality(hits)),
     hits |-> Slice(order, (page - 1) * query.limit, query.limit),
     facets |-> [key \in basis.facets |-> Facet(hits, key)]]

\* Elasticsearch answers, or fails.
Execute ==
    /\ pc = "search"
    /\ Refusal(query) = None /\ ~Unbounded(query)
    /\ \/ \E hits \in {Matching(query, basis, index)} : \E order \in Orders(query, basis, hits) :
            /\ Answer(Found(hits, order))
            /\ seen' = Append(seen, [basis |-> basis, index |-> index,
                                     hits |-> reply'.hits])
       \/ Answer(Refused("500")) /\ UNCHANGED seen
    /\ UNCHANGED <<index, changes, query, page, basis, ai, counts>>

Refuse ==
    /\ pc = "search"
    /\ Refusal(query) # None \/ Unbounded(query)
    /\ Answer(Refused(IF Refusal(query) # None THEN Refusal(query) ELSE "400"))
    /\ UNCHANGED <<index, changes, query, page, basis, seen, ai, counts>>

\* The index is external: documents come and go.
Reindex(d) ==
    /\ changes < MaxChanges
    /\ changes' = changes + 1
    /\ index' = IF d \in index THEN index \ {d} ELSE index \cup {d}
    /\ UNCHANGED <<search, ai, counts>>

-----------------------------------------------------------------------------
(* The classification of needs. *)

\* resolveScenario.
Scenario(b) ==
    IF b.lowInfo
    THEN IF b.labels > 1 THEN "clarify_low_info" ELSE "search_and_notify_low_info"
    ELSE IF b.high
         THEN IF b.multiple THEN "clarify_multiple_labels" ELSE "search"
         ELSE "search_and_notify_low_confidence"

Clarifies(b) == Scenario(b) \in {"clarify_low_info", "clarify_multiple_labels"}

Option(step) == [step |-> step, codes |-> {}, count |-> 0, at |-> {}]

\* callMlBroker: 502 when the broker fails or cannot be reached, 503 when it
\* is late or not configured.
BrokerErrors == {"502", "503"}

Classify(tenant, b) ==
    /\ ai = None
    /\ \/ ai' = [tenant |-> tenant, status |-> "200", scenario |-> Scenario(b),
                 options |-> [n \in b.needs |->
                    Option(IF Clarifies(b) THEN "rerank" ELSE "done")]]
       \/ \E status \in BrokerErrors :
            ai' = [tenant |-> tenant, status |-> status, scenario |-> None,
                   options |-> [n \in {} |-> None]]
    /\ UNCHANGED <<index, changes, search, counts>>

SetOption(n, option) ==
    /\ ai' = [ai EXCEPT !.options[n] = option]
    /\ UNCHANGED <<index, changes, search>>

Asked(n, step) ==
    /\ ai # None
    /\ n \in DOMAIN ai.options /\ ai.options[n].step = step

\* buildOptions, for each need by itself: its codes, then their count; what
\* fails counts 0.
ReRank(n) ==
    /\ Asked(n, "rerank")
    /\ \/ SetOption(n, [Option("count") EXCEPT !.codes = Scope[n]])
       \/ SetOption(n, Option("failed"))
    /\ UNCHANGED counts

\* The slip: the counts of one tenant are another's.
KeyOfCodes(tenant, codes) == <<codes>>

\* hybridDocumentsCountCacheKey, in one language.
CountKey(tenant, codes) == <<tenant, codes>>

\* The factory of getDocumentsCount: a count, or 0 for one that failed.
Counting(tenant, codes) ==
    {[key |-> CountKey(tenant, codes), ok |-> TRUE, at |-> index,
      count |-> Cardinality(Counted(tenant, codes))],
     [key |-> CountKey(tenant, codes), ok |-> FALSE, at |-> index, count |-> 0]}

Show(n, codes, c) ==
    SetOption(n, [step |-> IF c.ok THEN "counted" ELSE "failed",
                  codes |-> codes, count |-> c.count, at |-> c.at])

\* getDocumentsCount through getOrSet: what Redis has, or what the factory
\* gives, which Redis keeps, a failed count like any other, if it answers.
Count(n) ==
    /\ Asked(n, "count")
    /\ LET codes == ai.options[n].codes
           key == CountKey(ai.tenant, codes)
       IN \/ codes = {} /\ SetOption(n, Option("counted")) /\ UNCHANGED counts
          \/ /\ codes # {}
             /\ \E c \in counts : c.key = key /\ Show(n, codes, c)
             /\ UNCHANGED counts
          \/ /\ codes # {}
             /\ \E c \in Counting(ai.tenant, codes) :
                    /\ Show(n, codes, c)
                    /\ counts' \in {counts, {k \in counts : k.key # key} \cup {c}}

\* After an hour.
Expire ==
    /\ \E c \in counts : counts' = counts \ {c}
    /\ UNCHANGED <<index, changes, search, ai>>

\* The user reads the answer and goes elsewhere.
Leave ==
    /\ ai # None
    /\ \A n \in DOMAIN ai.options : ai.options[n].step \notin {"rerank", "count"}
    /\ ai' = None
    /\ UNCHANGED <<index, changes, search, counts>>

Next ==
    \/ \E q \in Queries : Ask(q)
    \/ NextPage \/ Configure \/ PredictCodes \/ Execute \/ Refuse
    \/ \E d \in Docs : Reindex(d)
    \/ \E d \in Docs, b \in Broker : Classify(d.tenant, b)
    \/ ai # None /\ \E n \in DOMAIN ai.options : ReRank(n) \/ Count(n)
    \/ Expire \/ Leave

Spec == Init /\ [][Next]_vars

-----------------------------------------------------------------------------
(* Properties. *)

\* The documents of S that a tree denotes, if each list has at least two operands.
Proper(tree) ==
    \A i \in DOMAIN tree : ~IsLeaf(tree[i]) => \A list \in Lists(tree[i]) : Len(list) >= 2

Denotation(tree, S) ==
    LET denoted[i \in DOMAIN tree] ==
            IF IsLeaf(tree[i]) THEN {d \in S : tree[i].code \in d.codes}
            ELSE IF tree[i].or # None THEN UNION {denoted[k] : k \in ToSet(tree[i].or)}
            ELSE S \ UNION {S \ denoted[k] : k \in ToSet(tree[i].and)}
    IN denoted

Denoted(tree, S) == Denotation(tree, S)[1]

Ages(d) == {a \in Nat : /\ d.minAge = None \/ d.minAge <= a
                        /\ d.maxAge = None \/ a <= d.maxAge}
Reached(q, d) ==
    IF q.geoType = "boundary" THEN \E p \in q.geometry : p \in d.area
    ELSE \/ q.coords = None
         \/ /\ q.distance = 0 \/ d.point = None \/ Distance(d.point, q.coords) \in 0..q.distance
            /\ q.geoType = "proximity" \/ q.coords \in d.area

AsksForWord(q) ==
    q.form # "complex" /\ q.type \notin {"hybrid", "taxonomy"} /\ (q.type = "text" => q.word # None)

Wanted(q, S) ==
    {d \in IF q.type = "hybrid" THEN {d \in S : q.scope = {} \/ \E c \in q.scope : c \in d.codes}
           ELSE IF q.form = "complex" THEN Denoted(q.tree, S)
           ELSE IF q.type = "taxonomy"
           THEN {d \in S : \E p \in q.codes : \E c \in d.codes : p \in FoundBy[c]}
           ELSE IF ~AsksForWord(q) THEN S
           ELSE {d \in S : q.word \in d.words \cup d.title \cup d.attributes} :
        /\ d.tenant = q.tenant
        /\ q.age # None => q.age \in Ages(d)
        /\ Reached(q, d)
        /\ \A f \in q.filters : f[2] \in d.facets[f[1]] \/ f[2] \in d.facetsEn[f[1]]}

\* The documents that have the word in an attribute and nowhere else.
Overlooked(q, S) ==
    {d \in Wanted(q, S) : AsksForWord(q) /\ q.word \notin d.words \cup d.title}

(***************************************************************************)
(* A search finds the documents of the tenant that its filters, and for    *)
(* the classic search its query, ask for, and no others, whichever of the  *)
(* embedding, the prediction, the facets and the pinning failed: what      *)
(* helps to rank never decides what is found.  Only the attributes do: a   *)
(* search for a text that has to do without them overlooks the documents   *)
(* that have it there and nowhere else.  A document without a point counts *)
(* as within any distance.  A page is as long as what is left for it, and  *)
(* the total is right up to the cap of a classic search.                   *)
(***************************************************************************)
FindsWhatIsWanted ==
    pc = "done" /\ reply.status = "200" /\ (query.form = "complex" => Proper(query.tree)) =>
        LET last == Last(seen)
            found == Wanted(query, last.index)
                        \ IF last.basis.attributes THEN {} ELSE Overlooked(query, last.index)
            left == Cardinality(found) - (page - 1) * query.limit
        IN /\ ToSet(reply.hits) \subseteq found
           /\ Len(reply.hits) = IF left <= 0 THEN 0
                                ELSE IF left < query.limit THEN left ELSE query.limit
           /\ reply.total = Total(query, Cardinality(found))

(***************************************************************************)
(* The pages of a hybrid search, or of one by taxonomy, share no document  *)
(* and leave none out, as long as the index stays as it is and the same    *)
(* services answer for each.                                               *)
(***************************************************************************)
Stable == \A i, j \in DOMAIN seen :
    seen[i].index = seen[j].index /\ seen[i].basis = seen[j].basis
OneOrder(q) == q.type = "hybrid" \/ (q.type = "taxonomy" /\ q.sort = "relevance" /\ q.coords = None)

PagesPartition ==
    pc = "done" /\ reply.status = "200" /\ Stable /\ OneOrder(query) =>
        /\ \A i, j \in DOMAIN seen :
            \A m \in DOMAIN seen[i].hits, n \in DOMAIN seen[j].hits :
                seen[i].hits[m] = seen[j].hits[n] => i = j /\ m = n
        /\ \/ \A i \in DOMAIN seen : Len(seen[i].hits) = query.limit
           \/ UNION {ToSet(seen[i].hits) : i \in DOMAIN seen}
                = Matching(query, Last(seen).basis, Last(seen).index)

(***************************************************************************)
(* The count an option shows is the total of the hybrid search for its     *)
(* codes that the user makes next, however long Redis has kept the count   *)
(* and whoever had it counted, if the index is as it was then; an option   *)
(* whose count failed, then or when it was kept, shows 0.                  *)
(***************************************************************************)
SearchesScope(q, tenant, codes) ==
    /\ q.type = "hybrid" /\ q.tenant = tenant /\ q.scope = codes /\ codes # {}
    /\ q.filters = {} /\ q.age = None /\ q.coords = None /\ q.geoType # "boundary"

CountsAgree ==
    ai # None => \A n \in DOMAIN ai.options :
        LET o == ai.options[n]
        IN /\ o.step # "counted" => o.count = 0
           /\ /\ o.step = "counted" /\ pc = "done" /\ reply.status = "200"
              /\ SearchesScope(query, ai.tenant, o.codes)
              /\ Last(seen).index = o.at
              => reply.total = o.count

(***************************************************************************)
(* Each facet value is shown with its own translation, if every document   *)
(* has both, no two values are translated alike and no two of the hits'    *)
(* values are equally frequent: the two lists of buckets are paired by     *)
(* position only.                                                          *)
(***************************************************************************)
Bilingual(S) ==
    /\ IsInjective(Translated)
    /\ \A d \in S, key \in FacetKeys :
            d.facets[key] = {Translated[v] : v \in d.facetsEn[key]}

Distinct(all) == \A x, y \in all : x.count = y.count => x = y

LabelsPairUp ==
    pc = "done" /\ reply.status = "200" /\ Bilingual(Last(seen).index) =>
        \A key \in DOMAIN reply.facets :
            Distinct(Counts(Matching(query, Last(seen).basis, Last(seen).index), key, "en")) =>
                \A i \in DOMAIN reply.facets[key] :
                    reply.facets[key][i].locale = Translated[reply.facets[key][i].en]

=============================================================================
