--------------------------- MODULE UmamiAnalytics ---------------------------
(***************************************************************************)
(* The analytics reports: UmamiAnalyticsService, the fan-out over websites *)
(* of UmamiHttpService, the token that UmamiAuthService shares, and the    *)
(* aggregators and parsers.  A report is a sequence of stages; a stage is  *)
(* one or several fan-outs in parallel, and each fan-out gets a token and  *)
(* then asks every website.  Events keep arriving at Umami meanwhile.      *)
(* (UmamiAuthService.invalidate, which nothing calls, is left out.)        *)
(***************************************************************************)
EXTENDS Integers, Sequences, FiniteSets, Functions, SequencesExt

CONSTANTS
    Reports,        \* the requests for reports that clients may send
    Scenarios,      \* what to start from: [log, kinds], see UmamiInit
    Websites,       \* the websites of the tenant
    Main,           \* the root website, asked when a request names none
    Strangers,      \* websites of other tenants
    Arrivals,       \* the events that may arrive while reports are made
    MaxTokens,      \* how often Umami issues a token
    PageSize,       \* rows of a page
    CatalogRows,    \* rows the catalogue looks at for each event name
    MaxPages,       \* when the heatmap stops asking for sessions
    RootPaths,      \* the paths that are the search page itself,
    ResourcePaths,  \*   and those of a resource below it
    Query,          \* Query[p]: type and label of a search with path p, or Nothing
    Coord,          \* Coord[a]: what geocoding an address gives, or Nothing
    Nothing

ReportKinds ==
    {"stats", "pageviews", "resource-metrics", "searches", "metrics", "search_zero_results",
     "language_switch", "resource_viewed", "event-values", "sessions", "heatmap", "export",
     "area-searches", "event-catalog"}

ASSUME UmamiAssumption ==
    /\ Main \in Websites /\ Websites \cap Strangers = {}
    /\ IsFiniteSet(Websites) /\ IsFiniteSet(RootPaths) /\ IsFiniteSet(ResourcePaths)
    /\ {PageSize, CatalogRows, MaxPages} \subseteq Nat \ {0}
    /\ \A s \in Scenarios :
          /\ DOMAIN s.log = Websites /\ \A w \in Websites : s.log[w] \in Seq(ToSet(s.log[w]))
          /\ s.kinds \in [Reports -> SUBSET ReportKinds]
    /\ \A kind \in ReportKinds, S \in SUBSET Websites : [kind |-> kind, sites |-> S] # Nothing

VARIABLES
    log,      \* log[w]: the events of website w, oldest first
    kinds,    \* kinds[r]: the reports request r may ask for
    live,     \* the tokens Umami accepts
    cached,   \* cachedToken, 0 for none
    issued,   \* the last token Umami issued
    arrivals, \* how many more events may arrive
    login,    \* whether a login is in flight
    ask,      \* ask[r]: report and websites of request r, or Nothing
    stages,   \* stages[r]: the stages it still has to do, the first under way
    page,     \* page[r]: the page the stage is at
    total,    \* total[r]: how many pages it has
    tasks,    \* tasks[r]: the fan-outs of the stage
    acc,      \* acc[r]: the aggregated responses so far, with their calls
    before,   \* before[r]: the logs when it was sent
    answer    \* answer[r]: Nothing, a report, or an error

auth == <<live, cached, issued, login>>
work == <<ask, stages, page, total, tasks, acc, before, answer>>
umamiVars == <<log, kinds, arrivals, auth, work>>

-----------------------------------------------------------------------------
(* Umami: how it counts and pages what it has logged. *)

Call(ep, of) == [ep |-> ep, of |-> of]

Tally(S, by(_)) == [x \in {by(i) : i \in S} |-> Cardinality({i \in S : by(i) = x})]

\* Page p of some rows, the newest first.
PageOf(rows, p, size) ==
    LET last == IF p * size < Len(rows) THEN p * size ELSE Len(rows)
    IN SubSeq(Reverse(rows), (p - 1) * size + 1, last)

\* The events of one name.
Named(L, name) ==
    FlattenSeq([i \in DOMAIN L |-> IF L[i].name = name THEN <<L[i]>> ELSE <<>>])

\* The answer to a call for page p from a website that has logged L.
Response(c, L, p, size) ==
    LET named == {i \in DOMAIN L : L[i].name = c.of}
        events == {i \in DOMAIN L : L[i].name \notin {"view", "session"}}
        asked == {i \in named : Query[L[i].text] # Nothing}
        rows == Named(L, c.of)
    IN CASE c.ep = "stats" -> Cardinality(named)
         [] c.ep = "pageviews" -> Tally(named, LAMBDA i : "day")
         [] c.ep = "query" -> Tally(asked, LAMBDA i : Query[L[i].text])
         [] c.ep \in {"path", "values"} -> Tally(named, LAMBDA i : L[i].text)
         [] c.ep = "series" -> Tally(events, LAMBDA i : L[i].name)
         [] OTHER -> [data |-> PageOf(rows, p, size), count |-> Len(rows)]

-----------------------------------------------------------------------------
(* Aggregators and parsers. *)

At(f, x) == IF x \in DOMAIN f THEN f[x] ELSE 0
Restricted(f, S) == [x \in DOMAIN f \cap S |-> f[x]]
Total(f, S) == SumFunction([x \in S |-> At(f, x)])

\* mergeMetricEntries, mergeMetricsExpanded: totals of equal names add up.
MergeByName(rs) ==
    [x \in UNION {DOMAIN rs[w] : w \in DOMAIN rs} |->
        SumFunction([w \in DOMAIN rs |-> At(rs[w], x)])]

Aggregate(c, rs) ==
    LET ws == SetToSeq(DOMAIN rs)
    IN CASE c.ep = "stats" -> SumFunction(rs)
         [] c.ep \in {"pivot", "keys", "sessions", "sessionPage"} ->
                [data |-> FlattenSeq([i \in DOMAIN ws |-> rs[ws[i]].data]),
                 count |-> SumFunction([w \in DOMAIN rs |-> rs[w].count])]
         [] OTHER -> MergeByName(rs)

-----------------------------------------------------------------------------
(* The reports, as the number of times they count each of their items.     *)

Searches == {"search_text", "search_taxonomy"}
ZeroResults == "search_zero_results"
ValueKinds == {ZeroResults, "language_switch", "resource_viewed"}

\* getEventValues and its three named relatives: the values of one event.
EventValues(event) == <<{Call("values", event)}>>

\* The stages of each report; the catalogue adds one for each event name.
Plan(kind) ==
    CASE kind = "stats" -> <<{Call("stats", "view")}>>
      [] kind = "pageviews" -> <<{Call("pageviews", "view")}>>
      [] kind = "resource-metrics" -> <<{Call("path", "view")}>>
      [] kind = "searches" -> <<{Call("query", "view")}>>
      [] kind = "metrics" ->
            <<{Call("path", "view"), Call("query", "view"), Call("series", Nothing)}>>
      [] kind \in ValueKinds -> EventValues(kind)
      [] kind = "event-values" -> EventValues(ZeroResults)
      [] kind = "sessions" -> <<{Call("sessionPage", "session")}>>
      [] kind = "heatmap" -> <<{Call("sessions", "session")}>>
      [] kind = "export" ->
            <<{Call("pivot", "search_text")}, {Call("pivot", "search_taxonomy")}>>
      [] kind = "area-searches" ->
            <<{Call("pivot", "search_text")}, {Call("pivot", "search_taxonomy")},
              {Call("pivot", ZeroResults)}>>
      [] kind = "event-catalog" -> <<{Call("series", Nothing)}>>

Body(a, ep) == (CHOOSE i \in ToSet(a) : i.call.ep = ep).body
Rows(a, c) == FlattenSeq([i \in DOMAIN a |-> IF a[i].call = c THEN a[i].body.data ELSE <<>>])
Pivots(a, event) == Rows(a, Call("pivot", event))
CountRows(rows, S, item(_)) ==
    Tally({i \in DOMAIN rows : rows[i] \in S}, LAMBDA i : item(rows[i]))

\* parseMetrics: views of the search page, and of the resources below it.
Metrics(path, series) ==
    [x \in {<<"searches">>, <<"resourceViews">>} \cup {<<"event", n>> : n \in DOMAIN series} |->
        IF x = <<"searches">> THEN Total(path, RootPaths)
        ELSE IF x = <<"resourceViews">> THEN Total(path, ResourcePaths)
        ELSE series[x[2]]]

SearchTypes == {"text", "taxonomy", "hybrid"}
Typed(f) == Restricted(f, {q \in DOMAIN f : q[1] \in SearchTypes})

\* toMetricEntries drops a value that is empty.
Entries(f) == Restricted(f, DOMAIN f \ {""})

Stats(views) == [x \in {"pageviews"} |-> views]
ResourceMetrics(path) == Restricted(path, ResourcePaths)
Sessions(rows) == CountRows(rows, ToSet(rows), LAMBDA e : e)

\* toExportRow: an event without a label is skipped, one whose coordinates
\* cannot be resolved is not.
Exportable(e) == e.text # ""
Exported(rows) == CountRows(rows, {e \in ToSet(rows) : Exportable(e)}, LAMBDA e : e)

\* getAreaSearches: an event in an area counts, a zero-result event twice.
Areas(found, zero) ==
    LET byArea(rows) == CountRows(rows, {e \in ToSet(rows) : e.place # Nothing},
                              LAMBDA e : e.place)
        all == byArea(found \o zero)
    IN [x \in (DOMAIN all) \X {"total", "zero"} |->
            IF x[2] = "total" THEN all[x[1]] ELSE At(byArea(zero), x[1])]

\* getHeatmap: sessions at an address that could be geocoded, by coordinates.
Points(rows, found) ==
    CountRows(rows, {e \in ToSet(rows) : e.place \in found}, LAMBDA e : Coord[e.place])

\* getEventCatalog: the names, with the properties of the rows looked at.
Catalog(a) ==
    LET seen == {Rows(a, Call("keys", n)) : n \in DOMAIN Body(a, "series")}
    IN [x \in {<<n>> : n \in DOMAIN Body(a, "series")}
              \cup {<<e.name, e.text>> : e \in UNION {ToSet(s) : s \in seen}} |-> 1]

Report(kind, a, found) ==
    CASE kind = "stats" -> Stats(Body(a, "stats"))
      [] kind = "pageviews" -> Body(a, "pageviews")
      [] kind = "resource-metrics" -> ResourceMetrics(Body(a, "path"))
      [] kind = "searches" -> Typed(Body(a, "query"))
      [] kind = "metrics" -> Metrics(Body(a, "path"), Body(a, "series"))
      [] kind \in ValueKinds -> Entries(Body(a, "values"))
      [] kind = "event-values" -> Body(a, "values")
      [] kind = "sessions" -> Sessions(Rows(a, Call("sessionPage", "session")))
      [] kind = "heatmap" -> Points(Rows(a, Call("sessions", "session")), found)
      [] kind = "export" -> Exported(Pivots(a, "search_text") \o Pivots(a, "search_taxonomy"))
      [] kind = "area-searches" ->
            Areas(Pivots(a, "search_text") \o Pivots(a, "search_taxonomy"), Pivots(a, ZeroResults))
      [] kind = "event-catalog" -> Catalog(a)

-----------------------------------------------------------------------------
UmamiInit ==
    /\ \E s \in Scenarios :
        log = s.log /\ kinds = s.kinds /\ arrivals = s.arrivals
    /\ live = {} /\ cached = 0 /\ issued = 0 /\ login = FALSE
    /\ ask = [r \in Reports |-> Nothing]
    /\ stages = [r \in Reports |-> <<>>]
    /\ page = [r \in Reports |-> 0] /\ total = [r \in Reports |-> 0]
    /\ tasks = [r \in Reports |-> <<>>]
    /\ acc = [r \in Reports |-> <<>>]
    /\ before = [r \in Reports |-> Nothing]
    /\ answer = [r \in Reports |-> Nothing]

Awaited(r) == ask[r] # Nothing /\ answer[r] = Nothing

\* The fan-outs of a stage, before they have a token.
NewTasks(calls, sites) ==
    [c \in calls |-> [step |-> "token", token |-> 0, doubt |-> FALSE,
                      got |-> [w \in sites |-> Nothing]]]

Failure(e) == [outcome |-> e, found |-> {}, counts |-> <<>>]

\* getWebsiteIds: the root website, or those named if the tenant has them all.
Sites(named) == IF named = {} THEN {Main} ELSE named
Allowed(named) == named \subseteq Websites

AskReport(r, kind, named) ==
    /\ ask[r] = Nothing
    /\ ask' = [ask EXCEPT ![r] = [kind |-> kind, sites |-> Sites(named)]]
    /\ before' = [before EXCEPT ![r] = log]
    /\ \/ /\ Allowed(named)
          /\ stages' = [stages EXCEPT ![r] = Plan(kind)]
          /\ tasks' = [tasks EXCEPT ![r] = NewTasks(Head(Plan(kind)), Sites(named))]
          /\ page' = [page EXCEPT ![r] = 1]
          /\ UNCHANGED answer
       \/ /\ ~Allowed(named)
          /\ answer' = [answer EXCEPT ![r] = Failure("forbidden")]
          /\ UNCHANGED <<stages, tasks, page>>
    /\ UNCHANGED <<log, kinds, arrivals, auth, total, acc>>

\* The request ends; what its other fan-outs bring is not looked at.
Finish(R, a) ==
    /\ answer' = [r \in Reports |-> IF r \in R THEN a ELSE answer[r]]
    /\ tasks' = [r \in Reports |-> IF r \in R THEN <<>> ELSE tasks[r]]
    /\ acc' = [r \in Reports |-> IF r \in R THEN <<>> ELSE acc[r]]
    /\ stages' = [r \in Reports |-> IF r \in R THEN <<>> ELSE stages[r]]

Doing(r, c, step) == Awaited(r) /\ c \in DOMAIN tasks[r] /\ tasks[r][c].step = step

To(r, c, step, token) ==
    tasks' = [tasks EXCEPT ![r][c].step = step, ![r][c].token = token]

(***************************************************************************)
(* getToken: the cached token is verified first; without one, or when it   *)
(* is refused or the check fails, a login is started or joined.            *)
(***************************************************************************)
Login(r, c) ==
    /\ login' = TRUE
    /\ To(r, c, "join", 0)

GetToken(r, c) ==
    /\ Doing(r, c, "token")
    /\ \/ cached # 0 /\ To(r, c, "verify", cached) /\ UNCHANGED login
       \/ cached = 0 /\ Login(r, c)
    /\ UNCHANGED <<log, kinds, arrivals, live, cached, issued, ask, stages, page, total,
                   acc, before, answer>>

\* The slip does without the check.
TrustToken(r, c) ==
    /\ Doing(r, c, "verify")
    /\ To(r, c, "fetch", cached)
    /\ UNCHANGED <<log, kinds, arrivals, auth, ask, stages, page, total, acc, before, answer>>

\* The slip gets the token again when it was refused.
VerifyAgain(r, c) ==
    /\ Doing(r, c, "verify")
    /\ \/ tasks[r][c].token \in live /\ To(r, c, "fetch", cached)
       \/ To(r, c, "token", 0)
    /\ UNCHANGED <<log, kinds, arrivals, auth, ask, stages, page, total, acc, before, answer>>

\* What is used is the token cached by then, not the one that was checked.
Verify(r, c) ==
    /\ Doing(r, c, "verify")
    /\ \/ /\ tasks[r][c].token \in live
          /\ To(r, c, "fetch", cached)
          /\ UNCHANGED login
       \/ Login(r, c)
    /\ UNCHANGED <<log, kinds, arrivals, live, cached, issued, ask, stages, page, total,
                   acc, before, answer>>

Joiners == {r \in Reports : \E c \in DOMAIN tasks[r] : tasks[r][c].step = "join"}

LoggedIn ==
    /\ login /\ issued < MaxTokens
    /\ issued' = issued + 1
    /\ cached' = issued + 1
    /\ live' = live \cup {issued + 1}
    /\ login' = FALSE
    /\ tasks' = [r \in Reports |-> [c \in DOMAIN tasks[r] |->
            IF tasks[r][c].step = "join"
            THEN [tasks[r][c] EXCEPT !.step = "fetch", !.token = issued + 1]
            ELSE tasks[r][c]]]
    /\ UNCHANGED <<log, kinds, arrivals, ask, stages, page, total, acc, before, answer>>

\* getToken of UmamiHttpService does not await: no 502 for these.
LoginFailed ==
    /\ login
    /\ login' = FALSE
    /\ Finish(Joiners, Failure("login failed"))
    /\ UNCHANGED <<log, kinds, arrivals, live, cached, issued, ask, page, total, before>>

\* Umami forgets a token; whoever is between getting and using one may fail.
Revoke(t) ==
    /\ live' = live \ {t}
    /\ tasks' = [r \in Reports |-> [c \in DOMAIN tasks[r] |->
            IF tasks[r][c].step = "token" THEN tasks[r][c]
            ELSE [tasks[r][c] EXCEPT !.doubt = TRUE]]]
    /\ UNCHANGED <<log, kinds, arrivals, cached, issued, login, ask, stages, page, total,
                   acc, before, answer>>

-----------------------------------------------------------------------------
(* The fan-out: every website is asked; one failure fails the whole. *)

Size(c) == IF c.ep = "keys" THEN CatalogRows ELSE PageSize

Fetch(r, c, w) ==
    /\ Doing(r, c, "fetch")
    /\ w \in ask[r].sites /\ tasks[r][c].got[w] = Nothing
    /\ tasks[r][c].token \in live
    /\ tasks' = [tasks EXCEPT ![r][c].got[w] = Response(c, log[w], page[r], Size(c))]
    /\ UNCHANGED <<log, kinds, arrivals, auth, ask, stages, page, total, acc, before, answer>>

\* The slip: a website that fails counts for nothing.
SoftFail(r, c, w) ==
    /\ Doing(r, c, "fetch")
    /\ w \in ask[r].sites /\ tasks[r][c].got[w] = Nothing
    /\ tasks' = [tasks EXCEPT ![r][c].got[w] =
            CASE c.ep = "stats" -> 0
              [] c.ep \in {"pivot", "keys", "sessions", "sessionPage"} ->
                    [data |-> <<>>, count |-> 0]
              [] OTHER -> [x \in {} |-> 0]]
    /\ UNCHANGED <<log, kinds, arrivals, auth, ask, stages, page, total, acc, before, answer>>

FetchFails(r, c, w) ==
    /\ Doing(r, c, "fetch")
    /\ w \in ask[r].sites /\ tasks[r][c].got[w] = Nothing
    /\ Finish({r}, Failure("bad gateway"))
    /\ UNCHANGED <<log, kinds, arrivals, auth, ask, page, total, before>>

\* Math.ceil(count / pageSize), decided on the first page; at least one.
Pages(r, body) ==
    IF page[r] > 1 THEN total[r]
    ELSE IF body.count <= PageSize THEN 1 ELSE (body.count + PageSize - 1) \div PageSize

\* Whether the stage asks for another page of its one call.
More(r, c, body) ==
    \/ c.ep = "pivot" /\ page[r] < Pages(r, body)
    \/ c.ep = "sessions" /\ body.data # <<>> /\ page[r] < MaxPages

\* The addresses geocoding finds; it may fail for any, and the heatmap then
\* does without them.
Geocoded(kind) ==
    IF kind = "heatmap" THEN SUBSET {p \in DOMAIN Coord : Coord[p] # Nothing} ELSE {{}}

Done(r) ==
    /\ stages[r] # <<>>
    /\ \A c \in DOMAIN tasks[r] :
        tasks[r][c].step = "fetch" /\ \A w \in ask[r].sites : tasks[r][c].got[w] # Nothing

First(r) == CHOOSE c \in DOMAIN tasks[r] : TRUE
Added(r, body) ==
    acc[r] \o SetToSeq({[call |-> c, body |-> body[c]] : c \in DOMAIN body})

NextPage(r, body) ==
    /\ More(r, First(r), body[First(r)])
    /\ page' = [page EXCEPT ![r] = @ + 1]
    /\ total' = [total EXCEPT ![r] = Pages(r, body[First(r)])]
    /\ tasks' = [tasks EXCEPT ![r] = NewTasks(DOMAIN body, ask[r].sites)]
    /\ acc' = [acc EXCEPT ![r] = Added(r, body)]
    /\ UNCHANGED <<stages, answer>>

\* The stages after this one: the catalogue knows them once it has the names.
Rest(r, body) ==
    LET names == SetToSeq(DOMAIN body[First(r)] \ {""})
    IN IF ask[r].kind = "event-catalog" /\ acc[r] = <<>>
       THEN [i \in DOMAIN names |-> {Call("keys", names[i])}]
       ELSE Tail(stages[r])

NextStage(r, body, rest) ==
    /\ ~More(r, First(r), body[First(r)])
    /\ rest # <<>>
    /\ stages' = [stages EXCEPT ![r] = rest]
    /\ page' = [page EXCEPT ![r] = 1]
    /\ total' = [total EXCEPT ![r] = 0]
    /\ tasks' = [tasks EXCEPT ![r] = NewTasks(Head(rest), ask[r].sites)]
    /\ acc' = [acc EXCEPT ![r] = Added(r, body)]
    /\ UNCHANGED answer

Conclude(r, body, rest) ==
    /\ ~More(r, First(r), body[First(r)])
    /\ rest = <<>>
    /\ \E found \in Geocoded(ask[r].kind) :
        Finish({r}, [outcome |-> "ok", found |-> found,
                     counts |-> Report(ask[r].kind, Added(r, body), found)])
    /\ UNCHANGED <<page, total>>

StageDone(r) ==
    /\ Done(r)
    /\ \E body \in {[c \in DOMAIN tasks[r] |-> Aggregate(c, tasks[r][c].got)]} :
        \/ NextPage(r, body)
        \/ \E rest \in {Rest(r, body)} : NextStage(r, body, rest) \/ Conclude(r, body, rest)
    /\ UNCHANGED <<log, kinds, arrivals, auth, ask, before>>

\* A visitor, or sendEvent: Umami logs an event, whatever the sender is told.
Arrive(w, e) ==
    /\ arrivals > 0
    /\ arrivals' = arrivals - 1
    /\ log' = [log EXCEPT ![w] = Append(@, e)]
    /\ UNCHANGED <<kinds, auth, work>>

Proceed(r) ==
    \/ StageDone(r)
    \/ \E c \in DOMAIN tasks[r] :
        \/ GetToken(r, c) \/ Verify(r, c)
        \/ \E w \in ask[r].sites : Fetch(r, c, w) \/ FetchFails(r, c, w)

UmamiNext ==
    \/ \E r \in Reports :
        \/ Proceed(r)
        \/ \E kind \in kinds[r], named \in SUBSET (Websites \cup Strangers) : AskReport(r, kind, named)
    \/ LoggedIn \/ LoginFailed
    \/ \E t \in live : Revoke(t)
    \/ \E w \in Websites, e \in Arrivals : Arrive(w, e)
    \/ (\A r \in Reports : kinds[r] # {} => answer[r] # Nothing) /\ UNCHANGED umamiVars

UmamiSpec == UmamiInit /\ [][UmamiNext]_umamiVars

\* Every call to Umami has a timeout, so that each step of a request is taken.
UmamiFairSpec ==
    /\ UmamiSpec
    /\ \A r \in Reports : WF_umamiVars(Proceed(r))
    /\ WF_umamiVars(LoggedIn \/ LoginFailed)

-----------------------------------------------------------------------------
(* Properties. *)

\* The items of a report that one event counts for, read off the event alone.
Items(kind, found, e) ==
    CASE kind = "stats" -> {x \in {"pageviews"} : e.name = "view"}
      [] kind = "pageviews" -> {x \in {"day"} : e.name = "view"}
      [] kind = "resource-metrics" ->
            {x \in {e.text} : e.name = "view" /\ e.text \in ResourcePaths}
      [] kind = "searches" ->
            {Query[t] : t \in {t \in {e.text} : e.name = "view" /\ Query[t] # Nothing
                                                 /\ Query[t][1] \in SearchTypes}}
      [] kind = "metrics" ->
            {x \in {<<"event", e.name>>} : e.name \notin {"view", "session"}}
            \cup {x \in {<<"searches">>} : e.name = "view" /\ e.text \in RootPaths}
            \cup {x \in {<<"resourceViews">>} : e.name = "view" /\ e.text \in ResourcePaths}
      [] kind \in ValueKinds -> {x \in {e.text} : e.name = kind /\ e.text # ""}
      [] kind = "event-values" -> {x \in {e.text} : e.name = ZeroResults}
      [] kind = "sessions" -> {x \in {e} : e.name = "session"}
      [] kind = "heatmap" ->
            {Coord[a] : a \in {a \in {e.place} \cap found : e.name = "session"}}
      [] kind = "export" -> {x \in {e} : e.name \in Searches /\ e.text # ""}
      [] kind = "area-searches" ->
            {x \in {e.place} \X {"total", "zero"} :
                /\ e.place # Nothing
                /\ e.name = ZeroResults \/ (e.name \in Searches /\ x[2] = "total")}
      [] kind = "event-catalog" ->
            {x \in {<<e.name>>, <<e.name, e.text>>} : e.name \notin {"view", "session"}}

Count(r, L, x) ==
    SumFunction([w \in ask[r].sites |->
        Cardinality({i \in DOMAIN L[w] :
                        x \in Items(ask[r].kind, answer[r].found, L[w][i])})])

AllItems(r) ==
    UNION {Items(ask[r].kind, answer[r].found, e) :
            e \in UNION {ToSet(before[r][w]) : w \in ask[r].sites}}

Late(r) == SumFunction([w \in ask[r].sites |-> Len(log[w]) - Len(before[r][w])])

(***************************************************************************)
(* A report never counts part of the websites, rows or pages: each of its  *)
(* numbers lies between what had been logged when it was asked for and     *)
(* what has been by now.  One that is read page by page may miss or repeat *)
(* as many rows as arrived meanwhile, and no more.  (The catalogue only    *)
(* lists; a page of sessions may leave out others, and so does a heatmap   *)
(* that has reached its last page.)                                        *)
(***************************************************************************)
Paged == {"heatmap", "export", "area-searches"}
Counted(r, n) == IF ask[r].kind = "event-catalog" /\ n > 1 THEN 1 ELSE n
MayMiss(r, x) ==
    \/ ask[r].kind = "sessions"
    \/ ask[r].kind = "heatmap" /\ page[r] >= MaxPages
    \/ ask[r].kind = "event-catalog" /\ Len(x) = 2

Reported(r) == answer[r] # Nothing /\ answer[r].outcome = "ok"

ReportsComplete ==
    \A r \in Reports : Reported(r) =>
        LET counts == answer[r].counts
            slack == IF ask[r].kind \in Paged THEN Late(r) ELSE 0
        IN /\ \A x \in AllItems(r) :
                MayMiss(r, x) \/ Counted(r, Count(r, before[r], x)) - slack <= At(counts, x)
           /\ \A x \in DOMAIN counts :
                counts[x] <= Counted(r, Count(r, log, x)) + slack

(***************************************************************************)
(* A website is asked with a token Umami has refused only if it was        *)
(* revoked since the fan-out set out to get one: however verifications and *)
(* logins of several requests interleave.                                  *)
(***************************************************************************)
TokensWork ==
    \A r \in Reports : \A c \in DOMAIN tasks[r] :
        tasks[r][c].step = "fetch" /\ tasks[r][c].token \notin live => tasks[r][c].doubt

\* Every report is answered, with an error if need be.
EveryReportAnswered == \A r \in Reports : Awaited(r) ~> answer[r] # Nothing

=============================================================================
