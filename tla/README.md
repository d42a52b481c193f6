# Norse API: TLA+ models, checks and proofs

Norse API is a NestJS service: a multi-tenant search, directory and analytics
backend in front of Elasticsearch, MongoDB (through Mongoose), two Redis
databases, a Strapi CMS, Keycloak and Umami. It is one Node.js process (or
several behind a balancer), and a request is a chain of `await`s: between any
two of them other requests run, in the same process or in another. Nothing in
the code takes a lock or opens a transaction. What keeps concurrent requests
apart is what MongoDB does atomically with one document, its unique indexes,
the version check of Mongoose's `save()`, and, in the caches, maps of promises
in flight. The models are about exactly that.

Paths below are relative to the repository; the code is in `src/`.

## 1. Inventory

| Component | State it keeps | Operations | Hard behaviour | What makes it correct |
|---|---|---|---|---|
| **Taxonomy scorecards** `taxonomy-scorecard/` | one MongoDB document per `<code>::<owner>`: scorecard, `versions`, `version_metadata` | update (publish or draft, over one code or a family of codes), enable a version, read | read-modify-write of one document with no version check on the paths it writes; a loop over codes that is not rolled back; first customisation by two requests at once | the original scorecard, what the tenant was served until its first version, stays restorable; an answer of 200 means a version for every affected code; versions are not lost; the served scorecard is the active version |
| **Short URLs** `short-url/` | collection of `{originalUrl, shortId}`, both unique | get or create, resolve | an upsert is a find and an insert, so concurrent requests and colliding ids raise duplicate keys; a retry loop that reads the error's text | a link handed out leads to its URL for good; all requests for a URL get one id; the loop ends and fails only on collisions |
| **Favourite lists** `favorite-list/`, `favorite/` | lists with owner, tenant and an array of resource ids | create, update, delete, purge, sync; add and remove a favourite; searches | adds are pushes, removals write back the whole array they read; purge bypasses `__v`; sync is check-then-create | favourites disappear and appear only as their owner asked; no duplicates; sync creates no copy of an identical list |
| **Printable directories** `printable-directory/` | directory documents with ordered sections with ordered sources, slug, access policy | CRUD of directory, section, source; reorder; preview | order numbers computed from a stale copy; pushes, positional sets and whole-array sets of one array meet; slug uniqueness by index; authorisation before write | orders are 0..n-1; a source or section is not lost; slug is unique per tenant; only permitted users write |
| **Request cache** `common/services/cache/` | Redis keys with a time to live; promises in flight | `getOrSet` | single flight; failure of the shared computation | a value computed from an error is not kept; waiters share one computation |
| **Analytics cache** `analytics/services/analytics-cache.service.ts` | Redis, promises in flight | `getOrSet` with a time to live that depends on the period | the period may close while the answer is under way | one flight per key; answers no older than the two levels promise; errors are not kept; what stands in for a part that failed is |
| **Tenant configuration** `cms-config/tenant-config.service.ts` | LRU in memory, two Redis databases, Strapi behind | get realm, facets, locales, search config; clear | a read under way when the cache is cleared | answers are as recent as the times to live add up to; absence is not kept; a clear forgets |
| **Orchestration configuration** `cms-config/orchestration-config.service.ts` | Redis keys found with SCAN | merge the custom attributes of keys | SCAN may repeat keys and is given up after 100 iterations | the loop ends; one that succeeds has every tenant that stood still |
| **Umami access** `analytics/services/umami-*.ts` | cached token, login in flight | get token, verify, login, fan out over websites | several requests find the token expired at once; one failure of several | one login at a time; a token in use was live when the request set out to get one; every request is answered |
| **Keycloak** `auth/services/` | certificates cached for ever | verify a token | key rotation; what is kept once is never asked for again | a good token is refused only after a rotation |
| **Analytics endpoints** `analytics/services/umami-analytics.service.ts`, `analytics/internal/` | none | twelve reports: aggregation over websites, pagination, parsers | page count from the first page while rows arrive; one of several calls fails | a report counts each website whole or fails; every row is read |
| **Resources** `resource/` | none | one resource, a batch, titles; redirects | a lookup is up to four queries, with imports in between; an id known to several tenants | each id is answered once, from its best tier |
| **Search** `search/` | none | classic, complex and hybrid search; classification of needs | helpers that fail and are done without; pages of an index that changes; counts made apart from the search and kept for an hour | what only helps to rank never decides what is found; pages divide the hits; a kept count is the total of the search it leads to while the index stands still |
| **Geocoding, suggestion, taxonomy, organization, metrics** | none, or one document write | one call of an external service | none | — |
| **Middleware** `common/middleware/` | none | tenant and language of URL and headers | headers and URL that disagree | only a request whose URL and headers agree is served |
| **Interceptors, health, bootstrap** | none | shaping of responses | none | — |

How they interact: the controllers call one service each. `search` reads
orchestration and tenant configuration through the caches; `analytics` calls
the analytics cache, which calls the Umami services, which share one token;
`printable-directory` resolves the sources of a preview through `search`,
`resource` and `favorite-list`; guards consult the tenant configuration for the
Keycloak realm and then Keycloak. MongoDB documents are shared between requests
and processes; the in-memory caches are per process.

`PROJECT.json` lists, under `hazards`, each place where this can go wrong in a
way a unit test would hardly reach, and the properties that cover it.

## 2. The modules

### TaxonomyScorecard

`docs` is the collection, a function from `<<code, owner>>` to documents. A
request `r` has a program counter `pc[r]`, whose values name the await it is
at, the document it has in memory `copy[r]`, and what it was asked, `job[r]`.

| Action | Code (`taxonomy-scorecard.service.ts`) |
|---|---|
| `Start` | the controller's call; `resolveAffectedCodes` gives any set of codes that contains the selected one, which the job keeps (`affected`) |
| `Resolve` | `resolveEffectiveDocument`: tenant's document, else the default, else 404 |
| `Ensure` | `ensureTenantDocument`: read again or clone the seed |
| `SaveNew`, `SaveExisting`, `SaveRefused` | the computation of the new version and `document.save()` |
| `ReadForEnable`, `SaveEnabled` | `enableScorecard` |

What Mongoose does with `save()` (version 8.24.1, read from how the code
relies on it) is `Merged`: only changed paths are sent, the
`components_available` array only under the version that was read,
`versions`, `scorecard` and `version_metadata` with no condition. This is the
heart of the model, since every anomaly comes from which paths are sent.

Abstracted: the scorecard is its `need` component; metadata derived from
weights, e-mails and dates are left out; a version entry remembers the request
that wrote it, so that "my version is still there" can be stated. Nothing in the
code compares the tenant of the path with `default`
(`taxonomy-scorecard.controller.ts:101-130`, `utils.ts:12`), so `Default` may be among the
`Tenants`, and no property says that default documents are untouched. What the tenants rely on is
`ServedIsRestorable`: the first version of a scorecard is saved beside what the tenant was served until then, as version 0; for a tenant without a document that is
the default, which is read two awaits before the tenant's own is looked for. It is stated for tenants other than the default.

### ShortUrl and UrlMap

`ShortUrl` is `getOrCreateWithUpsert`: `Find`, the two halves of the upsert
(`Match`, `Insert`), and the three ways an insert ends with a duplicate key
(`Retry`, `UrlTaken` with `Refetch`, and `ServerRetries`, MongoDB's own retry).
The code tells a taken id from a taken URL by looking for `shortId` in the error
message; the message quotes the duplicate key, so a URL that contains this text
(`Misleading`) is taken for a taken id. Both readings are in the model.
`UrlMap` is what the service promises: an injective map, consulted and extended
in one atomic step. `ShortUrl!Map` maps the first to the second.

### FavoriteLists

`lists` is the collection. `add` is read, check and push; `remove` is read,
splice and save of the whole array under the `__v` read; `purge` and `delete`
are single updates filtered by `_id` and owner; `sync` reads the user's lists of
the right size, looks for an identical one, and else creates one. `update`
(name, description, privacy) and the searches are not modelled: they neither
read nor write the favourites.

### PrintableDirectory

`dirs` is the collection; a directory has an owner, a tenant, an access policy, a
slug and a sequence of sections, each with a sequence of sources. Every request
but a creation is two awaits:

| Action | Code (`printable-directory.service.ts`) |
|---|---|
| `Start` (`Creations`, `About`) | the controller's endpoints; clients name sections and sources they have seen, which may be gone by the time of the read |
| `Create` | `create`, with the unique index on tenant and slug |
| `Load` | the query by owner and policy, `getSectionOrThrow`, `getSourceOrThrow`, `validateExactIdSet` |
| `SaveUpdate` | `update`: policy and slug, each sent only if it changed |
| `SaveSections` | the save of the eight operations on sections and sources |
| `Delete` | `remove`: `deleteOne` by `_id` |
| `SaveRefused` | `VersionError` and `DocumentNotFoundError`, not handled: 500 |

`EditedSections` is what a handler makes in memory; `Written` what `save()`
makes of the stored sections out of it (a push, an array, one field at a position), `Checks` and
`Increments` when it asks for the `__v` that was read and when it increments it. That
these differ is what the properties are about: a section is pushed without
a check, so two sections created at once take the same order
(`SectionOrdersKept` says exactly when the orders stop being 0, 1, 2, ...); a source is
pushed with one, so sources keep their orders in any interleaving
(`DirectoriesWellFormed`). An edit of a text does not increment `__v`, so a reorder that read before it
writes the former text back; no text of the repository promises otherwise and
no property forbids it.

### ResponseCache and FreshAnswers

The two caches have the same shape, so one module has both: `AnalyticsCacheService`
(with `AnalyticsInfoEnricherService`) has an LRU per server before the Redis
all servers share, `RequestCacheService` has only the Redis. `Kind[k]` tells the keys apart. A request
that misses leads a flight; identical ones on the same server join it.

| Action | Code (`analytics-cache.service.ts`, `request-cache.service.ts`) |
|---|---|
| `Ask` | `getOrSet` up to its first await: LRU, flight, or a flight of its own |
| `Get`, `Hit` | the read of Redis and what follows a hit; a Redis that fails is a miss |
| `Compute`, `Throw`, `NoWebsites` | the factory: data, a stand-in if the key is `Tolerant`, or an error |
| `Return`, `Set` | the choice of the time to live, the LRU, the write to Redis, the end of the flight |
| `Evict`, `EvictRedis`, `Restart`, `Tick` | the environment: eviction, a crash that loses memory and flights, time |

`FreshAnswers` is what a cache promises and says nothing of caches: a request is
answered with a value of its key, read at most `MaxAge` ago, or fails.
`ResponseCache!Fresh` is the refinement mapping. `MaxAge` is where the analysis is: a
value may spend a flight, its time in Redis, another flight and its time in an LRU,
and a range that closes during a flight is given the long time to live of a
closed one (`analytics-cache.service.ts:128`), although its data was read while it was open.

Some factories catch a part of their failures and return a value all the same, which is then kept like any other: a count that fails is 0
(`hybrid-search.service.ts:118`), a website whose fetch fails is named by its id (`analytics-info-enricher.service.ts:90`), a heatmap or an
export does without the places that could not be geocoded (`umami-analytics.service.ts:854-877, 992-1035`). Keys of such factories are
`Tolerant`, and `NoErrorKept` says that only they hold anything but data.

### UmamiAnalytics

The twelve reports of `UmamiAnalyticsService`, over `UmamiHttpService.fanOut`,
`UmamiAuthService.getToken`, the aggregators and the parsers. `Plan` gives the stages of a
report; a stage is a set of fan-outs in parallel, each of which gets a token (`GetToken`,
`Verify`, `LoggedIn`, `LoginFailed`) and asks every website (`Fetch`, `FetchFails`);
`StageDone` aggregates and goes on to the next page, the next stage or the answer.
The module is extended together with `ResponseCache` by `AnalyticsProofs`, so its `Init`, `Next` and the like have names of their
own (`UmamiInit`, `UmamiNext`, `AskReport`, ...). Umami is a log of events per website, and `Response` how it counts and pages
them; events arrive, tokens are revoked and calls fail in between. A report is a
function from its items to how often they are counted, which is compared with a count
made directly from the logs (`Items`, `Count`).

### TenantConfig

What a request needs to know of its tenant, from the middleware to the verdict
on its token.

| Action | Code |
|---|---|
| `Turned`, `Ask`, `Anonymous` | `TenantMiddleware`, `LocaleMiddleware`, the guard without a token, the memory of the server |
| `ReadCms`, `Fill` | the Redis of the CMS, in two steps: the memory may be cleared between them. `Fails`, `Taken`, `Kept` say for each item what is stood in for and what is kept |
| `ReadCmsRealm`, `ReadShared`, `AskStrapi`, `StoreRealm` | `getKeycloakRealmId`: CMS, shared Redis, Strapi |
| `ReadCerts`, `AskKeycloak`, `KeepCerts` | `getKeycloakCerts` and `verifyToken` |
| `AskCsv`, `Scan`, `GetBatch` | `getCustomAttributesBySchemaNameAsCsv`: SCAN and MGET in rounds |
| `Clear` | `CmsConfigController`, for one tenant or all |
| `Publish`, `PublishStrapi`, `Rotate`, `Tick` | the environment |

What the CMS holds for an item is an *edition*, of which `Form` says whether it is
there and can be read. A value remembers when it was read, which is how its age is
stated. What a server held or had on its way when it was last cleared is noted (`cleared`, `late`, `OnItsWay`): `ClearForgets` says
that it then holds nothing that was read before, the realm included, except an item that was on its way, or a realm out of the shared Redis,
which a clear does not reach. The analytics configuration is in a memory that no clear covers (`Cleared`). `MayEnd` is the guarantee of Redis for SCAN: a key that is there throughout is returned at
least once.

### Search

`searchResources`, `searchHybrid` and the needs classification. `Matching` is what the
query sent to Elasticsearch matches: tenant, the query's own condition and
`Filtered` (facets, age, geography), with complex queries as trees. The fields of a text are those of every tenant and, if `Configure` got its configuration,
the tenant's own attributes (`Searched`); a code is found by what it begins with (`match_phrase_prefix`: `FoundBy`); a
classic search counts its hits up to `TotalCap` (10,000, as `track_total_hits` is not set). `Keys` are the sort keys of each mode, and
documents with equal keys come in any order (`Orders`). `Configure` and `PredictCodes` ask the helpers, each of
which may fail; `Reindex` changes the index between two pages. The classification
re-ranks and counts for each need by itself (`ReRank`, `Count`), and Redis keeps the counts under tenant and codes, failed ones as 0, for an hour (`counts`, `Expire`). What is found is compared with `Wanted`,
a definition by denotation of the tree and by sets of ages, up to `Overlooked`: the documents that have the text only in an attribute, which a
search without the configuration does not find. A tree is the sequence of its nodes, each
naming the later ones it is made of, and what goes down it (`Height`, `Satisfied`, `Denotation`) is a recursive
function on their places. Facet values are counted in each language, ordered, cut to `FacetsLimit` and then paired
by position (`Buckets`, `Facet`). `SearchAssumption` says what `isComplexNode` and the decorators of the
query's class let through, and what the index holds of a document.

### Content

`ResourceService` and the previews of directories, which it serves. A lookup goes
through tiers (`primary`, `byId`, `anyTenant`), each a query of its own, with imports
between them (`Change`); `Collect` is the collection of one tier, `Redirect` the errors of what was found
nowhere. A preview resolves its sections side by side and the sources of each one after the
other (`NextSource`, `ReadIds`, `SourceFails`, `Find`, `SourceDone`, `Previewed`), each as a batch.
This is the composition of directories, favourite lists and resources:
`Merge` is what keeps a resource from being shown twice in a section, and `PreviewsInOrder` compares what a section shows with the places of
the ids in its sources, those of a favourite list as well as those given.

### Slips

Some operators, commented as slips (`OverBase`, `PushUnversioned`, `SettleKeeps`, `AskRenews`, ...), are what
a plausible mistake would make of the operator
that follows them. No action uses them. Putting one in the place of its
original must break the property `PROJECT.json` pairs it with, under the same
configuration: this is how the sensitivity of every property is established.

### Model-checking modules

Each `MC` module extends its component and defines the initial states, inputs and symmetry of its runs.
`MCResponseCache`, `MCTenantConfig` and `MCSearch` add a variable that is chosen once per behaviour, `focus`: which key or item the
behaviour is about, and whether it is about searches or about options. Scorecards and favourite lists have such a choice in modules of their own, `TaxonomyScorecardInTurn` and
`FavoriteListsInTurn`, which the `MC` modules and the proofs extend: `inTurn` says whether requests overlap as they please or come one
after another, and then more is promised.

## 3. What is checked

| Run | What it asks | Result |
|---|---|---|
| `scorecard_concurrent` | Two requests of any kind over one or two codes, in any interleaving, or three one after another, from legacy collections: the inductive invariant `IInv` (types included), `BaseVersionKept`, `ServedIsRestorable`, `AnswerMatchesSaves`, every request answered; and `RightInTurn`, what the documentation says of versions, drafts and the active version, and that no save is refused, when requests do not overlap | holds |
| `scorecard_lost` | `SavedVersionsKept`: a version an update saved stays | violated by two updates at once: see the findings |
| `shorturl` | Three requests for two URLs, one of them misleading, three ids, two tries: `LinksResolve`, `FailsOnlyOnTakenIds`, `ImplementsMap`, every request answered | holds |
| `favorites_concurrent` | Three requests of two users, all kinds, overlapping or not: `VersionGuardsFavorites`, `OnlyTargetDisappears`, `OnlyAddedAppears`; one after another, also `ExactInTurn`: no favourite twice, no save refused, answers that are exact | holds |
| `favorites_sync` | `SyncExistsIsIdentical` with three requests at once | violated: see the findings |
| `directory` | Two requests of two users, of every kind, about one or two directories, or three edits of one: `SlugsUnique`, `DirectoriesWellFormed`, `VersionGuardsShape`, `SectionOrdersKept`, `NothingLost`, `NothingReturns`, `EditsHitTarget` | holds |
| `caches` | Two requests, two servers, a key of each kind, failures, stand-ins, evictions, restarts, a range that closes: `SingleFlight`, `NoErrorKept`, `ImplementsFreshAnswers`, every request answered | holds |
| `umami` | Every report over two websites, with calls that fail, tokens that are revoked and events that arrive: `ReportsComplete`, `TokensWork`, every request answered | holds |
| `tenant` | Each item, tokens, sweeps, clears, rotations, a clock: `AnswersRecent`, `EmptyNotKept`, `ClearForgets` (the realm included), `LockedOutOnlyByRotation`, `CsvComplete` | holds |
| `search` | Sixteen queries over four documents of two tenants, two pages, one change of the index, helpers that fail: `FindsWhatIsWanted`, `PagesPartition`, `LabelsPairUp`; and, in other behaviours, four classifications for either tenant, counts kept and expired, and the search an option leads to: `CountsAgree` | holds |
| `content` | Lookups, batches, titles and previews over copies of three resources at three tenants and over favourite lists, two changes meanwhile: `EachIdAnswered` (an id with neither a resource nor a 400 is reported missing exactly once, the others never), `BestTierAnswers` (a 400 only where the best resources lack a translation, a 404 or a redirect only for an id no tier knows), `PreviewsInOrder` | holds |
| `content_preview` | `PreviewFailsWhole`: a preview fails when a resource cannot be resolved | violated: see the findings |

### Bounds, and why they are enough

*Requests.* Two requests make every race on one document, key or token; a third is what it
takes to see the result of a race used by somebody (a list with a duplicate that a sync then compares; a retry that
meets a second collision). `MaxInFlight` limits how many run at once. In
`MCPrintableDirectory` a third request is sent only if all three edit the sections of one
user's directory, where it matters.

*Data.* Two values of the scorecard, enough to tell which one is served. One or
two codes: codes meet only in the loop of an update. `VersionIds` are the ids a
client may ask to enable. Two
resources and two owners of lists. A directory of two sections, of which the first
has two sources, so that positions move when one is removed or they are
reordered; three requests add up to three more. Three ids for two URLs, so that a collision
may or may not be resolved; `MaxRetries` is 3 in the code and 2 in the run, the
proof covers every value.

*Caches.* Keys share nothing but the time, so each behaviour has one key as its focus. Times to live
keep the order of the real ones (a closed range longest); the clock runs to 5 for the range, so that a value can
pass through both levels, and through a closing, and expire. For the other keys it stops at 3, for the names at 2 and for the heatmap, a range
that is closed from the start and may be kept without some of its places, at 1: stand-ins make the states of the last two many, and their times to live are those of the keys that
run longer. Two servers, since a value crosses
from one to the other only through Redis. A tick stands for the shortest time to live.

*Tenant configuration.* Items meet nowhere but in a token's verdict (a realm and its certificates) and in a sweep, so each
behaviour has one as its focus; the realm of a tenant only the old CMS knows is asked of two servers, for
two ticks more, and a realm that comes and goes at the CMS is asked of one while its memory is cleared. Three editions: one that cannot be used, one that can, one that is
missing. One request at a time judges a token or sweeps, the others overlap. Clears
are in the runs of the items that a clear forgets; the proofs have no such bounds.

*Umami.* `MCScenarios` pairs small logs with the reports they say something about: two requests
for the token and the login, one for each kind of report while one event arrives. A page has one row, so that every stage has several.
The heatmap's bound on pages (`MaxPages`, 100 in the code) is 5, and the logs are too short to reach it: a heatmap that does reach it
may leave sessions out, which is what `MayMiss` allows and the code logs a warning for.

*Search and content.* One query or request of each form and option, chosen so that every branch of the filters, sorts and tiers is
taken by a document that passes and one that does not: one has a word only in an attribute, one has no point, a code is asked for by its beginning. A classification meets a search only
in what its option leads to, so it has behaviours of its own (`focus`), with three documents, two tenants and the search for the codes of the option. Four documents give ties and
pages that are not full. `TotalCap` is 10,000 at Elasticsearch and 2 in the run, below what some classic searches find. `FacetsLimit` is 100 in the code (`FACETS_LIMIT`) and 2 in the run, so that a third value is cut off.

*Initial states.* Scorecards from before versioning (`LegacyDocs`), in every combination of tenant and
default documents the configuration's `InitialDocs` allows; documents with
versions are reached from there. Lists that are empty, or in an order that
is not the normalised one. Servers start with empty memory; any index, any set of resources and lists, any editions at the CMS.

*Symmetry* is used only for requests, in runs without liveness properties.

*Deadlock* is checked in all runs. Where requests are sent once, a state in which all are answered
stutters; elsewhere clients may always ask again.

### Fairness

`scorecard_concurrent`, `shorturl`, `caches` and `umami` check liveness. They assume weak fairness
of `Advance(r)` for each request: the database, Redis, Elasticsearch or Umami eventually answers an await or fails (the calls to
Umami have a timeout, `AbortSignal.timeout`; the drivers of the others have theirs) and
the event loop eventually runs what follows. Each step of a request is
enabled until it is taken, by that request only, so weak fairness suffices. A request that waits for the flight or the login of
another has no step of its own and relies on the fairness of its leader; in
`umami` the login in flight, which belongs to no request once it has started, ends by weak fairness of `LoggedIn \/ LoginFailed`. No
fairness is assumed of clients, of time, of evictions, restarts or revocations.

### Findings

- `scorecard_lost` (`taxonomy-scorecard.service.ts:154`). Two updates read the
  document, compute the same next version id and save the whole `versions`
  object: the first version is lost although its request was answered 200.
- `favorites_sync` (`favorite-list.service.ts:123`). Two concurrent adds leave a
  resource twice in a list. `hasSameFavorites` compares only up to the number of
  distinct favourites, so a sync of two resources matches the list and answers
  204, "identical list", while one of the resources is stored nowhere.
- `content_preview` (`printable-directory.service.ts:677`). `docs/printable-directories.md:82` says a preview
  fails as a whole when any resource cannot be resolved; the errors of the batch are logged and the
  preview is answered without those resources.

Disagreements met while modelling that have no run of their own:

- A draft writes back the `active_version` it read (`taxonomy-scorecard.service.ts:197`): a publication that was saved in between is
  no longer the active version, against `docs/taxonomy-scorecard-customization.md:119`. Scorecard and metadata are two paths of one save, each sent only if it changed
  (`:204`): of two publications at once the second may submit the scorecard it had read, so that its version is active while the other's
  scorecard is served, against lines 64-65 there. `RightInTurn` says that both are right without concurrency.
- Two syncs of the same resources both find no identical list, and each makes one (`favorite-list.service.ts:227-237`), although
  `favorite-list.service.spec.ts:138` has a sync make none where there is one. `ExactInTurn` says that it is so without concurrency.
- `request-cache.service.ts:31` says errors are not cached; a count that fails is caught by the
  factory (`hybrid-search.service.ts:118`), and its 0 is kept for an hour.
- `cms-config.controller.ts:21` says all in-memory caches are cleared; the memory of
  the analytics configuration (`analytics-config.service.ts:36`) is not, and nothing else clears it.
- `search.controller.ts:104-107` says a result must be within the distance of the
  coordinates; documents without a point pass (`search-utils.service.ts:170`), and `Wanted` has them.
- `UmamiHttpService.getToken` (`umami-http.service.ts:41`) does not await the promise it returns, so that a failed login never becomes the 502 its `catch` makes.
- A list of no operands passes `validateComplexQuery` and matches everything (`search.service.ts:427`).
- The names of websites live a day in Redis and another in memory; `constants.ts:37` speaks of one.
- An option that has no codes shows 0 (`hybrid-search.service.ts:96`), where a search without codes is not limited to any.
- In a batch an id that several tenants share gives the last copy, where the lookup of that id gives the first;
  if one of the copies is not translated, the id is in `data` and in `errors`.

## 4. What is proved

For every number of requests, servers, tenants, codes, lists, URLs, ids, retries, keys, times to live, documents, queries, websites, events and rows of a page. The
proofs assume what the modules' named `ASSUME`s say about the constants and no
more; TLC evaluates those on the instances above.

**TaxonomyScorecardProofs** — `IInvHolds`, `TypeCorrect`, `BaseVersionIsKept`,
`ServedStaysRestorable`, `AnswersMatchSaves`. `BaseVersionKept` alone is not inductive: a save writes
`versions` from a copy that may be arbitrarily stale. The invariant says about such
a copy that it agrees with the stored document about the *base scorecard*: the
one version 0 holds or, while there are no versions, the one version 0 is
going to hold (`AgreesWith`, `BaseScorecard`), and that a document with no
versions has no active one and a counter of 0 (`WellVersioned`). Then a stale
copy that has version 0 writes it back unchanged, and one that has none makes
the version 0 the stored document has already. The counter of a document
is *not* monotonic, and the invariant needs only that it is positive once
version 0 exists. `AnswersMatchSaves` has an invariant of its own, about one request at a time (`SavesFitStep`): what was
saved and what is left to do are apart and together what was affected at first, each code is saved once, and at every await of the loop there is a code left.
`ServedStaysRestorable` has another (`Seeds`): a request that is about to clone a document holds what the tenant is served, the
default as it is stored, which no save of a tenant other than the default changes (`DefaultStays`).
`OneAtATimeIsRight`: `TurnSpec => RightInTurn`. With one request at a time what a request read is what is stored (`Current`), so
the next version id is not taken and a save neither loses a version nor is refused; that the scorecard being served is
that of the active version needs, of every document, that the counter is past all version ids (`Whole`).
What the findings show lost between overlapping requests is therefore lost only there.

**ShortUrlProofs** — `IInvHolds`, `TypeCorrect`, `LinksAlwaysResolve`,
`FailsOnlyOnCollisions`, `ServiceImplementsMap`. The invariant: ids are unique
in the store, answers agree with it, a request at `refetch` has a document
(nothing deletes one), and a request that is not done has tries left. The
refinement maps `Insert` to `Create`, an answer from `Find`, `Match` or `Refetch`
to `Get`, giving up to `Fail`, and all other steps to stuttering.

**FavoriteListsProofs** — `VersionCheckIsSound`: `Spec => []VersionGuardsFavorites`.
While the `__v` a removal read is the stored one, the list holds what it read or
was purged. The invariant `GuardInv` adds that versions are numbers and that a
list which is still to be created has not been read, so a deleted list cannot
come back with a version that was seen before.
`EditInvHolds`, `NothingIsLost`, `NothingIsForged` are what `VersionGuardsFavorites` is for. `EditInv` adds
types, the job each step belongs to, and that the list a request is about to save still belongs to the user who asked (owners never
change, and no list is made under an id somebody holds). Each step that writes then edits what its request asked for: `RemoveFirstKeeps` says that a splice takes
away one resource at most, and `AscendingExists` that `normalizeResourceIds` has a result. Induction over sequences and sets being out
of reach, both are proved from the least element of a set of numbers (`LeastExists`).
`OneAtATimeIsExact`: `TurnSpec => ExactInTurn`. While one request runs, the list it read is the stored one and a push
finds its resource still missing (`TurnInv`). Then no list has a favourite twice, which is what a sync needs: a list of as many favourites as
were sent, all different, that `hasSameFavorites` accepts holds just what was sent (`SameIsIdentical`, by counting).

**PrintableDirectoryProofs** — all of the component. `SlugsStayUnique` has an invariant of its own:
the unique index is consulted in the step that inserts or updates, and `SlugInv` adds
only that every directory has a slug and a tenant field. The rest,
`DirectoryTypeCorrect`, `VersionGuardsHold`, `DirectoriesStayWellFormed`, `SectionOrdersStay`, `NothingIsLost`, `NothingEverReturns` and
`EditsAlwaysHitTarget`, comes from one inductive invariant, `DirectoryInv`. `DirectoriesWellFormed` is not inductive, because a save writes
what was computed from an old copy; what saves it is that the copy is as good as the stored sections wherever `__v` is asked for.
The invariant therefore says of a request that is about to save that it has found in its copy what it names (`Loaded`), that the
copy is well-formed, and that as long as the `__v` it read is the stored one, the two have one *shape*, the ids and orders along the
arrays (`VersionGuardsShape`: texts may differ). A directory that was removed and
another made under its id would break this; `Settled` excludes it: what
directories hold was there at the start or was made by a request that has been answered,
so the id of a running request occurs nowhere yet.

The proof has three layers. Lemmas on arrays: sorting by order and renumbering keeps each item and no other (`Rank` is an injection of
*n* items into *1..n*, so by the pigeonhole principle a bijection), and so does an order that passed `validateExactIdSet`, for the same reason.
Then what each kind of save leaves of the stored sections (`SavesWell`: well-formed, a removal
takes away what it names, a creation adds its own id, `__v` grows if the shape changes).
Then the actions, which preserve the invariant and, step by step, satisfy the four
action properties.

**AnalyticsProofs**, of the caches — `IInvHolds`, `SingleFlightHolds`, `NoErrorIsKept` and
`CachesImplementFreshAnswers`, the whole refinement. That an answer is fresh is not inductive:
an old value may be on its way anywhere. The invariant bounds the age of a value at every place it passes through, and each bound
follows from the one before it: what a flight carries from the source was read since it began (`Carried`); what it
writes to Redis lives at most `LongestTtl` from then (`HeldL2`); what a flight carries
from Redis has been there, and that flight lasts at most `Patience`; what an LRU holds expires no later than `MaxAge` after it was read (`HeldL1`).
`Noted` says that the map of flights knows every leader, which is single flight; it
is what `SettleKeeps`, and any slip in `finally`, breaks. In the refinement `Settle` answers
all who joined at once (`Answer(R, k)`), a restart is `Lose(R)`, a hit in the LRU an
`Ask` that answers itself, and every other step stutters.

**AnalyticsProofs**, of the reports behind them — `TokensAlwaysWork`: `Spec => []TokensWork`. That a fan-out about to ask has a token that works is not
inductive, since the token it uses is not the one it verified: `getToken` returns whatever is cached by then. `TokenInv` adds
what a fan-out whose token is being verified rests on: unless a token was revoked since it set out, the cached one works if
the one under verification does. A login makes a live one for all who wait for it; a revocation
puts every fan-out that has set out in doubt.
`ReportsAreComplete`: `Spec => []ReportsComplete`. A report is a sum over websites of counts of rows that came page by page while
events arrived, so `ReportsInv` says of each request, at any stage and page, what its aggregated responses are worth. There is a
log of each website, no older than when the report was asked for, of which all pages so far were read (`Reached`):

- a fan-out's answer that has come in is Umami's answer for some log between that one and the present one (`Gets`);
- after *n* pages, the rows read that are in any set of events are no fewer than those logged at the start that are on the newest *n* pages by now, and no more
  than all that are there by now and one for each event that arrived since (`Reading`: `FewestAll`, `MostAll`): rows are paged newest first, so an arrival
  pushes rows on to later pages, where they may be read again;
- as many pages as the first page's count called for reach the end of what was logged at the start (`PagesSuffice`);
- what the stages left to do are, and that those done have read enough and not too much (`PivotsReached`, `KeysReached`).

When the stages are through, each kind's `Report` of those responses is complete (`Rightly`), and it stays so while events arrive. What the model's folds
compute (`SumFunction`, `FlattenSeq`, `SetToSeq`) is proved first, without induction over data: a fold over a finite set is unfolded one
element at a time along a set of cardinalities, or of positions, that contains 0 and each successor (`StepByStep`, by a least counterexample).

**TenantConfigProofs** — `IInvHolds`, `AnswersStayRecent`, `EmptyIsNotKept`, `ClearingForgets`. Again ages at places: what
`Fill` has in hand (`Arrived`), what a token's judgement rests on (`Held`), what memory and the shared Redis keep (`MemInv`,
`SharedInv`). For clearing, a value older than the last clear is *excused* if some read was under
way at that moment (`Excused`): the excuse travels with the value from the request to the memory, which is what
makes `ClearForgets` inductive. The realm has the same excuse, and one more: what came from the shared Redis.
`AnswerInvHolds`, `OnlyRotationLocksOut`, `SweepsAreComplete` come from a second invariant beside the first. As long as
a realm has its first key, its certificates, wherever they are, hold that key (`Genuine`);
a realm that was read is an edition of the CMS and not an empty value. For a sweep, each tenant whose configuration stood still is still to be
met, or in the batch in hand, or found (`Swept`); what SCAN guarantees gives the last step.

**ContentProofs** — `LookupInvHolds`, `BatchesAnswerEachId`, `LookupsAnswerTheBest`, `PreviewsKeepTheirOrder`. `EachIdAnswered` and `BestTierAnswers` speak of the
answer only; `LookupInv` says what the job of a lookup is worth between two tiers. An id that was found has its resource, or an
error that it is not translated, and is reported missing at no time; one that was not has no error before the redirects are looked up, and exactly one after (`AbsentFits`); and
as long as nothing was imported since the request came, the tiers that were asked do not know
what was not found, and what was found is of the best tier (`BestSoFar`). A change of the data ends what the last part says, and keeps the rest. The order
in which the database gives resources and `SetToSeq` gives the errors is arbitrary: the proof knows only that each comes once (`SetToSeqIs`, by counting).
Each source of a preview is a lookup that goes through the same steps. What a section has merged after some of its sources (`MergedSoFar`)
has a witness: for each resource shown, the place (source, position) it comes from. The places ascend, and every place
that has a translated resource was shown there or before (`InOrder`). `MergeOne` extends the witness by one place
(`OneMorePlace`), and so on along the ids of a source (`StepByStep`, by a least counterexample); `Limited` cuts it (`LimitedInOrder`).

**SearchProofs** — `SearchInvHolds`, `SearchesFindWhatIsWanted`, `PagesDivideTheHits`, `CountsAgreeWithSearch`, `LabelsArePairedUp`.
All four properties follow from `SearchInv`, which says where things came from: each page seen is its slice of *some* order
of what the index it was asked of matched (`PageFits`), an answer is the last of those pages with its total and facets (`ReplyFits`),
and a count, shown or kept in Redis, is that of the index, the tenant and the codes it was counted for (`OptionFits`, `CountsFit`): a
count may thus be of any index since, and of any other classification with the same key. The rest is what the operators do:

- `MatchesWhatIsWanted`. That the query Elasticsearch gets selects what the tree denotes is an induction over the tree, which the
  provers do not do; since operands come after the node that names them, a set of places that contains a node whenever it contains
  all later ones contains them all (`FromTheLast`, by a least counterexample), and that also gives the existence of the functions.
- Pages. Keys with a unique last one are a strict total order, an arrangement sorted by it is the only one, so pages of different
  orders are slices of the same one.
- Facets. A bucket's place is one more than the buckets before it; under a total order the places are 1, 2, ..., and if
  no two values are equally frequent, a value and its translation have the same place, within the limit or beyond it in both languages.

**Only model-checked.** Liveness under fairness (`EveryRequestAnswered`, `EveryReportAnswered`), which is out of the prover's reach.
Every invariant of the passing runs is proved.

## 5. What is not modelled

- *Scorecards*: the hierarchy of codes, `normalizeWeights` and `deriveNeedMetadata` are functions of their arguments; the codes of an update are any set.
- *Favourite lists*: `update`, which touches neither favourites nor owner, and the searches.
- *Directories*: covers, headers, layouts, query defaults; the localised headings of a preview.
- *Analytics*: periods, time zones and comparisons with the previous period; that values are trimmed and merged only when several websites are asked; that a page of sessions is limited per website; `UmamiAuthService.invalidate`, which nothing calls.
- *Tenant configuration*: eviction for lack of room (a value is only gone earlier); every failure to find a realm is answered 500, whichever status the code chooses; what a token says beyond its key.
- *Resources*: failures of the database; that titles have no third tier is modelled, the shape of a resource is not.
- *Search*: Elasticsearch's scores beyond their order, highlighting, the parsing of query parameters; languages other than the one asked for.
- *Geocoding, suggestion, taxonomy, organization, metrics*: one call or one write each, no state, nothing that interleaves. Interceptors, health and bootstrap likewise.
- MongoDB's, Redis's and Umami's own behaviour beyond the operations used (marked external in `PROJECT.json`); HTTP, validation by decorators, logging.
