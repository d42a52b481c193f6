---------------------------- MODULE TenantConfig ----------------------------
(***************************************************************************)
(* What a request needs to know of its tenant, and how it gets it.  The    *)
(* CMS publishes into a Redis the API only reads; each server remembers    *)
(* what it read for a minute (TenantConfigService,                         *)
(* OrchestrationConfigService, AnalyticsConfigService); the realm of a     *)
(* tenant may also come from a Redis the servers share, or from Strapi,    *)
(* and with the certificates of the realm decides about a token            *)
(* (KeycloakAuthService).  Time is counted in ticks; what the CMS holds    *)
(* for an item is an edition, which may be that it holds nothing.          *)
(***************************************************************************)
EXTENDS Integers, Sequences, FiniteSets

CONSTANTS
    Servers, Requests, Tenants,
    Form,        \* Form[e]: "good", "missing", "garbled" (no JSON), "misshapen"
    Columns,     \* Columns[e]: the custom attributes of edition e
    Heads,       \* the headers and query strings requests come with
    Tokens,      \* the tokens they may carry
    MemTtl,      \* time to live in the memory of a server,
    SharedTtl,   \*   of a realm in the shared Redis
    Patience,    \* how long a request takes at most
    MaxRounds,   \* SCAN iterations of one sweep (100 in the code)
    MaxClock, MaxEdition, MaxKey,   \* bounds of the model
    None

Items == {"realm", "facets", "locales", "search", "attributes", "analytics"}

ASSUME TenantConfigAssumption ==
    /\ Form \in [1..MaxEdition -> {"good", "missing", "garbled", "misshapen"}]
    /\ {MemTtl, SharedTtl} \subseteq Nat \ {0}
    /\ {Patience, MaxRounds, MaxClock, MaxEdition, MaxKey} \subseteq Nat
    /\ None \notin Requests \cup Tenants \cup Servers
    /\ None \notin Items \cup {"csv", "ok"} \cup (Nat \X Nat)

VARIABLES
    now,       \* the time
    cms,       \* cms[t][i]: the edition of item i at the CMS
    strapi,    \* strapi[t]: the realm the old CMS knows
    mem,       \* mem[s][t][i]: what server s remembers, or None
    shared,    \* shared[t]: the realm of t in the shared Redis, or None
    certs,     \* certs[realm]: its certificates there, never dropped, or None
    gen,       \* gen[realm]: the key the realm signs with
    cleared,   \* cleared[s][t]: when its memory was last cleared
    late,      \* late[s][t]: the items of which a value was on its way then
    pc, server, tenant, item, token,   \* of each request: its step, what it is
    begun,     \* when it began
    val,       \* the edition it was given, and when that was read
    verdict,   \* what it was told: "ok", "400", "401", "500"
    work       \* what it has in hand: keys, or the findings of a sweep

data == <<cms, strapi, gen>>
caches == <<mem, shared, certs>>
what == <<server, tenant, item, token, begun>>
clears == <<cleared, late>>
vars == <<now, data, caches, clears, pc, what, val, verdict, work>>

\* A server starts with empty memory; the shared Redis has been flushed.
Rest ==
    /\ mem = [s \in Servers |-> [t \in Tenants |-> [i \in Items |-> None]]]
    /\ shared = [t \in Tenants |-> None]
    /\ certs = [m \in 1..MaxEdition |-> None]
    /\ gen = [m \in 1..MaxEdition |-> 1]
    /\ cleared = [s \in Servers |-> [t \in Tenants |-> 0]]
    /\ late = [s \in Servers |-> [t \in Tenants |-> {}]]
    /\ pc = [r \in Requests |-> "idle"]
    /\ server = [r \in Requests |-> None] /\ tenant = [r \in Requests |-> None]
    /\ item = [r \in Requests |-> None] /\ token = [r \in Requests |-> None]
    /\ begun = [r \in Requests |-> 0]
    /\ val = [r \in Requests |-> None]
    /\ verdict = [r \in Requests |-> None]
    /\ work = [r \in Requests |-> None]

Init ==
    /\ now = 0
    /\ cms \in [Tenants -> [Items -> 1..MaxEdition]]
    /\ strapi \in [Tenants -> 1..MaxEdition]
    /\ Rest

Running(r) == pc[r] \notin {"idle", "done"}
Entry(v, life) == [value |-> v, until |-> now + life]
\* What is left of an entry at time n.
At(entry, n) == IF entry = None THEN None ELSE IF n < entry.until THEN entry ELSE None
\* What was read, when, and how it went: "good", the Form of what is of no
\* use, or "failed"; "shared" when it was not read but found in the shared Redis.
Read(e, how) == [edition |-> e, at |-> now, how |-> how]

Remember(r, v) ==
    mem' = [mem EXCEPT ![server[r]][tenant[r]][item[r]] = Entry(v, MemTtl)]

\* r is answered; it holds on to v, the configuration it was given.
Answer(r, told, v) ==
    /\ pc' = [pc EXCEPT ![r] = "done"]
    /\ verdict' = [verdict EXCEPT ![r] = told]
    /\ val' = [val EXCEPT ![r] = v]

\* A request for the configuration has it; one with a token goes on.
Given(r, v) ==
    IF item[r] = "realm"
    THEN /\ pc' = [pc EXCEPT ![r] = "certs"]
         /\ val' = [val EXCEPT ![r] = v]
         /\ UNCHANGED verdict
    ELSE Answer(r, "ok", v)

Goto(r, step) == pc' = [pc EXCEPT ![r] = step] /\ UNCHANGED <<val, verdict>>

-----------------------------------------------------------------------------
(* A request arrives: the middleware, then the memory of the server. *)

\* The language with the highest quality, the first of equals; a quality
\* of 0 reads as 1.
Quality(tag) == IF tag.q = 0 THEN 10 ELSE tag.q
Preferred(tags) ==
    LET best(n) == \A m \in DOMAIN tags :
            \/ Quality(tags[m]) < Quality(tags[n])
            \/ Quality(tags[m]) = Quality(tags[n]) /\ n <= m
    IN tags[CHOOSE n \in DOMAIN tags : best(n)].base

Locale(head) == IF head.languages = <<>> THEN None ELSE Preferred(head.languages)

\* What the URL says of the tenant and of the language must agree with the
\* headers, which a CDN does not look at.
TenantFits(head) ==
    /\ head.tenant \in Tenants
    /\ head.urlTenant \in {None, head.tenant}
LocaleFits(head) == Locale(head) = "*" \/ head.urlLocale \in {None, Locale(head)}
Admitted(head) == TenantFits(head) /\ LocaleFits(head)

Begin(r, s, t, i, tok) ==
    /\ ~Running(r)
    /\ server' = [server EXCEPT ![r] = s]
    /\ tenant' = [tenant EXCEPT ![r] = t]
    /\ item' = [item EXCEPT ![r] = i]
    /\ token' = [token EXCEPT ![r] = tok]
    /\ begun' = [begun EXCEPT ![r] = now]
    /\ UNCHANGED <<now, data, clears, shared, certs>>

Turned(r, s, head) ==
    /\ ~Admitted(head)
    /\ Begin(r, s, None, None, None)
    /\ Answer(r, "400", None)
    /\ UNCHANGED <<mem, work>>

\* KeycloakGuard: no token.
Anonymous(r, s, head) ==
    /\ Admitted(head)
    /\ Begin(r, s, head.tenant, "realm", None)
    /\ Answer(r, "401", None)
    /\ UNCHANGED <<mem, work>>

\* What was remembered is handed out as long as it is live.
Recall(r, held) ==
    /\ pc' = [pc EXCEPT ![r] = IF item'[r] = "realm" THEN "certs" ELSE "done"]
    /\ verdict' = [verdict EXCEPT ![r] = IF item'[r] = "realm" THEN None ELSE "ok"]
    /\ val' = [val EXCEPT ![r] = held.value]

\* The slip: each use of what is remembered lengthens its life.
AskRenews(r, s, head, i, tok) ==
    /\ Admitted(head)
    /\ Begin(r, s, head.tenant, i, tok)
    /\ \/ /\ mem[s][head.tenant][i] # None
          /\ Recall(r, mem[s][head.tenant][i])
          /\ mem' = [mem EXCEPT ![s][head.tenant][i].until = now + MemTtl]
       \/ /\ mem[s][head.tenant][i] = None
          /\ pc' = [pc EXCEPT ![r] = "cms"]
          /\ val' = [val EXCEPT ![r] = None]
          /\ verdict' = [verdict EXCEPT ![r] = None]
          /\ UNCHANGED mem
    /\ UNCHANGED work

Ask(r, s, head, i, tok) ==
    /\ Admitted(head)
    /\ Begin(r, s, head.tenant, i, tok)
    /\ \/ mem[s][head.tenant][i] # None /\ Recall(r, mem[s][head.tenant][i])
       \/ /\ mem[s][head.tenant][i] = None
          /\ pc' = [pc EXCEPT ![r] = "cms"]
          /\ val' = [val EXCEPT ![r] = None]
          /\ verdict' = [verdict EXCEPT ![r] = None]
    /\ UNCHANGED <<mem, work>>

-----------------------------------------------------------------------------
(* The CMS is asked. What is missing, cannot be read or makes no sense is   *)
(* stood in for by an empty value, which only some of the methods keep.     *)

Fails(i, how) ==
    \/ i = "attributes" /\ how \notin {"good", "missing"}
    \/ i = "analytics" /\ how = "failed"
Taken(i, how) ==
    \/ how \in {"good", "shared"}
    \/ how = "misshapen" /\ i # "facets"

\* The slip: empty facets are kept like an empty search configuration.
KeptFacets(i, how) ==
    \/ Taken(i, how)
    \/ i \in {"search", "facets"}
    \/ i = "attributes" /\ how = "missing"
    \/ i = "analytics" /\ how \in {"missing", "garbled"}

Kept(i, how) ==
    \/ Taken(i, how)
    \/ i = "search"
    \/ i = "facets" /\ how = "misshapen"
    \/ i = "attributes" /\ how = "missing"
    \/ i = "analytics" /\ how \in {"missing", "garbled"}

\* What was read is under way to the server; its memory may be cleared
\* before it is there.
Arriving(r, v) ==
    /\ pc' = [pc EXCEPT ![r] = "fill"]
    /\ val' = [val EXCEPT ![r] = v]
    /\ UNCHANGED verdict

ReadCms(r) ==
    /\ pc[r] = "cms" /\ item[r] # "realm"
    /\ \E how \in {Form[cms[tenant[r]][item[r]]], "failed"} :
        Arriving(r, Read(IF Taken(item[r], how) THEN cms[tenant[r]][item[r]] ELSE 0, how))
    /\ UNCHANGED <<now, data, caches, clears, what, work>>

\* The realm is a plain string; without it the shared Redis is next.
ReadCmsRealm(r) ==
    /\ pc[r] = "cms" /\ item[r] = "realm"
    /\ \/ /\ Form[cms[tenant[r]]["realm"]] # "missing"
          /\ Arriving(r, Read(cms[tenant[r]]["realm"], "good"))
       \/ Goto(r, "shared")
    /\ UNCHANGED <<now, data, caches, clears, what, work>>

ReadShared(r) ==
    /\ pc[r] = "shared"
    /\ \/ /\ shared[tenant[r]] # None
          /\ Arriving(r, [shared[tenant[r]].value EXCEPT !.how = "shared"])
       \/ shared[tenant[r]] = None /\ Goto(r, "strapi")
       \/ Answer(r, "500", None)
    /\ UNCHANGED <<now, data, caches, clears, what, work>>

Fill(r) ==
    /\ pc[r] = "fill"
    /\ IF Fails(item[r], val[r].how) THEN Answer(r, "500", val[r]) ELSE Given(r, val[r])
    /\ IF Kept(item[r], val[r].how) /\ ~Fails(item[r], val[r].how)
       THEN Remember(r, val[r]) ELSE UNCHANGED mem
    /\ UNCHANGED <<now, data, shared, certs, clears, what, work>>

AskStrapi(r) ==
    /\ pc[r] = "strapi"
    /\ \/ /\ Form[strapi[tenant[r]]] # "missing"
          /\ pc' = [pc EXCEPT ![r] = "store"]
          /\ val' = [val EXCEPT ![r] = Read(strapi[tenant[r]], "good")]
          /\ UNCHANGED verdict
       \/ Answer(r, "500", None)
    /\ UNCHANGED <<now, data, caches, clears, what, work>>

StoreRealm(r) ==
    /\ pc[r] = "store"
    /\ \/ /\ shared' = [shared EXCEPT ![tenant[r]] = Entry(val[r], SharedTtl)]
          /\ Remember(r, val[r])
          /\ Given(r, val[r])
       \/ Answer(r, "500", None) /\ UNCHANGED <<mem, shared>>
    /\ UNCHANGED <<now, data, certs, clears, what, work>>

-----------------------------------------------------------------------------
(* A token is judged by the certificates of the realm of the tenant. *)

Judge(r, keys) ==
    Answer(r, IF token[r].kid \in keys /\ token[r].valid THEN "ok" ELSE "401", val[r])

ReadCerts(r) ==
    /\ pc[r] = "certs"
    /\ \/ token[r].kid = None /\ Answer(r, "401", val[r])
       \/ /\ token[r].kid # None
          /\ \/ /\ certs[val[r].edition] # None
                /\ Judge(r, certs[val[r].edition])
             \/ certs[val[r].edition] = None /\ Goto(r, "keycloak")
             \/ Answer(r, "500", val[r])
    /\ UNCHANGED <<now, data, caches, clears, what, work>>

KeysOf(m) == {<<m, gen[m]>>}

\* The slip: an answer without keys is kept like any other.
AskKeycloakAny(r) ==
    /\ pc[r] = "keycloak"
    /\ \/ /\ Goto(r, "keep")
          /\ \E keys \in {KeysOf(val[r].edition), {}} : work' = [work EXCEPT ![r] = keys]
       \/ Answer(r, "500", val[r]) /\ UNCHANGED work
    /\ UNCHANGED <<now, data, caches, clears, what>>

\* An answer without keys is refused.
AskKeycloak(r) ==
    /\ pc[r] = "keycloak"
    /\ \/ /\ Goto(r, "keep")
          /\ work' = [work EXCEPT ![r] = KeysOf(val[r].edition)]
       \/ Answer(r, "500", val[r]) /\ UNCHANGED work
    /\ UNCHANGED <<now, data, caches, clears, what>>

KeepCerts(r) ==
    /\ pc[r] = "keep"
    /\ \/ /\ certs' = [certs EXCEPT ![val[r].edition] = work[r]]
          /\ Judge(r, work[r])
       \/ Answer(r, "500", val[r]) /\ UNCHANGED certs
    /\ work' = [work EXCEPT ![r] = None]
    /\ UNCHANGED <<now, data, mem, shared, clears, what>>

-----------------------------------------------------------------------------
(* getCustomAttributesBySchemaNameAsCsv: SCAN the keys of all tenants, get  *)
(* the values of each batch, keep the first attribute of each column.       *)

Configured == {t \in Tenants : Form[cms[t]["attributes"]] # "missing"}

AskCsv(r, s) ==
    /\ Begin(r, s, None, "csv", None)
    /\ pc' = [pc EXCEPT ![r] = "scan"]
    /\ work' = [work EXCEPT ![r] =
            [left |-> Configured, batch |-> {}, rounds |-> 0, found |-> {},
             before |-> [t \in Tenants |-> cms[t]["attributes"]], last |-> FALSE]]
    /\ val' = [val EXCEPT ![r] = None]
    /\ verdict' = [verdict EXCEPT ![r] = None]
    /\ UNCHANGED mem

\* A key that was there from the first to the last SCAN is returned once or
\* more often; one that came or went meanwhile may not be.
MayEnd(r, keys) ==
    \A t \in work[r].left \ keys : cms[t]["attributes"] # work[r].before[t]

ScanRound(r, keys, last) ==
    /\ work[r].rounds < MaxRounds
    /\ last => MayEnd(r, keys)
    /\ work' = [work EXCEPT ![r].rounds = @ + 1, ![r].batch = keys,
                            ![r].left = @ \ keys, ![r].last = last]
    /\ IF keys = {} /\ last THEN Answer(r, "ok", None)
       ELSE Goto(r, IF keys = {} THEN "scan" ELSE "mget")

Scan(r) ==
    /\ pc[r] = "scan"
    /\ \/ \E keys \in SUBSET Configured, last \in BOOLEAN : ScanRound(r, keys, last)
       \/ work[r].rounds = MaxRounds /\ Answer(r, "500", None) /\ UNCHANGED work
       \/ Answer(r, "500", None) /\ UNCHANGED work
    /\ UNCHANGED <<now, data, caches, clears, what>>

\* The slip: one key that cannot be read ends the batch.
AddedUntilBad(r) ==
    IF \A t \in work[r].batch : Form[cms[t]["attributes"]] = "good"
    THEN UNION {Columns[cms[t]["attributes"]] : t \in work[r].batch}
    ELSE {}

\* A key deleted since the SCAN, or one that cannot be read, is skipped.
AddedBy(r) ==
    UNION {Columns[cms[t]["attributes"]] :
            t \in {t \in work[r].batch : Form[cms[t]["attributes"]] = "good"}}

GetBatch(r) ==
    /\ pc[r] = "mget"
    /\ \/ /\ work' = [work EXCEPT ![r].found = @ \cup AddedBy(r), ![r].batch = {}]
          /\ IF work[r].last THEN Answer(r, "ok", None) ELSE Goto(r, "scan")
       \/ Answer(r, "500", None) /\ UNCHANGED work
    /\ UNCHANGED <<now, data, caches, clears, what>>

-----------------------------------------------------------------------------
(* The caches of one server are cleared, for one tenant or all; that of the *)
(* analytics configuration, and what the servers share, are not.            *)

Cleared == {"realm", "facets", "locales", "search", "attributes"}

\* What s has read for t and not yet put into its memory.
OnItsWay(s, t) ==
    {item[r] : r \in {q \in Requests : /\ pc[q] \in {"fill", "store"}
                                      /\ server[q] = s /\ tenant[q] = t}}

Forget(s, ts, items) ==
    /\ mem' = [mem EXCEPT ![s] = [t \in Tenants |->
            IF t \in ts THEN [i \in Items |-> IF i \in items THEN None ELSE @[t][i]]
            ELSE @[t]]]
    /\ cleared' = [cleared EXCEPT ![s] = [t \in Tenants |-> IF t \in ts THEN now ELSE @[t]]]
    /\ late' = [late EXCEPT ![s] = [t \in Tenants |->
            IF t \in ts THEN OnItsWay(s, t) ELSE @[t]]]
    /\ UNCHANGED <<now, data, shared, certs, pc, what, val, verdict, work>>

\* The slip: the realm is left out.
ClearSome(s, ts) == Forget(s, ts, Cleared \ {"realm"})

Clear(s, ts) == Forget(s, ts, Cleared)

-----------------------------------------------------------------------------
(* Outside: the CMS, Keycloak, and time. *)

\* The CMS publishes the next edition of an item; the old CMS that of a realm.
Publish(t, i) ==
    /\ cms[t][i] < MaxEdition
    /\ cms' = [cms EXCEPT ![t][i] = @ + 1]
    /\ UNCHANGED <<now, strapi, gen, caches, clears, pc, what, val, verdict, work>>

PublishStrapi(t) ==
    /\ strapi[t] < MaxEdition
    /\ strapi' = [strapi EXCEPT ![t] = @ + 1]
    /\ UNCHANGED <<now, cms, gen, caches, clears, pc, what, val, verdict, work>>

Rotate(m) ==
    /\ gen[m] < MaxKey
    /\ gen' = [gen EXCEPT ![m] = @ + 1]
    /\ UNCHANGED <<now, cms, strapi, caches, clears, pc, what, val, verdict, work>>

Tick ==
    /\ now < MaxClock
    /\ \A r \in Requests : Running(r) => now < begun[r] + Patience
    /\ now' = now + 1
    /\ mem' = [s \in Servers |-> [t \in Tenants |-> [i \in Items |->
                    At(mem[s][t][i], now + 1)]]]
    /\ shared' = [t \in Tenants |-> At(shared[t], now + 1)]
    /\ UNCHANGED <<data, certs, clears, pc, what, val, verdict, work>>

Advance(r) ==
    \/ ReadCms(r) \/ ReadCmsRealm(r) \/ ReadShared(r) \/ Fill(r)
    \/ AskStrapi(r) \/ StoreRealm(r)
    \/ ReadCerts(r) \/ AskKeycloak(r) \/ KeepCerts(r)
    \/ Scan(r) \/ GetBatch(r)

Come(r, s, head, i) ==
    \/ Turned(r, s, head)
    \/ IF i = "realm"
       THEN Anonymous(r, s, head) \/ \E tok \in Tokens : Ask(r, s, head, i, tok)
       ELSE Ask(r, s, head, i, None)

Next ==
    \/ \E r \in Requests :
        \/ Advance(r)
        \/ \E s \in Servers : AskCsv(r, s) \/ \E head \in Heads, i \in Items : Come(r, s, head, i)
    \/ \E s \in Servers : Clear(s, Tenants) \/ \E t \in Tenants : Clear(s, {t})
    \/ \E t \in Tenants : PublishStrapi(t) \/ \E i \in Items : Publish(t, i)
    \/ \E m \in 1..MaxEdition : Rotate(m)
    \/ Tick

Spec == Init /\ [][Next]_vars

-----------------------------------------------------------------------------
(* Properties. *)

Answered(r) == pc[r] = "done" /\ val[r] # None

(***************************************************************************)
(* The times to live bound how old the configuration is that an answer     *)
(* rests on, counted from the moment the request arrived, though one cache *)
(* is filled from another: a minute of memory and the time a request takes *)
(* to get there, for the realm the same again in the shared Redis.         *)
(***************************************************************************)
Bound(i) == MemTtl + Patience + (IF i = "realm" THEN SharedTtl + Patience ELSE 0)
AnswersRecent ==
    \A r \in Requests : Answered(r) => begun[r] < val[r].at + Bound(item[r])

(***************************************************************************)
(* Facets and locales the CMS did not have, or that could not be read, are *)
(* asked for again by the next request: their absence is never remembered. *)
(***************************************************************************)
EmptyNotKept ==
    \A r \in Requests :
        Answered(r) /\ item[r] \in {"facets", "locales"} /\ val[r].how \notin {"good", "misshapen"}
            => begun[r] <= val[r].at

(***************************************************************************)
(* After its memory was cleared a server holds nothing read before of what *)
(* CmsConfigController clears, unless that very item was on its way to the *)
(* server then, or it is a realm found since in the shared Redis, which is *)
(* not cleared.                                                            *)
(***************************************************************************)
Outlived(s, t, i) ==
    /\ mem[s][t][i] # None
    /\ mem[s][t][i].value.at < cleared[s][t]
    /\ mem[s][t][i].value.how # "shared"
    /\ i \notin late[s][t]
ClearForgets == \A s \in Servers, t \in Tenants, i \in Cleared : ~Outlived(s, t, i)

(***************************************************************************)
(* Certificates are kept for ever, so that what is kept once must be right:*)
(* a good token of the realm of the tenant is refused only when the realm  *)
(* has changed its key.                                                    *)
(***************************************************************************)
LockedOutOnlyByRotation ==
    \A r \in Requests :
        Answered(r) /\ verdict[r] = "401" /\ token[r].valid
        /\ token[r].kid = <<val[r].edition, 1>>
            => gen[val[r].edition] > 1

(***************************************************************************)
(* A sweep that succeeds has every attribute of every tenant whose         *)
(* configuration did not change since it began, whatever SCAN repeats and  *)
(* whatever else cannot be read.                                           *)
(***************************************************************************)
CsvComplete ==
    \A r \in Requests :
        item[r] = "csv" /\ verdict[r] = "ok" =>
            \A t \in Tenants :
                cms[t]["attributes"] = work[r].before[t] /\ Form[cms[t]["attributes"]] = "good"
                    => Columns[cms[t]["attributes"]] \subseteq work[r].found

=============================================================================
