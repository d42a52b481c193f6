--------------------------- MODULE ResponseCache ---------------------------
(***************************************************************************)
(* The caches in front of Umami and Elasticsearch: AnalyticsCacheService   *)
(* (an LRU of each server, a Redis shared by all, and one flight per key), *)
(* AnalyticsInfoEnricherService (the same for the names of websites) and   *)
(* RequestCacheService (no LRU).  A request that misses leads a flight;    *)
(* identical requests on the same server join it.  Time is counted in      *)
(* ticks, and a value is told by the moment it was read from its source.   *)
(***************************************************************************)
EXTENDS Integers

CONSTANTS
    Servers,     \* the processes of the API, each with its own memory
    Requests,    \* the requests that may be open at a time
    Keys,        \* the cache keys they resolve to
    Kind,        \* Kind[k]: "range", "sessions", "catalog", "names", "count"
    Tolerant,    \* the keys whose factory catches a part of its failures
    Closes,      \* Closes[k]: when the end of the range of k is past its day
    L1Ttl,       \* time to live in the LRU of a response
    OpenTtl,     \* in Redis: of a range that is open,
    ClosedTtl,   \*   of a range that is closed,
    SessionTtl,  \*   of a page of sessions,
    CatalogTtl,  \*   of the event catalogue and of the names of websites,
    CountTtl,    \*   of a count of documents
    Patience,    \* how long a flight lasts at most
    MaxClock,    \* bound of the model: when time stops
    None, Failed

Kinds == {"range", "sessions", "catalog", "names", "count"}
Ttls == {L1Ttl, OpenTtl, ClosedTtl, SessionTtl, CatalogTtl, CountTtl}

Values == [key : Keys, at : Int, what : {"data", "standin"}]

ASSUME ResponseCacheAssumption ==
    /\ Kind \in [Keys -> Kinds]
    /\ Tolerant \subseteq Keys
    /\ Closes \in [Keys -> Nat]
    /\ Ttls \subseteq Nat
    /\ OpenTtl <= ClosedTtl
    /\ Patience \in Nat /\ MaxClock \in Nat
    /\ None \notin Requests \cup Servers \cup Keys /\ None # Failed
    /\ {None, Failed} \cap (Values \cup [value : Values, until : Int]) = {}

VARIABLES
    now,      \* the time
    l1,       \* l1[s][k]: what the LRU of server s holds for key k, or None
    l2,       \* l2[k]: what Redis holds for key k, or None
    leader,   \* leader[s][k]: the request whose flight for k is under way on s
    pc,       \* pc[r]: the next step of request r
    server,   \* server[r]: the server that handles it
    key,      \* key[r]: the key it asks for
    begun,    \* begun[r]: when it began to run (0 when it does not)
    ttl,      \* ttl[r]: the time to live it has chosen for Redis
    val       \* val[r]: the value its flight carries, in the end its answer

vars == <<now, l1, l2, leader, pc, server, key, begun, ttl, val>>

\* A value of key k read now; what stands in for data that could not be read.
Read(k, what) == [key |-> k, at |-> now, what |-> what]
Entry(v, life) == [value |-> v, until |-> now + life]

Init ==
    /\ now = 0
    /\ l1 = [s \in Servers |-> [k \in Keys |-> None]]
    /\ l2 = [k \in Keys |-> None]
    /\ leader = [s \in Servers |-> [k \in Keys |-> None]]
    /\ pc = [r \in Requests |-> "idle"]
    /\ server = [r \in Requests |-> None]
    /\ key = [r \in Requests |-> None]
    /\ begun = [r \in Requests |-> 0]
    /\ ttl = [r \in Requests |-> 0]
    /\ val = [r \in Requests |-> None]

HasL1(k) == Kind[k] # "count"
L1Life(k) == IF Kind[k] = "names" THEN CatalogTtl ELSE L1Ttl

\* isClosedRange: the end of the range is before the start of today.
IsClosed(k) == Closes[k] <= now

\* The slip: every range is given the long time to live.
RedisTtlOfClosed(k) ==
    CASE Kind[k] = "sessions" -> SessionTtl
      [] Kind[k] \in {"catalog", "names"} -> CatalogTtl
      [] Kind[k] = "count" -> CountTtl
      [] OTHER -> ClosedTtl

RedisTtl(k) ==
    CASE Kind[k] = "sessions" -> SessionTtl
      [] Kind[k] \in {"catalog", "names"} -> CatalogTtl
      [] Kind[k] = "count" -> CountTtl
      [] OTHER -> IF IsClosed(k) THEN ClosedTtl ELSE OpenTtl

Running(r) == pc[r] \notin {"idle", "done"}

\* Those that get the outcome of r's flight: r and all who joined it.
Joined(r) ==
    {r} \cup {q \in Requests :
        pc[q] = "wait" /\ server[q] = server[r] /\ key[q] = key[r]}

\* The flight of r ends, with a value or Failed, and is forgotten.
SettleOnly(r, v) ==
    /\ pc' = [q \in Requests |-> IF q \in Joined(r) THEN "done" ELSE pc[q]]
    /\ val' = [q \in Requests |-> IF q \in Joined(r) THEN v ELSE val[q]]
    /\ begun' = [q \in Requests |-> IF q \in Joined(r) THEN 0 ELSE begun[q]]
    /\ ttl' = [ttl EXCEPT ![r] = 0]

\* The slip: it is forgotten only when it ends well.
SettleKeeps(r, v) ==
    /\ SettleOnly(r, v)
    /\ leader' = IF v = Failed THEN leader
                 ELSE [leader EXCEPT ![server[r]][key[r]] = None]

Settle(r, v) ==
    /\ SettleOnly(r, v)
    /\ leader' = [leader EXCEPT ![server[r]][key[r]] = None]

Remember(r, v) ==
    l1' = [l1 EXCEPT ![server[r]][key[r]] = Entry(v, L1Life(key[r]))]

(***************************************************************************)
(* getOrSet, up to its first await: answered from the LRU, joined to the   *)
(* flight for the key, or the leader of a new one.  The slip does not look *)
(* for a flight.                                                           *)
(***************************************************************************)
Send(r, s, k) ==
    /\ ~Running(r)
    /\ server' = [server EXCEPT ![r] = s]
    /\ key' = [key EXCEPT ![r] = k]
    /\ UNCHANGED <<now, l1, l2, ttl>>

AnswerNow(r, s, k) ==
    /\ l1[s][k] # None
    /\ pc' = [pc EXCEPT ![r] = "done"]
    /\ val' = [val EXCEPT ![r] = l1[s][k].value]
    /\ UNCHANGED <<leader, begun>>

Lead(r, s, k) ==
    /\ l1[s][k] = None
    /\ pc' = [pc EXCEPT ![r] = "get"]
    /\ leader' = [leader EXCEPT ![s][k] = r]
    /\ begun' = [begun EXCEPT ![r] = now]
    /\ val' = [val EXCEPT ![r] = None]

AskAlone(r, s, k) == Send(r, s, k) /\ (AnswerNow(r, s, k) \/ Lead(r, s, k))

Ask(r, s, k) ==
    /\ Send(r, s, k)
    /\ \/ AnswerNow(r, s, k)
       \/ leader[s][k] = None /\ Lead(r, s, k)
       \/ /\ l1[s][k] = None /\ leader[s][k] # None
          /\ pc' = [pc EXCEPT ![r] = "wait"]
          /\ begun' = [begun EXCEPT ![r] = now]
          /\ val' = [val EXCEPT ![r] = None]
          /\ UNCHANGED leader

\* Redis is asked; it may fail, which must not block the request.
Get(r) ==
    /\ pc[r] = "get"
    /\ \/ /\ l2[key[r]] # None
          /\ pc' = [pc EXCEPT ![r] = "hit"]
          /\ val' = [val EXCEPT ![r] = l2[key[r]].value]
       \/ pc' = [pc EXCEPT ![r] = "compute"] /\ UNCHANGED val
    /\ UNCHANGED <<now, l1, l2, leader, server, key, begun, ttl>>

\* The answer of Redis arrives: it goes to the LRU and to the client.
Hit(r) ==
    /\ pc[r] = "hit"
    /\ IF HasL1(key[r]) THEN Remember(r, val[r]) ELSE UNCHANGED l1
    /\ Settle(r, val[r])
    /\ UNCHANGED <<now, l2, server, key>>

(***************************************************************************)
(* The factory reads the source.  Some factories catch a failure and put   *)
(* something in its place, which goes on as if it were data: a count that  *)
(* fails is 0, a website whose name cannot be read is called by its id,    *)
(* and a heatmap or an export goes without what cannot be geocoded.        *)
(***************************************************************************)
Compute(r) ==
    /\ pc[r] = "compute"
    /\ \E what \in {"data", "standin"} :
        /\ what = "standin" => key[r] \in Tolerant
        /\ val' = [val EXCEPT ![r] = Read(key[r], what)]
    /\ pc' = [pc EXCEPT ![r] = "return"]
    /\ UNCHANGED <<now, l1, l2, leader, server, key, begun, ttl>>

\* The slip: the error is kept like a value.
ThrowKept(r) ==
    /\ pc[r] = "compute"
    /\ Kind[key[r]] # "count"
    /\ Remember(r, Failed)
    /\ Settle(r, Failed)
    /\ UNCHANGED <<now, l2, server, key>>

\* The factory throws; only a count catches every error of its own.
Throw(r) ==
    /\ pc[r] = "compute"
    /\ Kind[key[r]] # "count"
    /\ Settle(r, Failed)
    /\ UNCHANGED <<now, l1, l2, server, key>>

\* A tenant without websites has no names; Redis is not told.
NoWebsites(r) ==
    /\ pc[r] = "compute"
    /\ Kind[key[r]] = "names"
    /\ Remember(r, Read(key[r], "data"))
    /\ Settle(r, Read(key[r], "data"))
    /\ UNCHANGED <<now, l2, server, key>>

\* The factory has returned: how long Redis keeps the value is decided now.
Return(r) ==
    /\ pc[r] = "return"
    /\ ttl' = [ttl EXCEPT ![r] = RedisTtl(key[r])]
    /\ IF HasL1(key[r]) /\ Kind[key[r]] # "names"
       THEN Remember(r, val[r]) ELSE UNCHANGED l1
    /\ pc' = [pc EXCEPT ![r] = "set"]
    /\ UNCHANGED <<now, l2, leader, server, key, begun, val>>

\* Redis is given the value, or fails; either way the flight ends.
Set(r) ==
    /\ pc[r] = "set"
    /\ \/ l2' = [l2 EXCEPT ![key[r]] = Entry(val[r], ttl[r])]
       \/ UNCHANGED l2
    /\ IF Kind[key[r]] = "names" THEN Remember(r, val[r]) ELSE UNCHANGED l1
    /\ Settle(r, val[r])
    /\ UNCHANGED <<now, server, key>>

\* An LRU makes room, or Redis does; both may at any time.
Evict(s, k) ==
    /\ l1[s][k] # None
    /\ l1' = [l1 EXCEPT ![s][k] = None]
    /\ UNCHANGED <<now, l2, leader, pc, server, key, begun, ttl, val>>

EvictRedis(k) ==
    /\ l2[k] # None
    /\ l2' = [l2 EXCEPT ![k] = None]
    /\ UNCHANGED <<now, l1, leader, pc, server, key, begun, ttl, val>>

\* A server restarts: its memory and the requests it was handling are gone.
Restart(s) ==
    LET lost == {r \in Requests : server[r] = s /\ Running(r)}
    IN /\ l1' = [l1 EXCEPT ![s] = [k \in Keys |-> None]]
       /\ leader' = [leader EXCEPT ![s] = [k \in Keys |-> None]]
       /\ pc' = [r \in Requests |-> IF r \in lost THEN "done" ELSE pc[r]]
       /\ val' = [r \in Requests |-> IF r \in lost THEN Failed ELSE val[r]]
       /\ begun' = [r \in Requests |-> IF r \in lost THEN 0 ELSE begun[r]]
       /\ ttl' = [r \in Requests |-> IF r \in lost THEN 0 ELSE ttl[r]]
       /\ UNCHANGED <<now, l2, server, key>>

(***************************************************************************)
(* Time passes, but no flight outlives its patience: every call to Umami   *)
(* has a timeout.  An entry that expires is as good as gone.               *)
(***************************************************************************)
Live(e) == IF e # None /\ e.until > now + 1 THEN e ELSE None

Tick ==
    /\ now < MaxClock
    /\ \A r \in Requests : Running(r) => now < begun[r] + Patience
    /\ now' = now + 1
    /\ l1' = [s \in Servers |-> [k \in Keys |-> Live(l1[s][k])]]
    /\ l2' = [k \in Keys |-> Live(l2[k])]
    /\ UNCHANGED <<leader, pc, server, key, begun, ttl, val>>

Advance(r) ==
    Get(r) \/ Hit(r) \/ Compute(r) \/ Throw(r) \/ NoWebsites(r) \/ Return(r) \/ Set(r)

Next ==
    \/ \E r \in Requests :
        Advance(r) \/ \E s \in Servers, k \in Keys : Ask(r, s, k)
    \/ \E s \in Servers : Restart(s) \/ \E k \in Keys : Evict(s, k)
    \/ \E k \in Keys : EvictRedis(k)
    \/ Tick

Spec == Init /\ [][Next]_vars

-----------------------------------------------------------------------------
(* Properties. *)

(***************************************************************************)
(* How long a value may have been under way or in a cache when it is       *)
(* handed out.  A range that closes while its value is under way is given  *)
(* the long time to live of a closed one, though its data may be short.    *)
(***************************************************************************)
LongestTtl(v) ==
    CASE Kind[v.key] = "sessions" -> SessionTtl
      [] Kind[v.key] \in {"catalog", "names"} -> CatalogTtl
      [] Kind[v.key] = "count" -> CountTtl
      [] OTHER -> IF v.at + Patience < Closes[v.key] THEN OpenTtl ELSE ClosedTtl

MaxAge(v) ==
    2 * Patience + LongestTtl(v) + (IF HasL1(v.key) THEN L1Life(v.key) ELSE 0)

(***************************************************************************)
(* Whatever servers, flights, restarts, evictions and failures of Redis do *)
(* between them, an answer is of the key that was asked for, and is no     *)
(* older than a flight to Redis, its time there, a flight from Redis and   *)
(* its time in an LRU add up to.                                           *)
(***************************************************************************)
Fresh == INSTANCE FreshAnswers WITH
            asked <- [r \in Requests |-> IF pc[r] = "idle" THEN None ELSE key[r]],
            answer <- [r \in Requests |-> IF pc[r] = "done" THEN val[r] ELSE None]
ImplementsFreshAnswers == Fresh!FreshSpec

(***************************************************************************)
(* A server never has two flights for the same key, whichever way the last *)
(* one ended, so identical requests cost the source one call.              *)
(***************************************************************************)
Leads(r) == pc[r] \in {"get", "hit", "compute", "return", "set"}

SingleFlight ==
    \A r, q \in Requests :
        Leads(r) /\ Leads(q) /\ server[r] = server[q] /\ key[r] = key[q] => r = q

(***************************************************************************)
(* An error is never remembered, although flights end in one and those who *)
(* joined them are answered with it: what a cache holds for a key is what  *)
(* the factory of that key returned.  That is what was read from the       *)
(* source, unless the factory is one that puts something in the place of   *)
(* what it could not read: this is kept, as long as data would be.         *)
(***************************************************************************)
Held(k) == {l2[k]} \cup {l1[s][k] : s \in Servers}

NoErrorKept ==
    \A k \in Keys : \A e \in Held(k) \ {None} :
        /\ e.value # Failed
        /\ e.value.key = k
        /\ e.value.what = "data" \/ k \in Tolerant

\* A request that was sent is answered, also one that joined a flight.
EveryRequestAnswered == \A r \in Requests : Running(r) ~> pc[r] = "done"

=============================================================================
