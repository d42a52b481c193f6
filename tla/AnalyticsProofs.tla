-------------------------- MODULE AnalyticsProofs --------------------------
(***************************************************************************)
(* The caches that analytics are answered from, and the reports behind     *)
(* them.  For any servers, requests, keys and times to live: a server has  *)
(* at most one flight for a key, only data is held, and every answer is    *)
(* fresh: the caches implement FreshAnswers.  The inductive invariant      *)
(* says, for each place a value passes through, how old it may be by then. *)
(* For any reports, websites, events and page sizes: a report counts       *)
(* everything it should, however answers, events and pages interleave, and *)
(* a token that is used works, unless it was revoked meanwhile.            *)
(*                                                                         *)
(* Reports take most of the room: sums and counts over websites and rows   *)
(* first (SumFunction and FlattenSeq have no facts of their own), then     *)
(* what each stage of each kind of report brings, then the steps.          *)
(***************************************************************************)
EXTENDS ResponseCache, UmamiAnalytics, TLAPS, NaturalsInduction, SequenceTheorems,
        FiniteSetTheorems, WellFoundedInduction

Steps == {"idle", "done", "wait", "get", "hit", "compute", "return", "set"}
CacheEntries == [value : Values, until : Int]

\* Every variable has its type.
Shape ==
    /\ now \in Nat
    /\ l1 \in [Servers -> [Keys -> CacheEntries \cup {None}]]
    /\ l2 \in [Keys -> CacheEntries \cup {None}]
    /\ leader \in [Servers -> [Keys -> Requests \cup {None}]]
    /\ pc \in [Requests -> Steps]
    /\ server \in [Requests -> Servers \cup {None}]
    /\ key \in [Requests -> Keys \cup {None}]
    /\ begun \in [Requests -> Nat]
    /\ ttl \in [Requests -> Nat]
    /\ val \in [Requests -> Values \cup {None, Failed}]

\* A running request has a server and a key, and is within its patience.
OnTime ==
    \A r \in Requests : Running(r) =>
        /\ server[r] \in Servers /\ key[r] \in Keys
        /\ begun[r] <= now /\ now <= begun[r] + Patience

\* The leader of a flight is noted as such.
Noted == \A r \in Requests : Leads(r) => leader[server[r]][key[r]] = r

\* A value of k that may be kept.
Good(v, k) ==
    /\ v \in Values
    /\ v.key = k
    /\ v.at <= now
    /\ v.what = "data" \/ k \in Tolerant

\* What a flight carries: from Redis, or from the source.
Carried ==
    \A r \in Requests :
        /\ pc[r] = "hit" =>
            /\ Good(val[r], key[r])
            /\ begun[r] <= val[r].at + Patience + LongestTtl(val[r])
        /\ pc[r] \in {"return", "set"} =>
            Good(val[r], key[r]) /\ begun[r] <= val[r].at
        /\ pc[r] = "set" => ttl[r] <= LongestTtl(val[r])
        /\ pc[r] = "done" => val[r] # None

\* What the LRU of a server holds, and what Redis does.
HeldL1 ==
    \A s \in Servers, k \in Keys : l1[s][k] # None =>
        /\ Good(l1[s][k].value, k)
        /\ now <= l1[s][k].until
        /\ l1[s][k].until <= l1[s][k].value.at + MaxAge(l1[s][k].value)
        /\ HasL1(k)

HeldL2 ==
    \A k \in Keys : l2[k] # None =>
        /\ Good(l2[k].value, k)
        /\ now <= l2[k].until
        /\ l2[k].until <= l2[k].value.at + Patience + LongestTtl(l2[k].value)

IInv == Shape /\ OnTime /\ Noted /\ Carried /\ HeldL1 /\ HeldL2

-----------------------------------------------------------------------------
(* Times to live. *)

LEMMA TtlTypes ==
    /\ L1Ttl \in Nat /\ OpenTtl \in Nat /\ ClosedTtl \in Nat /\ SessionTtl \in Nat
    /\ CatalogTtl \in Nat /\ CountTtl \in Nat /\ Patience \in Nat
    /\ OpenTtl <= ClosedTtl
BY ResponseCacheAssumption DEF Ttls

LEMMA LongestType ==
    ASSUME NEW v \in Values
    PROVE  LongestTtl(v) \in Nat /\ L1Life(v.key) \in Nat /\ MaxAge(v) \in Nat
<1>1. LongestTtl(v) \in Nat
    BY TtlTypes DEF LongestTtl
<1>2. L1Life(v.key) \in Nat
    BY TtlTypes DEF L1Life
<1> QED
    BY <1>1, <1>2, TtlTypes DEF MaxAge

\* Within the patience of its flight a value is not given more than its
\* longest time to live, also if its range has closed meanwhile.
LEMMA TtlBound ==
    ASSUME NEW v \in Values, now \in Nat, now <= v.at + Patience
    PROVE  RedisTtl(v.key) \in Nat /\ RedisTtl(v.key) <= LongestTtl(v)
<1>1. v.key \in Keys /\ v.at \in Int /\ Closes[v.key] \in Nat
    BY ResponseCacheAssumption DEF Values
<1> QED
    BY <1>1, TtlTypes DEF RedisTtl, LongestTtl, IsClosed

\* None is neither a request nor an entry, and differs from every value.
LEMMA NoneApart ==
    /\ None \notin Requests /\ None \notin Servers /\ None \notin Keys /\ None # Failed
    /\ None \notin Values /\ Failed \notin Values /\ None \notin CacheEntries
BY ResponseCacheAssumption DEF CacheEntries

-----------------------------------------------------------------------------
(* Steps that several actions share. *)

\* A leader is not idle, done or waiting.
LEMMA LeadsRuns == \A r \in Requests : Leads(r) => Running(r)
BY DEF Leads, Running

\* The end of a flight.
LEMMA SettleKeepsIInv ==
    ASSUME IInv, NEW r \in Requests, Leads(r), NEW v \in Values \cup {Failed},
           Settle(r, v), UNCHANGED <<now, server, key>>
    PROVE  /\ leader' \in [Servers -> [Keys -> Requests \cup {None}]]
           /\ pc' \in [Requests -> Steps]
           /\ begun' \in [Requests -> Nat]
           /\ ttl' \in [Requests -> Nat]
           /\ val' \in [Requests -> Values \cup {None, Failed}]
           /\ OnTime' /\ Noted' /\ Carried'
<1> USE NoneApart
<1>1. server[r] \in Servers /\ key[r] \in Keys
    BY LeadsRuns DEF IInv, OnTime
<1>2. /\ leader' = [leader EXCEPT ![server[r]][key[r]] = None]
      /\ pc' = [q \in Requests |-> IF q \in Joined(r) THEN "done" ELSE pc[q]]
      /\ val' = [q \in Requests |-> IF q \in Joined(r) THEN v ELSE val[q]]
      /\ begun' = [q \in Requests |-> IF q \in Joined(r) THEN 0 ELSE begun[q]]
      /\ ttl' = [ttl EXCEPT ![r] = 0]
    BY DEF Settle, SettleOnly
<1>3. r \in Joined(r)
    BY DEF Joined
<1>4. /\ leader' \in [Servers -> [Keys -> Requests \cup {None}]]
      /\ pc' \in [Requests -> Steps]
      /\ begun' \in [Requests -> Nat]
      /\ ttl' \in [Requests -> Nat]
      /\ val' \in [Requests -> Values \cup {None, Failed}]
    BY <1>1, <1>2 DEF IInv, Shape, Steps
<1>5. \A q \in Requests : q \in Joined(r) => pc'[q] = "done" /\ val'[q] = v
    BY <1>2
<1>6. \A q \in Requests : q \notin Joined(r) =>
        /\ pc'[q] = pc[q] /\ val'[q] = val[q] /\ begun'[q] = begun[q]
        /\ ttl'[q] = ttl[q] /\ q # r
    BY <1>2, <1>3 DEF IInv, Shape
<1>7. OnTime'
    BY <1>5, <1>6 DEF IInv, OnTime, Running
<1>8. Noted'
    <2> SUFFICES ASSUME NEW q \in Requests, Leads(q)'
                 PROVE  leader'[server[q]][key[q]] = q
        BY DEF Noted
    <2>1. q \notin Joined(r) /\ Leads(q)
        BY <1>5, <1>6 DEF Leads
    <2>2. leader[server[q]][key[q]] = q /\ leader[server[r]][key[r]] = r
        BY <2>1 DEF IInv, Noted
    <2>3. q # r /\ server[q] \in Servers /\ key[q] \in Keys
        BY <2>1, <1>6, LeadsRuns DEF IInv, OnTime
    <2>4. ~(server[q] = server[r] /\ key[q] = key[r])
        BY <2>2, <2>3
    <2> QED
        BY <1>1, <1>2, <2>2, <2>3, <2>4 DEF IInv, Shape
<1>9. Carried'
    BY <1>5, <1>6 DEF IInv, Carried, Good
<1> QED
    BY <1>4, <1>7, <1>8, <1>9

\* A value goes to the LRU of the server.
LEMMA RememberKeepsHeld ==
    ASSUME IInv, NEW r \in Requests, Leads(r), NEW v, Good(v, key[r]), HasL1(key[r]),
           now <= v.at + 2 * Patience + LongestTtl(v), Remember(r, v), now' = now
    PROVE  l1' \in [Servers -> [Keys -> CacheEntries \cup {None}]] /\ HeldL1'
<1>1. server[r] \in Servers /\ key[r] \in Keys
    BY LeadsRuns DEF IInv, OnTime
<1>2. v \in Values /\ v.key = key[r] /\ v.at \in Int /\ now \in Nat
    BY DEF Good, Values, IInv, Shape
<1>3. L1Life(key[r]) \in Nat /\ LongestTtl(v) \in Nat
      /\ MaxAge(v) = 2 * Patience + LongestTtl(v) + L1Life(key[r])
    BY <1>2, LongestType DEF MaxAge
<1>4. Entry(v, L1Life(key[r])) \in CacheEntries
    BY <1>2, <1>3 DEF Entry, CacheEntries
<1> DEFINE e == [value |-> v, until |-> now + L1Life(key[r])]
<1>5. l1' = [l1 EXCEPT ![server[r]][key[r]] = e] /\ e \in CacheEntries
    BY <1>4 DEF Remember, Entry
<1>6. e.value = v /\ now <= e.until /\ e.until <= e.value.at + MaxAge(e.value)
    BY <1>2, <1>3, TtlTypes
<1> HIDE DEF e
<1>7. l1' \in [Servers -> [Keys -> CacheEntries \cup {None}]]
    BY <1>1, <1>5 DEF IInv, Shape
<1>8. HeldL1'
    <2> SUFFICES ASSUME NEW s \in Servers, NEW k \in Keys, l1'[s][k] # None
                 PROVE  /\ Good(l1'[s][k].value, k)
                        /\ now <= l1'[s][k].until
                        /\ l1'[s][k].until <= l1'[s][k].value.at + MaxAge(l1'[s][k].value)
                        /\ HasL1(k)
        BY DEF HeldL1, Good, MaxAge, LongestTtl, HasL1, L1Life
    <2>1. CASE s = server[r] /\ k = key[r]
        BY <2>1, <1>1, <1>5, <1>6 DEF IInv, Shape
    <2>2. CASE ~(s = server[r] /\ k = key[r])
        BY <2>2, <1>1, <1>5 DEF IInv, Shape, HeldL1
    <2> QED
        BY <2>1, <2>2
<1> QED
    BY <1>7, <1>8

-----------------------------------------------------------------------------
(* Each action keeps the invariant. *)

\* With the time and the values where they are, what is held stays good.
LEMMA HeldStays ==
    ASSUME IInv, UNCHANGED <<now, l1, l2>>
    PROVE  HeldL1' /\ HeldL2'
BY DEF IInv, HeldL1, HeldL2, Good, MaxAge, LongestTtl, HasL1, L1Life

LEMMA InitIInv == Init => IInv
<1> SUFFICES ASSUME Init PROVE IInv
    OBVIOUS
<1> USE NoneApart DEF Init
<1>1. Shape
    BY DEF Shape, Steps
<1>2. OnTime /\ Noted /\ Carried
    BY DEF OnTime, Noted, Carried, Running, Leads
<1>3. HeldL1 /\ HeldL2
    BY DEF HeldL1, HeldL2
<1> QED
    BY <1>1, <1>2, <1>3 DEF IInv

\* A request that asks is answered from the LRU, leads or waits; it leads
\* only where no flight is under way.
LEMMA AskIInv ==
    ASSUME IInv, NEW r \in Requests, NEW s \in Servers, NEW k \in Keys, Ask(r, s, k)
    PROVE  IInv'
<1> USE NoneApart
<1>1. /\ ~Running(r)
      /\ server' = [server EXCEPT ![r] = s]
      /\ key' = [key EXCEPT ![r] = k]
      /\ UNCHANGED <<now, l1, l2, ttl>>
    BY DEF Ask, Send
<1>2. HeldL1' /\ HeldL2'
    BY <1>1, HeldStays
<1>3. server'[r] = s /\ key'[r] = k
      /\ \A q \in Requests \ {r} : server'[q] = server[q] /\ key'[q] = key[q]
    BY <1>1 DEF IInv, Shape
<1>4. CASE AnswerNow(r, s, k)
    <2>1. /\ l1[s][k] # None
          /\ pc' = [pc EXCEPT ![r] = "done"]
          /\ val' = [val EXCEPT ![r] = l1[s][k].value]
          /\ UNCHANGED <<leader, begun>>
        BY <1>4 DEF AnswerNow
    <2>2. l1[s][k].value \in Values
        BY <2>1 DEF IInv, HeldL1, Good
    <2>3. Shape'
        BY <1>1, <2>1, <2>2 DEF IInv, Shape, Steps
    <2>4. /\ pc'[r] = "done" /\ val'[r] # None
          /\ \A q \in Requests \ {r} : pc'[q] = pc[q] /\ val'[q] = val[q]
        BY <2>1, <2>2 DEF IInv, Shape
    <2>5. OnTime'
        BY <1>1, <1>3, <2>1, <2>4 DEF IInv, OnTime, Running
    <2>6. Noted'
        BY <1>3, <2>1, <2>4 DEF IInv, Noted, Leads
    <2>7. Carried'
        BY <1>1, <1>3, <2>1, <2>4 DEF IInv, Carried, Good, LongestTtl
    <2> QED
        BY <1>2, <2>3, <2>5, <2>6, <2>7 DEF IInv
<1>5. CASE leader[s][k] = None /\ Lead(r, s, k)
    <2>1. /\ pc' = [pc EXCEPT ![r] = "get"]
          /\ leader' = [leader EXCEPT ![s][k] = r]
          /\ begun' = [begun EXCEPT ![r] = now]
          /\ val' = [val EXCEPT ![r] = None]
        BY <1>5 DEF Lead
    <2>2. Shape'
        BY <1>1, <2>1 DEF IInv, Shape, Steps
    <2>3. /\ pc'[r] = "get" /\ begun'[r] = now
          /\ \A q \in Requests \ {r} :
                pc'[q] = pc[q] /\ val'[q] = val[q] /\ begun'[q] = begun[q]
        BY <2>1 DEF IInv, Shape
    <2>4. OnTime'
        BY <1>1, <1>3, <2>3, TtlTypes DEF IInv, Shape, OnTime, Running
    <2>5. Noted'
        <3> SUFFICES ASSUME NEW q \in Requests, Leads(q)'
                     PROVE  leader'[server'[q]][key'[q]] = q
            BY DEF Noted
        <3>1. CASE q = r
            BY <3>1, <1>3, <2>1 DEF IInv, Shape
        <3>2. CASE q # r
            <4>1. Leads(q) /\ server[q] \in Servers /\ key[q] \in Keys
                BY <3>2, <2>3, LeadsRuns DEF Leads, IInv, OnTime
            <4>2. leader[server[q]][key[q]] = q
                BY <4>1 DEF IInv, Noted
            <4>3. ~(server[q] = s /\ key[q] = k)
                BY <4>2, <1>5
            <4> QED
                BY <3>2, <4>1, <4>2, <4>3, <1>3, <2>1 DEF IInv, Shape
        <3> QED
            BY <3>1, <3>2
    <2>6. Carried'
        BY <1>1, <1>3, <2>3 DEF IInv, Carried, Good, LongestTtl
    <2> QED
        BY <1>2, <2>2, <2>4, <2>5, <2>6 DEF IInv
<1>6. CASE /\ pc' = [pc EXCEPT ![r] = "wait"]
           /\ begun' = [begun EXCEPT ![r] = now]
           /\ val' = [val EXCEPT ![r] = None]
           /\ UNCHANGED leader
    <2>1. Shape'
        BY <1>1, <1>6 DEF IInv, Shape, Steps
    <2>2. /\ pc'[r] = "wait" /\ begun'[r] = now
          /\ \A q \in Requests \ {r} :
                pc'[q] = pc[q] /\ val'[q] = val[q] /\ begun'[q] = begun[q]
        BY <1>6 DEF IInv, Shape
    <2>3. OnTime'
        BY <1>1, <1>3, <2>2, TtlTypes DEF IInv, Shape, OnTime, Running
    <2>4. Noted'
        BY <1>3, <1>6, <2>2 DEF IInv, Noted, Leads
    <2>5. Carried'
        BY <1>1, <1>3, <2>2 DEF IInv, Carried, Good, LongestTtl
    <2> QED
        BY <1>2, <2>1, <2>3, <2>4, <2>5 DEF IInv
<1> QED
    BY <1>4, <1>5, <1>6 DEF Ask

\* Steps of a leader within its flight.
LEMMA GetIInv == ASSUME IInv, NEW r \in Requests, Get(r) PROVE IInv'
<1> USE NoneApart
<1>1. /\ pc[r] = "get" /\ Leads(r)
      /\ UNCHANGED <<now, l1, l2, leader, server, key, begun, ttl>>
    BY DEF Get, Leads
<1>2. server[r] \in Servers /\ key[r] \in Keys /\ begun[r] <= now
    BY <1>1, LeadsRuns DEF IInv, OnTime
<1>3. HeldL1' /\ HeldL2'
    BY <1>1, HeldStays
<1>4. CASE /\ l2[key[r]] # None
           /\ pc' = [pc EXCEPT ![r] = "hit"]
           /\ val' = [val EXCEPT ![r] = l2[key[r]].value]
    <2> DEFINE e == l2[key[r]]
    <2>1. /\ Good(e.value, key[r]) /\ now <= e.until /\ e \in CacheEntries
          /\ e.until <= e.value.at + Patience + LongestTtl(e.value)
        BY <1>2, <1>4 DEF IInv, HeldL2, Shape
    <2>2. LongestTtl(e.value) \in Nat /\ e.value.at \in Int /\ e.until \in Int
        BY <2>1, LongestType DEF Good, Values, CacheEntries
    <2>3. begun[r] <= e.value.at + Patience + LongestTtl(e.value)
        BY <1>2, <2>1, <2>2, TtlTypes DEF IInv, Shape
    <2> HIDE DEF e
    <2>4. Shape'
        BY <1>1, <1>4, <2>1 DEF IInv, Shape, Steps, Good, e
    <2>5. /\ pc'[r] = "hit" /\ val'[r] = e.value
          /\ \A q \in Requests \ {r} : pc'[q] = pc[q] /\ val'[q] = val[q]
        BY <1>4 DEF IInv, Shape, e
    <2>6. OnTime' /\ Noted'
        BY <1>1, <2>5 DEF IInv, OnTime, Noted, Running, Leads
    <2>7. Carried'
        BY <1>1, <2>1, <2>3, <2>5 DEF IInv, Carried, Good, LongestTtl
    <2> QED
        BY <1>3, <2>4, <2>6, <2>7 DEF IInv
<1>5. CASE pc' = [pc EXCEPT ![r] = "compute"] /\ UNCHANGED val
    <2>1. Shape'
        BY <1>1, <1>5 DEF IInv, Shape, Steps
    <2>2. pc'[r] = "compute" /\ \A q \in Requests \ {r} : pc'[q] = pc[q]
        BY <1>5 DEF IInv, Shape
    <2>3. OnTime' /\ Noted'
        BY <1>1, <2>2 DEF IInv, OnTime, Noted, Running, Leads
    <2>4. Carried'
        BY <1>1, <1>5, <2>2 DEF IInv, Carried, Good, LongestTtl
    <2> QED
        BY <1>3, <2>1, <2>3, <2>4 DEF IInv
<1> QED
    BY <1>4, <1>5 DEF Get

LEMMA HitIInv == ASSUME IInv, NEW r \in Requests, Hit(r) PROVE IInv'
<1>1. /\ Leads(r) /\ Settle(r, val[r])
      /\ UNCHANGED <<now, l2, server, key>>
    BY DEF Hit, Leads
<1>2. /\ Good(val[r], key[r])
      /\ begun[r] <= val[r].at + Patience + LongestTtl(val[r])
      /\ begun[r] \in Nat /\ now \in Nat /\ now <= begun[r] + Patience
    BY <1>1, LeadsRuns DEF Hit, IInv, Carried, OnTime, Shape
<1>3. val[r] \in Values /\ val[r].at \in Int /\ LongestTtl(val[r]) \in Nat
    BY <1>2, LongestType DEF Good, Values
<1>4. now <= val[r].at + 2 * Patience + LongestTtl(val[r])
    BY <1>2, <1>3, TtlTypes
<1>5. l1' \in [Servers -> [Keys -> CacheEntries \cup {None}]] /\ HeldL1'
    <2>1. CASE HasL1(key[r]) /\ Remember(r, val[r])
        BY <2>1, <1>1, <1>2, <1>4, RememberKeepsHeld
    <2>2. CASE UNCHANGED l1
        BY <2>2, <1>1, HeldStays DEF IInv, Shape
    <2> QED
        BY <2>1, <2>2 DEF Hit
<1>6. HeldL2'
    BY <1>1 DEF IInv, HeldL2, Good, LongestTtl
<1> HIDE DEF IInv
<1>7. /\ leader' \in [Servers -> [Keys -> Requests \cup {None}]]
      /\ pc' \in [Requests -> Steps]
      /\ begun' \in [Requests -> Nat]
      /\ ttl' \in [Requests -> Nat]
      /\ val' \in [Requests -> Values \cup {None, Failed}]
      /\ OnTime' /\ Noted' /\ Carried'
    BY <1>1, <1>3, SettleKeepsIInv
<1> QED
    BY <1>1, <1>5, <1>6, <1>7 DEF IInv, Shape

LEMMA ComputeIInv == ASSUME IInv, NEW r \in Requests, Compute(r) PROVE IInv'
<1> USE NoneApart
<1>1. /\ pc[r] = "compute" /\ Leads(r)
      /\ pc' = [pc EXCEPT ![r] = "return"]
      /\ UNCHANGED <<now, l1, l2, leader, server, key, begun, ttl>>
    BY DEF Compute, Leads
<1>2. server[r] \in Servers /\ key[r] \in Keys /\ begun[r] <= now /\ now \in Nat
    BY <1>1, LeadsRuns DEF IInv, OnTime, Shape
<1>3. PICK what \in {"data", "standin"} :
        /\ what = "standin" => key[r] \in Tolerant
        /\ val' = [val EXCEPT ![r] = Read(key[r], what)]
    BY DEF Compute
<1>4. HeldL1' /\ HeldL2'
    BY <1>1, HeldStays
<1> DEFINE v == [key |-> key[r], at |-> now, what |-> what]
<1>5. v \in Values /\ Good(v, key[r]) /\ begun[r] <= v.at
    BY <1>2, <1>3 DEF Good, Values
<1>6. val' = [val EXCEPT ![r] = v]
    BY <1>3 DEF Read
<1> HIDE DEF v
<1>7. Shape'
    BY <1>1, <1>5, <1>6 DEF IInv, Shape, Steps
<1>8. /\ pc'[r] = "return" /\ val'[r] = v
      /\ \A q \in Requests \ {r} : pc'[q] = pc[q] /\ val'[q] = val[q]
    BY <1>1, <1>6 DEF IInv, Shape
<1>9. OnTime' /\ Noted'
    BY <1>1, <1>8 DEF IInv, OnTime, Noted, Running, Leads
<1>10. Carried'
    BY <1>1, <1>5, <1>8 DEF IInv, Carried, Good, LongestTtl
<1> QED
    BY <1>4, <1>7, <1>9, <1>10 DEF IInv

LEMMA ThrowIInv == ASSUME IInv, NEW r \in Requests, Throw(r) PROVE IInv'
<1>1. Leads(r) /\ Settle(r, Failed) /\ UNCHANGED <<now, l1, l2, server, key>>
    BY DEF Throw, Leads
<1>2. HeldL1' /\ HeldL2'
    BY <1>1, HeldStays
<1> HIDE DEF IInv
<1>3. /\ leader' \in [Servers -> [Keys -> Requests \cup {None}]]
      /\ pc' \in [Requests -> Steps]
      /\ begun' \in [Requests -> Nat]
      /\ ttl' \in [Requests -> Nat]
      /\ val' \in [Requests -> Values \cup {None, Failed}]
      /\ OnTime' /\ Noted' /\ Carried'
    BY <1>1, SettleKeepsIInv
<1> QED
    BY <1>1, <1>2, <1>3 DEF IInv, Shape

\* The list of no names is as good as one that was read.
LEMMA NoWebsitesIInv == ASSUME IInv, NEW r \in Requests, NoWebsites(r) PROVE IInv'
<1> DEFINE v == Read(key[r], "data")
<1>1. /\ Leads(r) /\ Settle(r, v) /\ Remember(r, v) /\ Kind[key[r]] = "names"
      /\ UNCHANGED <<now, l2, server, key>>
    BY DEF NoWebsites, Leads
<1>2. key[r] \in Keys /\ now \in Nat
    BY <1>1, LeadsRuns DEF IInv, OnTime, Shape
<1>3. v \in Values /\ Good(v, key[r]) /\ v.at = now
    BY <1>2 DEF Good, Values, Read
<1>4. LongestTtl(v) \in Nat
    BY <1>3, LongestType
<1> HIDE DEF v
<1>5. now <= v.at + 2 * Patience + LongestTtl(v) /\ HasL1(key[r])
    BY <1>1, <1>2, <1>3, <1>4, TtlTypes DEF HasL1
<1>6. l1' \in [Servers -> [Keys -> CacheEntries \cup {None}]] /\ HeldL1'
    BY <1>1, <1>3, <1>5, RememberKeepsHeld
<1>7. HeldL2'
    BY <1>1 DEF IInv, HeldL2, Good, LongestTtl
<1> HIDE DEF IInv
<1>8. /\ leader' \in [Servers -> [Keys -> Requests \cup {None}]]
      /\ pc' \in [Requests -> Steps]
      /\ begun' \in [Requests -> Nat]
      /\ ttl' \in [Requests -> Nat]
      /\ val' \in [Requests -> Values \cup {None, Failed}]
      /\ OnTime' /\ Noted' /\ Carried'
    BY <1>1, <1>3, SettleKeepsIInv
<1> QED
    BY <1>1, <1>6, <1>7, <1>8 DEF IInv, Shape

\* What a flight that has read the source knows of its value.
LEMMA ValueInHand ==
    ASSUME IInv, NEW r \in Requests, pc[r] \in {"return", "set"}
    PROVE  /\ Leads(r) /\ server[r] \in Servers /\ key[r] \in Keys
           /\ Good(val[r], key[r]) /\ val[r] \in Values
           /\ val[r].at \in Int /\ now \in Nat /\ LongestTtl(val[r]) \in Nat
           /\ now <= val[r].at + Patience
           /\ now <= val[r].at + 2 * Patience + LongestTtl(val[r])
<1>1. Leads(r) /\ Running(r)
    BY DEF Leads, Running
<1>2. /\ server[r] \in Servers /\ key[r] \in Keys /\ now <= begun[r] + Patience
      /\ Good(val[r], key[r]) /\ begun[r] <= val[r].at
      /\ begun[r] \in Nat /\ now \in Nat
    BY <1>1 DEF IInv, OnTime, Carried, Shape
<1>3. val[r] \in Values /\ val[r].at \in Int /\ LongestTtl(val[r]) \in Nat
    BY <1>2, LongestType DEF Good, Values
<1> QED
    BY <1>1, <1>2, <1>3, TtlTypes

LEMMA ReturnIInv == ASSUME IInv, NEW r \in Requests, Return(r) PROVE IInv'
<1> USE NoneApart
<1>1. /\ pc[r] = "return"
      /\ ttl' = [ttl EXCEPT ![r] = RedisTtl(key[r])]
      /\ pc' = [pc EXCEPT ![r] = "set"]
      /\ UNCHANGED <<now, l2, leader, server, key, begun, val>>
    BY DEF Return
<1>2. /\ Leads(r) /\ key[r] \in Keys
      /\ Good(val[r], key[r]) /\ val[r] \in Values /\ now \in Nat
      /\ now <= val[r].at + Patience
      /\ now <= val[r].at + 2 * Patience + LongestTtl(val[r])
    BY <1>1, ValueInHand
<1>3. RedisTtl(key[r]) \in Nat /\ RedisTtl(key[r]) <= LongestTtl(val[r])
    <2>1. val[r].key = key[r]
        BY <1>2 DEF Good
    <2> QED
        BY <1>2, <2>1, TtlBound
<1>4. l1' \in [Servers -> [Keys -> CacheEntries \cup {None}]] /\ HeldL1'
    <2>1. CASE HasL1(key[r]) /\ Remember(r, val[r])
        BY <2>1, <1>1, <1>2, RememberKeepsHeld
    <2>2. CASE UNCHANGED l1
        BY <2>2, <1>1, HeldStays DEF IInv, Shape
    <2> QED
        BY <2>1, <2>2 DEF Return
<1>5. HeldL2'
    BY <1>1 DEF IInv, HeldL2, Good, LongestTtl
<1>6. Shape'
    BY <1>1, <1>3, <1>4 DEF IInv, Shape, Steps
<1>7. /\ pc'[r] = "set" /\ ttl'[r] = RedisTtl(key[r])
      /\ \A q \in Requests \ {r} : pc'[q] = pc[q] /\ ttl'[q] = ttl[q]
    BY <1>1 DEF IInv, Shape
<1>8. OnTime' /\ Noted'
    BY <1>1, <1>7 DEF IInv, OnTime, Noted, Running, Leads
<1>9. Carried'
    BY <1>1, <1>3, <1>7 DEF IInv, Carried, Good, LongestTtl
<1> QED
    BY <1>4, <1>5, <1>6, <1>8, <1>9 DEF IInv

LEMMA SetIInv == ASSUME IInv, NEW r \in Requests, Set(r) PROVE IInv'
<1> USE NoneApart
<1>1. pc[r] = "set" /\ Settle(r, val[r]) /\ UNCHANGED <<now, server, key>>
    BY DEF Set
<1>2. /\ Leads(r) /\ key[r] \in Keys
      /\ Good(val[r], key[r]) /\ val[r] \in Values
      /\ val[r].at \in Int /\ now \in Nat /\ LongestTtl(val[r]) \in Nat
      /\ now <= val[r].at + Patience
      /\ now <= val[r].at + 2 * Patience + LongestTtl(val[r])
    BY <1>1, ValueInHand
<1>3. l1' \in [Servers -> [Keys -> CacheEntries \cup {None}]] /\ HeldL1'
    <2>1. CASE Kind[key[r]] = "names" /\ Remember(r, val[r])
        BY <2>1, <1>1, <1>2, RememberKeepsHeld DEF HasL1
    <2>2. CASE UNCHANGED l1
        BY <2>2, <1>1 DEF IInv, Shape, HeldL1, Good, MaxAge, LongestTtl, HasL1, L1Life
    <2> QED
        BY <2>1, <2>2 DEF Set
<1>4. l2' \in [Keys -> CacheEntries \cup {None}] /\ HeldL2'
    <2>1. CASE l2' = [l2 EXCEPT ![key[r]] = Entry(val[r], ttl[r])]
        <3> DEFINE e == Entry(val[r], ttl[r])
        <3>1. ttl[r] \in Nat /\ ttl[r] <= LongestTtl(val[r])
            BY <1>1 DEF IInv, Shape, Carried
        <3>2. e \in CacheEntries /\ e.value = val[r] /\ e.until = now + ttl[r]
            BY <1>2, <3>1 DEF Entry, CacheEntries
        <3>3. now <= e.until /\ e.until <= e.value.at + Patience + LongestTtl(e.value)
            BY <1>2, <3>1, <3>2, TtlTypes
        <3> HIDE DEF e
        <3>4. l2' \in [Keys -> CacheEntries \cup {None}]
            BY <2>1, <3>2 DEF IInv, Shape, e
        <3>5. /\ l2'[key[r]] = e
              /\ \A k \in Keys \ {key[r]} : l2'[k] = l2[k]
            BY <2>1, <1>2 DEF IInv, Shape, e
        <3>6. HeldL2'
            BY <1>1, <1>2, <3>2, <3>3, <3>5 DEF IInv, HeldL2, Good, LongestTtl
        <3> QED
            BY <3>4, <3>6
    <2>2. CASE UNCHANGED l2
        BY <2>2, <1>1 DEF IInv, Shape, HeldL2, Good, LongestTtl
    <2> QED
        BY <2>1, <2>2 DEF Set
<1> HIDE DEF IInv
<1>5. /\ leader' \in [Servers -> [Keys -> Requests \cup {None}]]
      /\ pc' \in [Requests -> Steps]
      /\ begun' \in [Requests -> Nat]
      /\ ttl' \in [Requests -> Nat]
      /\ val' \in [Requests -> Values \cup {None, Failed}]
      /\ OnTime' /\ Noted' /\ Carried'
    BY <1>1, <1>2, SettleKeepsIInv
<1> QED
    BY <1>1, <1>3, <1>4, <1>5 DEF IInv, Shape

\* CacheEntries that go leave the rest as good as it was.
LEMMA DropIInv ==
    ASSUME IInv, UNCHANGED <<now, leader, pc, server, key, begun, ttl, val>>,
           l1' \in [Servers -> [Keys -> CacheEntries \cup {None}]],
           l2' \in [Keys -> CacheEntries \cup {None}],
           \A s \in Servers, k \in Keys : l1'[s][k] \in {None, l1[s][k]},
           \A k \in Keys : l2'[k] \in {None, l2[k]}
    PROVE  IInv'
<1>1. Shape'
    BY DEF IInv, Shape
<1>2. OnTime' /\ Noted' /\ Carried'
    BY DEF IInv, OnTime, Noted, Carried, Running, Leads, Good, LongestTtl
<1>3. HeldL1'
    BY DEF IInv, HeldL1, Good, MaxAge, LongestTtl, HasL1, L1Life
<1>4. HeldL2'
    BY DEF IInv, HeldL2, Good, LongestTtl
<1> QED
    BY <1>1, <1>2, <1>3, <1>4 DEF IInv

LEMMA EvictIInv ==
    ASSUME IInv, NEW s \in Servers, NEW k \in Keys, Evict(s, k) PROVE IInv'
<1>1. l1' = [l1 EXCEPT ![s][k] = None]
      /\ UNCHANGED <<now, l2, leader, pc, server, key, begun, ttl, val>>
    BY DEF Evict
<1>2. l1' \in [Servers -> [Keys -> CacheEntries \cup {None}]]
      /\ \A t \in Servers, m \in Keys : l1'[t][m] \in {None, l1[t][m]}
    BY <1>1 DEF IInv, Shape
<1> QED
    BY <1>1, <1>2, DropIInv DEF IInv, Shape

LEMMA EvictRedisIInv == ASSUME IInv, NEW k \in Keys, EvictRedis(k) PROVE IInv'
<1>1. l2' = [l2 EXCEPT ![k] = None]
      /\ UNCHANGED <<now, l1, leader, pc, server, key, begun, ttl, val>>
    BY DEF EvictRedis
<1>2. l2' \in [Keys -> CacheEntries \cup {None}]
      /\ \A m \in Keys : l2'[m] \in {None, l2[m]}
    BY <1>1 DEF IInv, Shape
<1> QED
    BY <1>1, <1>2, DropIInv DEF IInv, Shape

LEMMA RestartIInv == ASSUME IInv, NEW s \in Servers, Restart(s) PROVE IInv'
<1> USE NoneApart
<1> DEFINE lost == {r \in Requests : server[r] = s /\ Running(r)}
<1>1. /\ l1' = [l1 EXCEPT ![s] = [k \in Keys |-> None]]
      /\ leader' = [leader EXCEPT ![s] = [k \in Keys |-> None]]
      /\ pc' = [r \in Requests |-> IF r \in lost THEN "done" ELSE pc[r]]
      /\ val' = [r \in Requests |-> IF r \in lost THEN Failed ELSE val[r]]
      /\ begun' = [r \in Requests |-> IF r \in lost THEN 0 ELSE begun[r]]
      /\ ttl' = [r \in Requests |-> IF r \in lost THEN 0 ELSE ttl[r]]
      /\ UNCHANGED <<now, l2, server, key>>
    BY DEF Restart
<1>2. \A r \in Requests : Running(r) /\ server[r] = s => r \in lost
    OBVIOUS
<1> HIDE DEF lost
<1>3. Shape'
    BY <1>1 DEF IInv, Shape, Steps
<1>4. \A r \in Requests :
        IF r \in lost THEN pc'[r] = "done" /\ val'[r] = Failed
        ELSE /\ pc'[r] = pc[r] /\ val'[r] = val[r]
             /\ begun'[r] = begun[r] /\ ttl'[r] = ttl[r]
    BY <1>1 DEF IInv, Shape
<1>5. OnTime'
    BY <1>1, <1>4 DEF IInv, OnTime, Running
<1>6. Noted'
    <2> SUFFICES ASSUME NEW r \in Requests, Leads(r)'
                 PROVE  leader'[server[r]][key[r]] = r
        BY <1>1 DEF Noted
    <2>1. r \notin lost /\ Leads(r)
        BY <1>4 DEF Leads
    <2>2. server[r] # s /\ server[r] \in Servers /\ leader[server[r]][key[r]] = r
        BY <2>1, <1>2, LeadsRuns DEF IInv, OnTime, Noted
    <2> QED
        BY <2>2, <1>1 DEF IInv, Shape
<1>7. Carried'
    BY <1>1, <1>4 DEF IInv, Carried, Good, LongestTtl
<1>8. HeldL1'
    <2>1. \A t \in Servers, k \in Keys : l1'[t][k] \in {None, l1[t][k]}
        BY <1>1 DEF IInv, Shape
    <2> QED
        BY <1>1, <2>1 DEF IInv, HeldL1, Good, MaxAge, LongestTtl, HasL1, L1Life
<1>9. HeldL2'
    BY <1>1 DEF IInv, HeldL2, Good, LongestTtl
<1> QED
    BY <1>3, <1>5, <1>6, <1>7, <1>8, <1>9 DEF IInv

\* Time does not pass a flight by, and takes the entries that expire along.
LEMMA TickIInv == ASSUME IInv, Tick PROVE IInv'
<1> USE NoneApart
<1>1. /\ \A r \in Requests : Running(r) => now < begun[r] + Patience
      /\ now' = now + 1
      /\ l1' = [s \in Servers |-> [k \in Keys |-> Live(l1[s][k])]]
      /\ l2' = [k \in Keys |-> Live(l2[k])]
      /\ UNCHANGED <<leader, pc, server, key, begun, ttl, val>>
    BY DEF Tick
<1>2. now \in Nat /\ now' \in Nat
    BY <1>1 DEF IInv, Shape
<1>3. \A e \in CacheEntries \cup {None} :
        /\ Live(e) \in {None, e}
        /\ Live(e) # None => e.until > now + 1 /\ e.until \in Int
    BY DEF Live, CacheEntries
<1>4. /\ l1' \in [Servers -> [Keys -> CacheEntries \cup {None}]]
      /\ l2' \in [Keys -> CacheEntries \cup {None}]
    <2>1. \A s \in Servers, k \in Keys : Live(l1[s][k]) \in CacheEntries \cup {None}
        BY <1>3 DEF IInv, Shape
    <2>2. \A k \in Keys : Live(l2[k]) \in CacheEntries \cup {None}
        BY <1>3 DEF IInv, Shape
    <2> QED
        BY <1>1, <2>1, <2>2
<1>5. Shape'
    BY <1>1, <1>2, <1>4 DEF IInv, Shape
<1>6. \A v, k : Good(v, k) => Good(v, k)'
    BY <1>1, <1>2 DEF Good, Values
<1>7. OnTime' /\ Noted'
    BY <1>1, <1>2, TtlTypes DEF IInv, Shape, OnTime, Noted, Running, Leads
<1>8. Carried'
    BY <1>1, <1>6 DEF IInv, Carried, LongestTtl
<1>9. HeldL1'
    <2>1. \A s \in Servers, k \in Keys : l1'[s][k] # None =>
            l1'[s][k] = l1[s][k] /\ now' <= l1'[s][k].until
        BY <1>1, <1>2, <1>3 DEF IInv, Shape
    <2> QED
        BY <1>6, <2>1 DEF IInv, HeldL1, MaxAge, LongestTtl, HasL1, L1Life
<1>10. HeldL2'
    <2>1. \A k \in Keys : l2'[k] # None => l2'[k] = l2[k] /\ now' <= l2'[k].until
        BY <1>1, <1>2, <1>3 DEF IInv, Shape
    <2> QED
        BY <1>6, <2>1 DEF IInv, HeldL2, LongestTtl
<1> QED
    BY <1>5, <1>7, <1>8, <1>9, <1>10 DEF IInv

LEMMA NextIInv == IInv /\ [Next]_vars => IInv'
<1> SUFFICES ASSUME IInv, [Next]_vars PROVE IInv'
    OBVIOUS
<1>1. CASE UNCHANGED vars
    BY <1>1, DropIInv DEF vars, IInv, Shape
<1>2. ASSUME NEW r \in Requests, Advance(r) PROVE IInv'
    BY <1>2, GetIInv, HitIInv, ComputeIInv, ThrowIInv, NoWebsitesIInv, ReturnIInv,
       SetIInv DEF Advance
<1>3. ASSUME NEW r \in Requests, NEW s \in Servers, NEW k \in Keys, Ask(r, s, k)
      PROVE  IInv'
    BY <1>3, AskIInv
<1>4. ASSUME NEW s \in Servers, Restart(s) PROVE IInv'
    BY <1>4, RestartIInv
<1>5. ASSUME NEW s \in Servers, NEW k \in Keys, Evict(s, k) PROVE IInv'
    BY <1>5, EvictIInv
<1>6. ASSUME NEW k \in Keys, EvictRedis(k) PROVE IInv'
    BY <1>6, EvictRedisIInv
<1>7. CASE Tick
    BY <1>7, TickIInv
<1> QED
    BY <1>1, <1>2, <1>3, <1>4, <1>5, <1>6, <1>7 DEF Next

\* The inductive invariant holds in every behaviour.
THEOREM IInvHolds == Spec => []IInv
BY InitIInv, NextIInv, PTL DEF Spec

-----------------------------------------------------------------------------
(***************************************************************************)
(* A server never has two flights for one key, so that identical requests  *)
(* cost the source one call, for any number of servers and requests.       *)
(***************************************************************************)
THEOREM SingleFlightHolds == Spec => []SingleFlight
<1>1. IInv => SingleFlight
    BY DEF IInv, Noted, SingleFlight
<1> QED
    BY <1>1, IInvHolds, PTL

(***************************************************************************)
(* No error is ever remembered, in an LRU or in Redis: what they hold for  *)
(* a key is what its factory returned, and something in the place of data  *)
(* only where the factory puts it there.                                   *)
(***************************************************************************)
THEOREM NoErrorIsKept == Spec => []NoErrorKept
<1>1. IInv => NoErrorKept
    <2> SUFFICES ASSUME IInv, NEW k \in Keys, NEW e \in Held(k) \ {None}
                 PROVE  /\ e.value # Failed /\ e.value.key = k
                        /\ e.value.what = "data" \/ k \in Tolerant
        BY DEF NoErrorKept
    <2>1. Good(e.value, k)
        BY DEF Held, IInv, HeldL1, HeldL2
    <2> QED
        BY <2>1, NoneApart DEF Good
<1> QED
    BY <1>1, IInvHolds, PTL

-----------------------------------------------------------------------------
(* The caches implement FreshAnswers: what the abstract state is, and that  *)
(* each step is one of its steps or none.                                   *)

AskedOf == [r \in Requests |-> IF pc[r] = "idle" THEN None ELSE key[r]]
AnswerOf == [r \in Requests |-> IF pc[r] = "done" THEN val[r] ELSE None]

\* A value that may be handed out for k.
Due(v, k) == v = Failed \/ (Good(v, k) /\ now <= v.at + MaxAge(v))

LEMMA DueIsFresh ==
    ASSUME NEW v, NEW k, Due(v, k), now \in Nat
    PROVE  v # None /\ (v = Failed \/ (v # Failed /\ v.key = k /\ Fresh!Fresh(v)))
<1>1. CASE v = Failed
    BY <1>1, NoneApart
<1>2. CASE Good(v, k) /\ now <= v.at + MaxAge(v)
    <2>1. v \in Values /\ v.key = k /\ v.at <= now /\ v.at \in Int
        BY <1>2 DEF Good, Values
    <2>2. MaxAge(v) \in Nat
        BY <2>1, LongestType
    <2>3. now - v.at <= MaxAge(v)
        BY <1>2, <2>1, <2>2
    <2> QED
        BY <2>1, <2>3, NoneApart DEF Fresh!Fresh
<1> QED
    BY <1>1, <1>2 DEF Due

\* The end of a flight answers all that joined it.
LEMMA SettleAnswers ==
    ASSUME IInv, NEW r \in Requests, Leads(r), NEW v, Due(v, key[r]),
           Settle(r, v), UNCHANGED <<now, server, key>>
    PROVE  Fresh!FreshNext
<1> USE NoneApart
<1>1. key[r] \in Keys /\ now \in Nat
    BY LeadsRuns DEF IInv, OnTime, Shape
<1>2. /\ pc' = [q \in Requests |-> IF q \in Joined(r) THEN "done" ELSE pc[q]]
      /\ val' = [q \in Requests |-> IF q \in Joined(r) THEN v ELSE val[q]]
    BY DEF Settle, SettleOnly
<1>3. /\ r \in Joined(r) /\ Joined(r) \subseteq Requests
      /\ \A q \in Joined(r) : Running(q) /\ pc[q] # "idle" /\ pc[q] # "done" /\ key[q] = key[r]
    BY LeadsRuns DEF Joined, Running
<1>4. v # None /\ (v = Failed \/ (v # Failed /\ v.key = key[r] /\ Fresh!Fresh(v)))
    BY <1>1, DueIsFresh
<1>5. AskedOf' = AskedOf
    BY <1>2, <1>3 DEF AskedOf
<1>6. AnswerOf' = [q \in Requests |-> IF q \in Joined(r) THEN AnswerOf'[r] ELSE AnswerOf[q]]
    BY <1>2, <1>3 DEF AnswerOf
<1>7. AnswerOf'[r] = v
    BY <1>2, <1>3 DEF AnswerOf
<1>8. \A q \in Joined(r) : AskedOf[q] = key[r] /\ AnswerOf[q] = None
    BY <1>3 DEF AskedOf, AnswerOf
<1>9. PICK R \in SUBSET Requests, k \in Keys : R = Joined(r) /\ k = key[r]
    BY <1>1, <1>3
<1>10. R # {} /\ Fresh!Answer(R, k)
    BY <1>3, <1>4, <1>5, <1>6, <1>7, <1>8, <1>9 DEF Fresh!Answer, AskedOf, AnswerOf
<1> QED
    BY <1>10 DEF Fresh!FreshNext

\* A step of requests that run and go on running shows nowhere.
LEMMA InnerStutters ==
    ASSUME IInv, NEW r \in Requests, Running(r), UNCHANGED <<now, key>>,
           NEW step \in Steps \ {"idle", "done"}, pc' = [pc EXCEPT ![r] = step],
           \A q \in Requests \ {r} : val'[q] = val[q]
    PROVE  UNCHANGED Fresh!freshVars
<1>1. /\ pc'[r] \notin {"idle", "done"} /\ pc[r] \notin {"idle", "done"}
      /\ \A q \in Requests \ {r} : pc'[q] = pc[q] /\ val'[q] = val[q]
    BY DEF IInv, Shape, Running
<1>2. AskedOf' = AskedOf
    BY <1>1 DEF AskedOf
<1>3. AnswerOf' = AnswerOf
    BY <1>1 DEF AnswerOf
<1> QED
    BY <1>2, <1>3 DEF Fresh!freshVars, AskedOf, AnswerOf

LEMMA AskRefines ==
    ASSUME IInv, NEW r \in Requests, NEW s \in Servers, NEW k \in Keys, Ask(r, s, k)
    PROVE  Fresh!FreshNext
<1> USE NoneApart
<1>1. /\ ~Running(r) /\ key' = [key EXCEPT ![r] = k] /\ UNCHANGED now
    BY DEF Ask, Send
<1>2. AskedOf[r] = None \/ AnswerOf[r] # None
    BY <1>1 DEF AskedOf, AnswerOf, Running, IInv, Carried
<1>3. PICK step, v :
        /\ step \in {"done", "get", "wait"}
        /\ pc' = [pc EXCEPT ![r] = step]
        /\ val' = [val EXCEPT ![r] = v]
        /\ step = "done" => l1[s][k] # None /\ v = l1[s][k].value
    BY DEF Ask, AnswerNow, Lead
<1>4. /\ pc'[r] = step /\ val'[r] = v /\ key'[r] = k
      /\ \A q \in Requests \ {r} : pc'[q] = pc[q] /\ val'[q] = val[q] /\ key'[q] = key[q]
    BY <1>1, <1>3 DEF IInv, Shape
<1>5. AskedOf' = [AskedOf EXCEPT ![r] = k]
    BY <1>3, <1>4 DEF AskedOf
<1>6. AnswerOf' = [AnswerOf EXCEPT ![r] = IF step = "done" THEN v ELSE None]
    BY <1>4 DEF AnswerOf
<1>7. AnswerOf'[r] = IF step = "done" THEN v ELSE None
    BY <1>6 DEF AnswerOf
<1>8. CASE step = "done"
    <2>1. /\ Good(v, k) /\ now <= l1[s][k].until
          /\ l1[s][k].until <= v.at + MaxAge(v)
          /\ l1[s][k] \in CacheEntries
        BY <1>3, <1>8 DEF IInv, HeldL1, Shape
    <2>2. now \in Nat /\ v.at \in Int /\ MaxAge(v) \in Nat /\ l1[s][k].until \in Int
        BY <2>1, LongestType DEF Good, Values, CacheEntries, IInv, Shape
    <2>3. Due(v, k)
        BY <2>1, <2>2 DEF Due
    <2>4. v \notin {None, Failed} /\ v.key = k /\ Fresh!Fresh(v)
        BY <2>1, <2>2, <2>3, DueIsFresh DEF Good
    <2>5. Fresh!Ask(r, k)
        BY <1>1, <1>2, <1>5, <1>6, <1>7, <1>8, <2>4 DEF Fresh!Ask, AskedOf, AnswerOf
    <2> QED
        BY <2>5 DEF Fresh!FreshNext
<1>9. CASE step # "done"
    <2>1. Fresh!Ask(r, k)
        BY <1>1, <1>2, <1>5, <1>6, <1>9 DEF Fresh!Ask, AskedOf, AnswerOf
    <2> QED
        BY <2>1 DEF Fresh!FreshNext
<1> QED
    BY <1>8, <1>9

LEMMA AdvanceRefines ==
    ASSUME IInv, NEW r \in Requests, Advance(r)
    PROVE  Fresh!FreshNext \/ UNCHANGED Fresh!freshVars
<1> USE NoneApart
<1>1. CASE Get(r)
    <2>1. Running(r) /\ UNCHANGED <<now, key>>
        BY <1>1 DEF Get, Running
    <2>2. PICK step \in {"hit", "compute"} :
            /\ pc' = [pc EXCEPT ![r] = step]
            /\ \A q \in Requests \ {r} : val'[q] = val[q]
        BY <1>1 DEF Get, IInv, Shape
    <2> QED
        BY <2>1, <2>2, InnerStutters DEF Steps
<1>2. CASE Compute(r)
    <2>1. Running(r) /\ UNCHANGED <<now, key>> /\ pc' = [pc EXCEPT ![r] = "return"]
        BY <1>2 DEF Compute, Running
    <2>2. \A q \in Requests \ {r} : val'[q] = val[q]
        BY <1>2 DEF Compute, IInv, Shape
    <2> QED
        BY <2>1, <2>2, InnerStutters DEF Steps
<1>3. CASE Return(r)
    <2>1. /\ Running(r) /\ UNCHANGED <<now, key>> /\ pc' = [pc EXCEPT ![r] = "set"]
          /\ \A q \in Requests \ {r} : val'[q] = val[q]
        BY <1>3 DEF Return, Running
    <2> QED
        BY <2>1, InnerStutters DEF Steps
<1>4. CASE Hit(r)
    <2>1. Leads(r) /\ Settle(r, val[r]) /\ UNCHANGED <<now, server, key>>
        BY <1>4 DEF Hit, Leads
    <2>2. /\ Good(val[r], key[r])
          /\ begun[r] <= val[r].at + Patience + LongestTtl(val[r])
          /\ begun[r] \in Nat /\ now \in Nat /\ now <= begun[r] + Patience
        BY <1>4, <2>1, LeadsRuns DEF Hit, IInv, Carried, OnTime, Shape
    <2>3. /\ val[r].at \in Int /\ LongestTtl(val[r]) \in Nat
          /\ L1Life(val[r].key) \in Nat
        BY <2>2, LongestType DEF Good, Values
    <2>4. now <= val[r].at + MaxAge(val[r])
        BY <2>2, <2>3, TtlTypes DEF MaxAge
    <2> QED
        BY <2>1, <2>2, <2>4, SettleAnswers DEF Due
<1>5. CASE Throw(r)
    <2>1. Leads(r) /\ Settle(r, Failed) /\ UNCHANGED <<now, server, key>>
        BY <1>5 DEF Throw, Leads
    <2> QED
        BY <2>1, SettleAnswers DEF Due
<1>6. CASE NoWebsites(r)
    <2> DEFINE v == Read(key[r], "data")
    <2>1. Leads(r) /\ Settle(r, v) /\ UNCHANGED <<now, server, key>>
        BY <1>6 DEF NoWebsites, Leads
    <2>2. key[r] \in Keys /\ now \in Nat
        BY <2>1, LeadsRuns DEF IInv, OnTime, Shape
    <2>3. v \in Values /\ Good(v, key[r]) /\ v.at = now
        BY <2>2 DEF Good, Values, Read
    <2>4. MaxAge(v) \in Nat
        BY <2>3, LongestType
    <2> HIDE DEF v
    <2>5. Due(v, key[r])
        BY <2>2, <2>3, <2>4 DEF Due
    <2> QED
        BY <2>1, <2>5, SettleAnswers
<1>7. CASE Set(r)
    <2>1. pc[r] = "set" /\ Settle(r, val[r]) /\ UNCHANGED <<now, server, key>>
        BY <1>7 DEF Set
    <2>2. /\ Leads(r) /\ Good(val[r], key[r]) /\ val[r] \in Values
          /\ val[r].at \in Int /\ now \in Nat /\ LongestTtl(val[r]) \in Nat
          /\ now <= val[r].at + Patience
        BY <2>1, ValueInHand
    <2>3. L1Life(val[r].key) \in Nat
        BY <2>2, LongestType
    <2>4. now <= val[r].at + MaxAge(val[r])
        BY <2>2, <2>3, TtlTypes DEF MaxAge
    <2> QED
        BY <2>1, <2>2, <2>4, SettleAnswers DEF Due
<1> QED
    BY <1>1, <1>2, <1>3, <1>4, <1>5, <1>6, <1>7 DEF Advance

LEMMA RestartRefines ==
    ASSUME IInv, NEW s \in Servers, Restart(s)
    PROVE  Fresh!FreshNext \/ UNCHANGED Fresh!freshVars
<1> USE NoneApart
<1> DEFINE lost == {r \in Requests : server[r] = s /\ Running(r)}
<1>1. /\ pc' = [r \in Requests |-> IF r \in lost THEN "done" ELSE pc[r]]
      /\ val' = [r \in Requests |-> IF r \in lost THEN Failed ELSE val[r]]
      /\ UNCHANGED <<now, key>>
    BY DEF Restart
<1>2. lost \subseteq Requests /\ \A r \in lost :
        pc[r] # "idle" /\ pc[r] # "done" /\ key[r] \in Keys
    BY DEF Running, IInv, OnTime
<1> HIDE DEF lost
<1>3. AskedOf' = AskedOf
    BY <1>1, <1>2 DEF AskedOf
<1>4. AnswerOf' = [r \in Requests |-> IF r \in lost THEN Failed ELSE AnswerOf[r]]
    BY <1>1 DEF AnswerOf
<1>5. \A r \in lost : AskedOf[r] # None /\ AnswerOf[r] = None
    BY <1>2 DEF AskedOf, AnswerOf
<1>6. CASE lost = {}
    <2>1. AnswerOf' = AnswerOf
        BY <1>4, <1>6 DEF AnswerOf
    <2> QED
        BY <1>1, <1>3, <2>1 DEF Fresh!freshVars, AskedOf, AnswerOf
<1>7. CASE lost # {}
    <2>1. PICK R \in SUBSET Requests : R = lost
        BY <1>2
    <2>2. R # {} /\ Fresh!Lose(R)
        BY <1>1, <1>3, <1>4, <1>5, <1>7, <2>1 DEF Fresh!Lose, AskedOf, AnswerOf
    <2> QED
        BY <2>2 DEF Fresh!FreshNext
<1> QED
    BY <1>6, <1>7

LEMMA StepRefines ==
    IInv /\ [Next]_vars => [Fresh!FreshNext]_(Fresh!freshVars)
<1> SUFFICES ASSUME IInv, [Next]_vars
             PROVE  Fresh!FreshNext \/ UNCHANGED Fresh!freshVars
    OBVIOUS
<1>1. ASSUME UNCHANGED <<now, pc, key, val>> PROVE UNCHANGED Fresh!freshVars
    BY <1>1 DEF Fresh!freshVars
<1>2. CASE UNCHANGED vars
    BY <1>1, <1>2 DEF vars
<1>3. ASSUME NEW r \in Requests, Advance(r)
      PROVE  Fresh!FreshNext \/ UNCHANGED Fresh!freshVars
    BY <1>3, AdvanceRefines
<1>4. ASSUME NEW r \in Requests, NEW s \in Servers, NEW k \in Keys, Ask(r, s, k)
      PROVE  Fresh!FreshNext
    BY <1>4, AskRefines
<1>5. ASSUME NEW s \in Servers, Restart(s)
      PROVE  Fresh!FreshNext \/ UNCHANGED Fresh!freshVars
    BY <1>5, RestartRefines
<1>6. ASSUME NEW s \in Servers, NEW k \in Keys, Evict(s, k)
      PROVE  UNCHANGED Fresh!freshVars
    BY <1>1, <1>6 DEF Evict
<1>7. ASSUME NEW k \in Keys, EvictRedis(k) PROVE UNCHANGED Fresh!freshVars
    BY <1>1, <1>7 DEF EvictRedis
<1>8. CASE Tick
    <2>1. AskedOf' = AskedOf /\ AnswerOf' = AnswerOf /\ now' = now + 1
        BY <1>8 DEF Tick, AskedOf, AnswerOf
    <2> QED
        BY <2>1 DEF Fresh!FreshNext, Fresh!Pass, AskedOf, AnswerOf
<1> QED
    BY <1>2, <1>3, <1>4, <1>5, <1>6, <1>7, <1>8 DEF Next

LEMMA InitRefines == Init => Fresh!FreshInit
BY DEF Init, Fresh!FreshInit

(***************************************************************************)
(* Whatever servers, flights, restarts, evictions and failures of Redis do *)
(* between them, an answer is of the key that was asked for and no older   *)
(* than MaxAge allows: the caches implement FreshAnswers.                  *)
(***************************************************************************)
THEOREM CachesImplementFreshAnswers == Spec => ImplementsFreshAnswers
BY InitRefines, StepRefines, IInvHolds, PTL DEF Spec, ImplementsFreshAnswers,
   Fresh!FreshSpec

-----------------------------------------------------------------------------
(* Steps and sums. *)

\* A set of numbers has a least one.
LEMMA LeastOne ==
    ASSUME NEW I, I \subseteq Nat, I # {}
    PROVE  \E x \in I : \A y \in I : x <= y
  <1> DEFINE R == OpToRel(<, Nat)
  <1>1. \A x \in Nat, y \in Nat : <<y, x>> \in R <=> y < x
    BY DEF OpToRel
  <1>2. IsWellFoundedOn(R, Nat)
    BY NatLessThanWellFounded
  <1> HIDE DEF R
  <1>3. PICK x \in I : \A y \in I : ~ (<<y, x>> \in R)
    BY <1>2, WFMin
  <1>4. \A y \in I : x \in Nat /\ y \in Nat /\ ~ (y < x)
    BY <1>1, <1>3
  <1> QED
    BY <1>4

\* What holds at first and after each step holds after all of them.
LEMMA StepByStep ==
    ASSUME NEW N \in Nat, NEW I, 0 \in I, \A n \in 1..N : n - 1 \in I => n \in I
    PROVE  \A n \in 0..N : n \in I
  <1> DEFINE Bad == {n \in 0..N : n \notin I}
  <1> SUFFICES ASSUME Bad # {} PROVE FALSE
    OBVIOUS
  <1>1. Bad \subseteq Nat
    OBVIOUS
  <1>2. PICK n \in Bad : \A m \in Bad : n <= m
    <2> HIDE DEF Bad
    <2> QED
      BY <1>1, LeastOne
  <1>3. n \in 1..N /\ n - 1 \in 0..N /\ ~(n <= n - 1)
    BY <1>2
  <1> QED
    BY <1>2, <1>3

\* A finite set is made from the empty one by adding its elements.
LEMMA GrowSet ==
    ASSUME NEW D, IsFiniteSet(D), NEW J, {} \in J,
           \A T \in SUBSET D : \A x \in D \ T : T \in J => T \cup {x} \in J
    PROVE  \A T \in SUBSET D : T \in J
  <1> DEFINE I == {n \in Nat : \A T \in SUBSET D : Cardinality(T) = n => T \in J}
  <1>1. PICK N \in Nat : N = Cardinality(D)
    BY FS_CardinalityType
  <1>2. \A T \in SUBSET D : IsFiniteSet(T) /\ Cardinality(T) \in 0..N
    BY <1>1, FS_Subset, FS_CardinalityType
  <1>3. 0 \in I
    BY <1>2, FS_EmptySet
  <1>4. ASSUME NEW n \in 1..N, n - 1 \in I PROVE n \in I
    <2> SUFFICES ASSUME NEW T \in SUBSET D, Cardinality(T) = n PROVE T \in J
      OBVIOUS
    <2>1. PICK x \in T : TRUE
      BY <1>2, FS_EmptySet
    <2>2. Cardinality(T \ {x}) = n - 1 /\ T \ {x} \in SUBSET D
      BY <1>2, <2>1, FS_RemoveElement
    <2>3. T = (T \ {x}) \cup {x} /\ x \in D \ (T \ {x})
      BY <2>1
    <2>4. T \ {x} \in J
      BY <1>4, <2>2
    <2> HIDE DEF I
    <2> QED
      BY <2>2, <2>3, <2>4
  <1> HIDE DEF I
  <1>5. \A n \in 0..N : n \in I
    BY <1>3, <1>4, StepByStep
  <1> QED
    BY <1>2, <1>5 DEF I

\* The sum of a function over any part of its domain, one element at a time.
SumsUp(f, s) ==
    /\ s \in [SUBSET DOMAIN f -> Nat] /\ s[{}] = 0
    /\ \A T \in SUBSET DOMAIN f : \A x \in T : s[T] = f[x] + s[T \ {x}]

LEMMA SumIsIter ==
    ASSUME NEW f
    PROVE  LET iter[S \in SUBSET DOMAIN f] ==
                   IF S = {} THEN 0 ELSE f[CHOOSE x \in S : TRUE] + iter[S \ {CHOOSE x \in S : TRUE}]
           IN  SumFunction(f) = iter[DOMAIN f]
BY DEF SumFunction, SumFunctionOnSet, FoldFunctionOnSet, MapThenFoldSet

\* Folding over the parts of the domain: there is such a function, and the
\* sum is its last value.
LEMMA IterExists ==
    ASSUME NEW f, IsFiniteSet(DOMAIN f)
    PROVE  \E g : /\ g = [S \in SUBSET DOMAIN f |-> g[S]]
                  /\ g[{}] = 0 /\ g[DOMAIN f] = SumFunction(f)
                  /\ \A S \in SUBSET DOMAIN f : S # {} =>
                        g[S] = f[CHOOSE x \in S : TRUE] + g[S \ {CHOOSE x \in S : TRUE}]
  <1> DEFINE D == DOMAIN f
             c(S) == CHOOSE x \in S : TRUE
             Row(g) == [S \in SUBSET D |-> IF S = {} THEN 0 ELSE f[c(S)] + g[S \ {c(S)}]]
             Upto(n, g) == /\ g = [S \in SUBSET D |-> g[S]]
                           /\ \A S \in SUBSET D : Cardinality(S) <= n => g[S] = Row(g)[S]
             I == {n \in Nat : \E g : Upto(n, g)}
  <1>1. PICK N \in Nat : N = Cardinality(D)
    BY FS_CardinalityType
  <1>2. \A S \in SUBSET D : IsFiniteSet(S) /\ Cardinality(S) \in 0..N
    BY <1>1, FS_Subset, FS_CardinalityType
  <1>3. \A S \in SUBSET D : S # {} =>
            /\ c(S) \in S /\ S \ {c(S)} \in SUBSET D
            /\ Cardinality(S \ {c(S)}) = Cardinality(S) - 1
    <2> TAKE S \in SUBSET D
    <2> HAVE S # {}
    <2>1. c(S) \in S
      OBVIOUS
    <2> HIDE DEF c
    <2> QED
      BY <1>2, <2>1, FS_RemoveElement
  <1>4. 0 \in I
    <2>1. \A S \in SUBSET D : Cardinality(S) <= 0 => S = {}
      BY <1>2, FS_EmptySet
    <2>2. Upto(0, [S \in SUBSET D |-> 0])
      BY <2>1
    <2> QED
      BY <2>2
  <1>5. ASSUME NEW n \in 1..N, n - 1 \in I PROVE n \in I
    <2>1. PICK g : Upto(n - 1, g)
      BY <1>5
    <2> DEFINE h == [S \in SUBSET D |-> IF Cardinality(S) = n THEN Row(g)[S] ELSE g[S]]
    <2>2. h = [S \in SUBSET D |-> h[S]]
      OBVIOUS
    <2>3. ASSUME NEW S \in SUBSET D, Cardinality(S) <= n PROVE h[S] = Row(h)[S]
      <3>1. CASE S = {}
        <4>1. Cardinality(S) = 0
          BY <3>1, FS_EmptySet
        <4>2. Row(h)[S] = 0 /\ Row(g)[S] = 0
          BY <3>1
        <4>3. n # 0 /\ 0 <= n - 1 /\ h[S] = g[S]
          BY <4>1
        <4>4. g[S] = Row(g)[S]
          <5> HIDE DEF Row
          <5> QED
            BY <2>1, <4>1, <4>3
        <4> QED
          BY <4>2, <4>3, <4>4
      <3>2. CASE S # {}
        <4>1. S \ {c(S)} \in SUBSET D /\ Cardinality(S \ {c(S)}) # n
          BY <1>2, <1>3, <2>3, <3>2
        <4>2. h[S \ {c(S)}] = g[S \ {c(S)}]
          BY <4>1
        <4>3. Row(h)[S] = Row(g)[S]
          BY <3>2, <4>2
        <4>4. CASE Cardinality(S) = n
          BY <4>3, <4>4
        <4>5. CASE Cardinality(S) # n
          <5>1. Cardinality(S) <= n - 1
            BY <1>2, <2>3, <4>5
          <5>2. g[S] = Row(g)[S]
            BY <2>1, <5>1
          <5> QED
            BY <4>3, <4>5, <5>2
        <4> QED
          BY <4>4, <4>5
      <3> QED
        BY <3>1, <3>2
    <2> HIDE DEF h, Row
    <2>4. Upto(n, h)
      BY <2>2, <2>3
    <2> HIDE DEF Upto
    <2> QED
      BY <2>4
  <1> HIDE DEF I
  <1>6. N \in I
    BY <1>4, <1>5, StepByStep
  <1>7. PICK g : Upto(N, g)
    BY <1>6 DEF I
  <1>8. g = Row(g)
    <2>1. \A S \in SUBSET D : g[S] = Row(g)[S]
      <3> HIDE DEF Row
      <3> TAKE S \in SUBSET D
      <3>1. Cardinality(S) <= N
        BY <1>2
      <3> QED
        BY <1>7, <3>1
    <2>2. g = [S \in SUBSET D |-> g[S]]
      BY <1>7
    <2> QED
      BY <2>1, <2>2, Zenon
  <1> DEFINE iter == CHOOSE h : h = Row(h)
  <1>9. iter = Row(iter)
    BY <1>8, Zenon
  <1>10. SumFunction(f) = iter[D]
    BY SumIsIter, Zenon
  <1> HIDE DEF iter
  <1>11. iter = [S \in SUBSET D |-> iter[S]]
    BY <1>9, Zenon
  <1>12. iter[{}] = 0 /\ \A S \in SUBSET D : S # {} => iter[S] = f[c(S)] + iter[S \ {c(S)}]
    BY <1>9
  <1> QED
    BY <1>10, <1>11, <1>12

\* The order in which elements are added does not matter.
LEMMA SumIs ==
    ASSUME NEW f, IsFiniteSet(DOMAIN f), \A x \in DOMAIN f : f[x] \in Nat
    PROVE  \E s : SumsUp(f, s) /\ s[DOMAIN f] = SumFunction(f)
  <1> DEFINE D == DOMAIN f
             c(S) == CHOOSE x \in S : TRUE
  <1>1. PICK s : /\ s = [S \in SUBSET D |-> s[S]]
                 /\ s[{}] = 0 /\ s[D] = SumFunction(f)
                 /\ \A S \in SUBSET D : S # {} => s[S] = f[c(S)] + s[S \ {c(S)}]
    BY IterExists, Zenon
  <1>2. \A S \in SUBSET D : S # {} => c(S) \in S
    OBVIOUS
  <1> HIDE DEF c
  <1> DEFINE Right(T) == s[T] \in Nat /\ \A x \in T : s[T] = f[x] + s[T \ {x}]
             I == {n \in Nat : \A T \in SUBSET D : Cardinality(T) <= n => Right(T)}
  <1>3. PICK N \in Nat : N = Cardinality(D)
    BY FS_CardinalityType
  <1>4. \A S \in SUBSET D : IsFiniteSet(S) /\ Cardinality(S) \in 0..N
    BY <1>3, FS_Subset, FS_CardinalityType
  <1>5. 0 \in I
    <2>1. \A S \in SUBSET D : Cardinality(S) <= 0 => S = {}
      BY <1>4, FS_EmptySet
    <2>2. Right({})
      BY <1>1
    <2> HIDE DEF Right
    <2> QED
      BY <2>1, <2>2
  <1>6. ASSUME NEW n \in 1..N, n - 1 \in I PROVE n \in I
    <2> SUFFICES ASSUME NEW T \in SUBSET D, Cardinality(T) <= n PROVE Right(T)
      OBVIOUS
    <2>1. CASE T = {}
      BY <1>1, <2>1
    <2>2. CASE T # {}
      <3> DEFINE y == c(T)
      <3>1. y \in T /\ y \in D /\ f[y] \in Nat
        BY <1>2, <2>2
      <3>2. s[T] = f[y] + s[T \ {y}]
        BY <1>1, <2>2
      <3> HIDE DEF y
      <3>3. \A x \in T : Right(T \ {x})
        <4> TAKE x \in T
        <4>1. T \ {x} \in SUBSET D /\ Cardinality(T \ {x}) <= n - 1
          BY <1>4, FS_RemoveElement
        <4> HIDE DEF Right
        <4> QED
          BY <1>6, <4>1
      <3>4. s[T] \in Nat
        BY <3>1, <3>2, <3>3
      <3>5. ASSUME NEW x \in T PROVE s[T] = f[x] + s[T \ {x}]
        <4>1. CASE x = y
          BY <3>2, <4>1
        <4>2. CASE x # y
          <5>1. s[T \ {y}] = f[x] + s[(T \ {y}) \ {x}]
            BY <3>1, <3>3, <4>2
          <5>2. s[T \ {x}] = f[y] + s[(T \ {x}) \ {y}]
            BY <3>1, <3>3, <4>2
          <5>3. (T \ {y}) \ {x} = (T \ {x}) \ {y}
            OBVIOUS
          <5>4. Right((T \ {x}) \ {y})
            <6>1. (T \ {x}) \ {y} \in SUBSET D /\ Cardinality((T \ {x}) \ {y}) <= n - 1
              <7>1. y \in T \ {x} /\ T \ {x} \in SUBSET D
                BY <3>1, <4>2
              <7>2. Cardinality(T \ {x}) = Cardinality(T) - 1
                BY <1>4, FS_RemoveElement
              <7>3. Cardinality((T \ {x}) \ {y}) = Cardinality(T \ {x}) - 1
                BY <1>4, <7>1, FS_RemoveElement
              <7> QED
                BY <1>4, <7>1, <7>2, <7>3
            <6> HIDE DEF Right
            <6> QED
              BY <1>6, <6>1
          <5>5. f[x] \in Nat
            OBVIOUS
          <5>6. s[(T \ {x}) \ {y}] \in Nat
            BY <5>4
          <5>7. f[y] + (f[x] + s[(T \ {x}) \ {y}]) = f[x] + (f[y] + s[(T \ {x}) \ {y}])
            BY <3>1, <5>5, <5>6
          <5> HIDE DEF Right
          <5> QED
            BY <3>2, <5>1, <5>2, <5>3, <5>7, Zenon
        <4> QED
          BY <4>1, <4>2
      <3> QED
        BY <3>4, <3>5
    <2> QED
      BY <2>1, <2>2
  <1> HIDE DEF I
  <1>7. N \in I
    BY <1>5, <1>6, StepByStep
  <1>8. \A T \in SUBSET D : Right(T)
    BY <1>4, <1>7 DEF I
  <1> QED
    BY <1>1, <1>8 DEF SumsUp

LEMMA SumOf ==
    ASSUME NEW D, IsFiniteSet(D), NEW f \in [D -> Nat]
    PROVE  \E s : SumsUp(f, s) /\ s[D] = SumFunction(f)
BY SumIs

LEMMA SumNat ==
    ASSUME NEW D, IsFiniteSet(D), NEW f \in [D -> Nat]
    PROVE  SumFunction(f) \in Nat
  <1>1. PICK s : SumsUp(f, s) /\ s[D] = SumFunction(f)
    BY SumOf
  <1>2. D \in SUBSET DOMAIN f
    OBVIOUS
  <1> QED
    BY <1>1, <1>2 DEF SumsUp

\* One more element.
LEMMA AddedUp ==
    ASSUME NEW f, NEW s, SumsUp(f, s), NEW D, DOMAIN f = D, NEW T, T \subseteq D,
           NEW x, x \in D, x \notin T
    PROVE  s[T \cup {x}] = f[x] + s[T] /\ s[T] \in Nat
  <1>1. T \in SUBSET DOMAIN f /\ T \cup {x} \in SUBSET DOMAIN f /\ x \in T \cup {x} /\ (T \cup {x}) \ {x} = T
    OBVIOUS
  <1> QED
    BY <1>1 DEF SumsUp

\* A sum is as large as what it sums.
LEMMA SumMono ==
    ASSUME NEW D, IsFiniteSet(D), NEW f \in [D -> Nat], NEW g \in [D -> Nat],
           \A x \in D : f[x] <= g[x]
    PROVE  SumFunction(f) <= SumFunction(g)
  <1>1. PICK s : SumsUp(f, s) /\ s[D] = SumFunction(f)
    BY SumOf
  <1>2. PICK t : SumsUp(g, t) /\ t[D] = SumFunction(g)
    BY SumOf
  <1> DEFINE J == {T \in SUBSET D : s[T] <= t[T]}
  <1>3. {} \in J
    BY <1>1, <1>2 DEF SumsUp
  <1>4. ASSUME NEW T \in SUBSET D, NEW x \in D \ T, T \in J PROVE T \cup {x} \in J
    <2>1. s[T \cup {x}] = f[x] + s[T] /\ s[T] \in Nat
      BY <1>1, AddedUp
    <2>2. t[T \cup {x}] = g[x] + t[T] /\ t[T] \in Nat
      BY <1>2, AddedUp
    <2>3. f[x] \in Nat /\ g[x] \in Nat /\ f[x] <= g[x] /\ s[T] <= t[T]
      BY <1>4
    <2>4. s[T \cup {x}] <= t[T \cup {x}]
      BY <2>1, <2>2, <2>3
    <2> QED
      BY <2>4
  <1> HIDE DEF J
  <1>5. D \in J
    BY <1>3, <1>4, GrowSet
  <1> QED
    BY <1>1, <1>2, <1>5 DEF J

\* Sums add up.
LEMMA SumPlus ==
    ASSUME NEW D, IsFiniteSet(D), NEW f \in [D -> Nat], NEW g \in [D -> Nat],
           NEW h \in [D -> Nat], \A x \in D : h[x] = f[x] + g[x]
    PROVE  SumFunction(h) = SumFunction(f) + SumFunction(g)
  <1>1. PICK s : SumsUp(f, s) /\ s[D] = SumFunction(f)
    BY SumOf
  <1>2. PICK t : SumsUp(g, t) /\ t[D] = SumFunction(g)
    BY SumOf
  <1>3. PICK u : SumsUp(h, u) /\ u[D] = SumFunction(h)
    BY SumOf
  <1> DEFINE J == {T \in SUBSET D : u[T] = s[T] + t[T]}
  <1>4. {} \in J
    BY <1>1, <1>2, <1>3 DEF SumsUp
  <1>5. ASSUME NEW T \in SUBSET D, NEW x \in D \ T, T \in J PROVE T \cup {x} \in J
    <2>1. s[T \cup {x}] = f[x] + s[T] /\ s[T] \in Nat
      BY <1>1, AddedUp
    <2>2. t[T \cup {x}] = g[x] + t[T] /\ t[T] \in Nat
      BY <1>2, AddedUp
    <2>3. u[T \cup {x}] = h[x] + u[T] /\ u[T] \in Nat
      BY <1>3, AddedUp
    <2>4. f[x] \in Nat /\ g[x] \in Nat /\ h[x] = f[x] + g[x] /\ u[T] = s[T] + t[T]
      BY <1>5
    <2>5. u[T \cup {x}] = s[T \cup {x}] + t[T \cup {x}]
      BY <2>1, <2>2, <2>3, <2>4
    <2> QED
      BY <2>5
  <1> HIDE DEF J
  <1>6. D \in J
    BY <1>4, <1>5, GrowSet
  <1> QED
    BY <1>1, <1>2, <1>3, <1>6 DEF J

\* A sum is at least each of what it sums.
LEMMA SumAtLeast ==
    ASSUME NEW D, IsFiniteSet(D), NEW f \in [D -> Nat], NEW x \in D
    PROVE  f[x] <= SumFunction(f)
  <1>1. PICK s : SumsUp(f, s) /\ s[D] = SumFunction(f)
    BY SumOf
  <1>2. s[D] = f[x] + s[D \ {x}] /\ s[D \ {x}] \in Nat
    <2>1. D \in SUBSET D /\ D \ {x} \in SUBSET D
      OBVIOUS
    <2> QED
      BY <1>1, <2>1 DEF SumsUp
  <1>3. f[x] \in Nat
    OBVIOUS
  <1> QED
    BY <1>1, <1>2, <1>3

\* A sum of nothing is nothing, and if it is something, then so is an element.
LEMMA SumZero ==
    ASSUME NEW D, IsFiniteSet(D), NEW f \in [D -> Nat]
    PROVE  SumFunction(f) = 0 <=> \A x \in D : f[x] = 0
  <1>1. ASSUME \A x \in D : f[x] = 0 PROVE SumFunction(f) = 0
    <2>1. PICK s : SumsUp(f, s) /\ s[D] = SumFunction(f)
      BY SumOf
    <2> DEFINE J == {T \in SUBSET D : s[T] = 0}
    <2>2. {} \in J
      BY <2>1 DEF SumsUp
    <2>3. ASSUME NEW T \in SUBSET D, NEW x \in D \ T, T \in J PROVE T \cup {x} \in J
      <3>1. s[T \cup {x}] = f[x] + s[T]
        BY <2>1, AddedUp
      <3>2. s[T \cup {x}] = 0
        BY <1>1, <2>3, <3>1
      <3> QED
        BY <3>2
    <2> HIDE DEF J
    <2>4. D \in J
      BY <2>2, <2>3, GrowSet
    <2> QED
      BY <2>1, <2>4 DEF J
  <1>2. ASSUME SumFunction(f) = 0, NEW x \in D PROVE f[x] = 0
    <2>1. f[x] \in Nat /\ f[x] <= SumFunction(f)
      BY SumAtLeast
    <2> QED
      BY <1>2, <2>1
  <1> QED
    BY <1>1, <1>2

\* The sum of a function that is defined on one element more.
LEMMA SumSplit ==
    ASSUME NEW D, IsFiniteSet(D), NEW x, x \notin D,
           NEW f \in [D \cup {x} -> Nat], NEW g \in [D -> Nat],
           \A y \in D : f[y] = g[y]
    PROVE  SumFunction(f) = f[x] + SumFunction(g)
  <1>1. IsFiniteSet(D \cup {x})
    BY FS_AddElement
  <1>2. PICK s : SumsUp(f, s) /\ s[D \cup {x}] = SumFunction(f)
    BY <1>1, SumOf
  <1>3. PICK t : SumsUp(g, t) /\ t[D] = SumFunction(g)
    BY SumOf
  <1> DEFINE J == {T \in SUBSET D : s[T] = t[T]}
  <1>4. {} \in J
    BY <1>2, <1>3 DEF SumsUp
  <1>5. ASSUME NEW T \in SUBSET D, NEW y \in D \ T, T \in J PROVE T \cup {y} \in J
    <2>1. /\ DOMAIN f = D \cup {x} /\ T \subseteq D \cup {x} /\ y \in D \cup {x}
          /\ DOMAIN g = D /\ T \subseteq D /\ y \in D /\ y \notin T
      OBVIOUS
    <2>2. s[T \cup {y}] = f[y] + s[T]
      BY <1>2, <2>1, AddedUp
    <2>3. t[T \cup {y}] = g[y] + t[T]
      BY <1>3, <2>1, AddedUp
    <2>4. s[T \cup {y}] = t[T \cup {y}]
      BY <1>5, <2>2, <2>3
    <2> QED
      BY <2>4
  <1> HIDE DEF J
  <1>6. D \in J
    BY <1>4, <1>5, GrowSet
  <1>7. s[D \cup {x}] = f[x] + s[D]
    <2>1. DOMAIN f = D \cup {x} /\ D \subseteq D \cup {x} /\ x \in D \cup {x}
      OBVIOUS
    <2> QED
      BY <1>2, <2>1, AddedUp
  <1> QED
    BY <1>2, <1>3, <1>6, <1>7 DEF J

\* Elements may be numbered.
LEMMA SumOver ==
    ASSUME NEW D, IsFiniteSet(D), NEW E, IsFiniteSet(E), NEW b \in Bijection(E, D),
           NEW f \in [D -> Nat], NEW g \in [E -> Nat], \A e \in E : g[e] = f[b[e]]
    PROVE  SumFunction(g) = SumFunction(f)
  <1>1. PICK s : SumsUp(f, s) /\ s[D] = SumFunction(f)
    BY SumOf
  <1>2. PICK t : SumsUp(g, t) /\ t[E] = SumFunction(g)
    BY SumOf
  <1>3. /\ b \in [E -> D] /\ \A d \in D : \E e \in E : b[e] = d
        /\ \A e, c \in E : b[e] = b[c] => e = c
    BY DEF Bijection, Injection, Surjection, IsInjective
  <1> DEFINE Of(T) == {b[e] : e \in T}
             J == {T \in SUBSET E : t[T] = s[Of(T)]}
  <1>4. {} \in J
    <2>1. Of({}) = {}
      OBVIOUS
    <2>2. t[{}] = s[Of({})]
      BY <1>1, <1>2, <2>1 DEF SumsUp
    <2> QED
      BY <2>2
  <1>5. ASSUME NEW T \in SUBSET E, NEW x \in E \ T, T \in J PROVE T \cup {x} \in J
    <2>1. Of(T) \in SUBSET D /\ b[x] \in D \ Of(T) /\ Of(T \cup {x}) = Of(T) \cup {b[x]}
      BY <1>3
    <2>2. t[T \cup {x}] = g[x] + t[T]
      <3>1. DOMAIN g = E /\ T \subseteq E /\ x \in E /\ x \notin T
        OBVIOUS
      <3> HIDE DEF Of, J
      <3> QED
        BY <1>2, <3>1, AddedUp
    <2>3. t[T] = s[Of(T)] /\ g[x] = f[b[x]]
      BY <1>5
    <2> HIDE DEF Of
    <2>4. s[Of(T) \cup {b[x]}] = f[b[x]] + s[Of(T)]
      <3>1. \A A, d : A \subseteq D /\ d \in D /\ d \notin A => s[A \cup {d}] = f[d] + s[A]
        <4>1. DOMAIN f = D
          OBVIOUS
        <4> HIDE DEF J
        <4> QED
          BY <1>1, <4>1, AddedUp
      <3>2. Of(T) \subseteq D /\ b[x] \in D /\ b[x] \notin Of(T)
        BY <2>1
      <3> HIDE DEF J
      <3> QED
        BY <3>1, <3>2
    <2>5. t[T \cup {x}] = s[Of(T \cup {x})]
      BY <2>1, <2>2, <2>3, <2>4
    <2> QED
      BY <2>5
  <1>6. Of(E) = D
    BY <1>3
  <1> HIDE DEF J
  <1>7. E \in J
    BY <1>4, <1>5, GrowSet
  <1> QED
    BY <1>1, <1>2, <1>6, <1>7 DEF J

-----------------------------------------------------------------------------
(* Counting the elements of a sequence. *)

CountIn(s, S) == Cardinality({k \in DOMAIN s : s[k] \in S})
CountUpto(s, S, n) == Cardinality({k \in 1..n : s[k] \in S})
CountBetween(s, S, a, b) == Cardinality({k \in (a + 1)..b : s[k] \in S})

IsList(s) == s \in Seq(ToSet(s))

LEMMA ListIs ==
    ASSUME NEW s
    PROVE  IsList(s) <=> Len(s) \in Nat /\ s = [k \in 1..Len(s) |-> s[k]]
  <1>1. ASSUME IsList(s) PROVE Len(s) \in Nat /\ s = [k \in 1..Len(s) |-> s[k]]
    BY <1>1 DEF IsList
  <1>2. ASSUME NEW n \in Nat, s = [k \in 1..n |-> s[k]] PROVE IsList(s)
    <2>1. s \in [1..n -> ToSet(s)]
      BY <1>2 DEF ToSet
    <2> QED
      BY <2>1 DEF IsList
  <1> QED
    BY <1>1, <1>2

LEMMA ListOf ==
    ASSUME NEW U, NEW s \in Seq(U)
    PROVE  IsList(s) /\ ToSet(s) \subseteq U
BY ListIs DEF ToSet

\* Parts of an interval.
LEMMA PartOfInterval ==
    ASSUME NEW a \in Nat, NEW b \in Nat, NEW P, P \subseteq a..b
    PROVE  IsFiniteSet(P) /\ Cardinality(P) \in Nat
  <1>1. IsFiniteSet(a..b)
    BY FS_Interval
  <1> QED
    BY <1>1, FS_Subset, FS_CardinalityType

LEMMA CountIsNat ==
    ASSUME NEW s, IsList(s), NEW S
    PROVE  CountIn(s, S) \in Nat /\ CountIn(s, S) = CountUpto(s, S, Len(s)) /\ CountIn(s, S) <= Len(s)
  <1>1. PICK N \in Nat : N = Len(s) /\ DOMAIN s = 1..N
    BY DEF IsList
  <1> DEFINE P == {k \in 1..N : s[k] \in S}
  <1>2. IsFiniteSet(1..N) /\ Cardinality(1..N) = N
    <2>1. 1 \in Int /\ N \in Int
      OBVIOUS
    <2> QED
      BY <2>1, FS_Interval
  <1>3. P \subseteq 1..N
    OBVIOUS
  <1> HIDE DEF P
  <1>4. Cardinality(P) \in Nat /\ Cardinality(P) <= N
    BY <1>2, <1>3, FS_Subset, FS_CardinalityType
  <1> QED
    BY <1>1, <1>4 DEF P, CountIn, CountUpto

\* More of a sequence holds more, but no more than there is more.
LEMMA CountGrows ==
    ASSUME NEW s, NEW S, NEW a \in Nat, NEW b \in Nat, a <= b
    PROVE  /\ CountUpto(s, S, a) \in Nat /\ CountUpto(s, S, b) \in Nat
           /\ CountBetween(s, S, a, b) \in Nat
           /\ CountUpto(s, S, b) = CountUpto(s, S, a) + CountBetween(s, S, a, b)
           /\ CountBetween(s, S, a, b) <= b - a
  <1> DEFINE A == {k \in 1..a : s[k] \in S}
             B == {k \in (a + 1)..b : s[k] \in S}
             C == {k \in 1..b : s[k] \in S}
  <1>1. A \subseteq 1..a /\ B \subseteq (a + 1)..b /\ C = A \cup B /\ A \cap B = {}
    OBVIOUS
  <1>2. IsFiniteSet((a + 1)..b) /\ Cardinality((a + 1)..b) = b - a
    <2>1. a + 1 \in Int /\ b \in Int /\ (a + 1 > b <=> a = b) /\ b - (a + 1) + 1 = b - a
      OBVIOUS
    <2>2. /\ IsFiniteSet((a + 1)..b)
          /\ Cardinality((a + 1)..b) = IF a + 1 > b THEN 0 ELSE b - (a + 1) + 1
      BY <2>1, FS_Interval
    <2> QED
      BY <2>1, <2>2
  <1> HIDE DEF A, B, C
  <1>3. IsFiniteSet(A) /\ IsFiniteSet(B) /\ Cardinality(A) \in Nat /\ Cardinality(B) \in Nat
    <2>1. 1 \in Nat /\ a + 1 \in Nat
      OBVIOUS
    <2> QED
      BY <1>1, <2>1, PartOfInterval
  <1>4. Cardinality(C) = Cardinality(A) + Cardinality(B)
    <2>1. Cardinality(A \cap B) = 0
      BY <1>1, FS_EmptySet
    <2>2. Cardinality(A \cup B) = Cardinality(A) + Cardinality(B) - Cardinality(A \cap B)
      BY <1>3, FS_Union
    <2> QED
      BY <1>1, <1>3, <2>1, <2>2
  <1>5. Cardinality(B) <= b - a
    BY <1>1, <1>2, FS_Subset
  <1> QED
    BY <1>3, <1>4, <1>5 DEF A, B, C, CountUpto, CountBetween

\* A bijection between finite sets.
LEMMA SameSize ==
    ASSUME NEW P, IsFiniteSet(P), NEW Q, NEW f \in [P -> Q],
           \A x, y \in P : f[x] = f[y] => x = y, \A q \in Q : \E x \in P : f[x] = q
    PROVE  Cardinality(P) = Cardinality(Q)
  <1>1. f \in Bijection(P, Q)
    BY DEF Bijection, Injection, Surjection, IsInjective
  <1> QED
    BY <1>1, FS_Bijection DEF ExistsBijection

\* Concatenation.
LEMMA ListConcat ==
    ASSUME NEW s, IsList(s), NEW t, IsList(t)
    PROVE  /\ IsList(s \o t) /\ Len(s \o t) = Len(s) + Len(t)
           /\ ToSet(s \o t) = ToSet(s) \cup ToSet(t)
           /\ \A S : CountIn(s \o t, S) = CountIn(s, S) + CountIn(t, S)
  <1> DEFINE U == ToSet(s) \cup ToSet(t)
  <1>1. s \in Seq(U) /\ t \in Seq(U)
    BY DEF IsList
  <1> HIDE DEF U
  <1>2. PICK m \in Nat : m = Len(s) /\ DOMAIN s = 1..m
    BY <1>1
  <1>3. PICK n \in Nat : n = Len(t) /\ DOMAIN t = 1..n
    BY <1>1
  <1>4. /\ s \o t \in Seq(U) /\ Len(s \o t) = m + n /\ DOMAIN (s \o t) = 1..(m + n)
        /\ \A k \in 1..m : (s \o t)[k] = s[k]
        /\ \A k \in 1..n : (s \o t)[m + k] = t[k]
    BY <1>1, <1>2, <1>3
  <1>5. \A k \in 1..(m + n) : k \in 1..m \/ (k - m \in 1..n /\ (s \o t)[k] = t[k - m])
    <2> TAKE k \in 1..(m + n)
    <2>1. CASE k > m
      <3>1. k - m \in 1..n /\ m + (k - m) = k
        BY <2>1
      <3> QED
        BY <1>4, <3>1
    <2>2. CASE ~(k > m)
      BY <2>2
    <2> QED
      BY <2>1, <2>2
  <1>6. \A k \in 1..m : k \in 1..(m + n)
    OBVIOUS
  <1>7. \A k \in 1..n : m + k \in 1..(m + n)
    OBVIOUS
  <1>8. ToSet(s \o t) = U
    <2>1. \A x : x \in ToSet(s \o t) => x \in U
      BY <1>2, <1>3, <1>4, <1>5 DEF ToSet, U
    <2>2. \A k \in 1..m : s[k] \in ToSet(s \o t)
      BY <1>4, <1>6 DEF ToSet
    <2>3. \A k \in 1..n : t[k] \in ToSet(s \o t)
      BY <1>4, <1>7 DEF ToSet
    <2> QED
      BY <1>2, <1>3, <2>1, <2>2, <2>3 DEF ToSet, U
  <1>9. IsList(s \o t)
    BY <1>4, <1>8 DEF IsList
  <1>10. ASSUME NEW S PROVE CountIn(s \o t, S) = CountIn(s, S) + CountIn(t, S)
    <2> DEFINE A == {k \in 1..m : s[k] \in S}
               B == {k \in 1..n : t[k] \in S}
               C == {k \in (m + 1)..(m + n) : (s \o t)[k] \in S}
               W == {k \in 1..(m + n) : (s \o t)[k] \in S}
    <2>1. W = A \cup C /\ A \cap C = {} /\ A \subseteq 1..m /\ C \subseteq (m + 1)..(m + n)
      BY <1>4, <1>6
    <2>2. B \subseteq 1..n
      OBVIOUS
    <2>3. C = {m + k : k \in B}
      <3>1. \A k \in C : k - m \in B /\ k = m + (k - m)
        <4> TAKE k \in C
        <4>1. k \in 1..(m + n) /\ k \notin 1..m /\ k - m \in Int /\ k = m + (k - m)
          OBVIOUS
        <4> QED
          BY <1>5, <4>1
      <3>2. \A k \in B : m + k \in C
        BY <1>4, <1>7
      <3> HIDE DEF B, C
      <3> QED
        BY <3>1, <3>2
    <2> HIDE DEF A, B, C, W
    <2>4. IsFiniteSet(A) /\ Cardinality(A) \in Nat /\ IsFiniteSet(B) /\ Cardinality(B) \in Nat
      BY <2>1, <2>2, PartOfInterval
    <2>5. IsFiniteSet(C) /\ Cardinality(C) \in Nat
      <3>1. m + 1 \in Nat /\ m + n \in Nat
        OBVIOUS
      <3> QED
        BY <2>1, <3>1, PartOfInterval
    <2>6. Cardinality(B) = Cardinality(C)
      <3> DEFINE f == [k \in B |-> m + k]
      <3>1. f \in [B -> C] /\ \A x \in C : \E k \in B : f[k] = x
        BY <2>3
      <3>2. \A j, k \in B : f[j] = f[k] => j = k
        BY <2>2
      <3> HIDE DEF f
      <3> QED
        BY <2>4, <3>1, <3>2, SameSize
    <2>7. Cardinality(A \cap C) = 0
      BY <2>1, FS_EmptySet
    <2>8. Cardinality(W) = Cardinality(A) + Cardinality(C)
      <3>1. Cardinality(A \cup C) = Cardinality(A) + Cardinality(C) - Cardinality(A \cap C)
        BY <2>4, <2>5, FS_Union
      <3> QED
        BY <2>1, <2>4, <2>5, <2>7, <3>1
    <2>9. /\ CountIn(s \o t, S) = Cardinality(W) /\ CountIn(s, S) = Cardinality(A)
          /\ CountIn(t, S) = Cardinality(B)
      BY <1>2, <1>3, <1>4 DEF CountIn, A, B, W
    <2> QED
      BY <2>6, <2>8, <2>9
  <1> QED
    BY <1>2, <1>3, <1>4, <1>8, <1>9, <1>10 DEF U

LEMMA SmallLists ==
    /\ IsList(<<>>) /\ \A S : CountIn(<<>>, S) = 0
    /\ \A x : /\ IsList(<<x>>)
              /\ \A S : CountIn(<<x>>, S) = IF x \in S THEN 1 ELSE 0
  <1>1. IsList(<<>>) /\ \A x : IsList(<<x>>)
    BY DEF IsList, ToSet
  <1>2. ASSUME NEW S PROVE CountIn(<<>>, S) = 0
    <2>1. {k \in DOMAIN <<>> : <<>>[k] \in S} = {}
      OBVIOUS
    <2> QED
      BY <2>1, FS_EmptySet DEF CountIn
  <1>3. ASSUME NEW x, NEW S PROVE CountIn(<<x>>, S) = IF x \in S THEN 1 ELSE 0
    <2>1. DOMAIN <<x>> = {1} /\ <<x>>[1] = x
      OBVIOUS
    <2>2. CASE x \in S
      <3>1. {k \in DOMAIN <<x>> : <<x>>[k] \in S} = {1}
        BY <2>1, <2>2
      <3> QED
        BY <2>2, <3>1, FS_Singleton DEF CountIn
    <2>3. CASE x \notin S
      <3>1. {k \in DOMAIN <<x>> : <<x>>[k] \in S} = {}
        BY <2>1, <2>3
      <3> QED
        BY <2>3, <3>1, FS_EmptySet DEF CountIn
    <2> QED
      BY <2>2, <2>3
  <1> QED
    BY <1>1, <1>2, <1>3

LEMMA ListAppend ==
    ASSUME NEW s, IsList(s), NEW x
    PROVE  /\ IsList(Append(s, x)) /\ Len(Append(s, x)) = Len(s) + 1
           /\ ToSet(Append(s, x)) = ToSet(s) \cup {x}
           /\ \A S : CountIn(Append(s, x), S) = CountIn(s, S) + IF x \in S THEN 1 ELSE 0
  <1> DEFINE U == ToSet(s) \cup {x}
  <1>1. s \in Seq(U) /\ x \in U
    BY DEF IsList
  <1> HIDE DEF U
  <1>2. Append(s, x) = s \o <<x>>
    BY <1>1
  <1>3. ToSet(<<x>>) = {x} /\ Len(<<x>>) = 1
    BY DEF ToSet
  <1>4. /\ IsList(s \o <<x>>) /\ Len(s \o <<x>>) = Len(s) + Len(<<x>>)
        /\ ToSet(s \o <<x>>) = ToSet(s) \cup ToSet(<<x>>)
        /\ \A S : CountIn(s \o <<x>>, S) = CountIn(s, S) + CountIn(<<x>>, S)
    BY SmallLists, ListConcat
  <1> QED
    BY <1>2, <1>3, <1>4, SmallLists

-----------------------------------------------------------------------------
(* One sequence after the other. *)

\* What FlattenSeq computes, step by step.
LEMMA FlattenIs ==
    ASSUME NEW ss, IsList(ss), \A i \in DOMAIN ss : IsList(ss[i])
    PROVE  \E f : /\ f[0] = <<>> /\ f[Len(ss)] = FlattenSeq(ss)
                  /\ \A n \in 1..Len(ss) : f[n] = f[n - 1] \o ss[n]
  <1> DEFINE N == Len(ss)
             One(s, n) == IF n = 1 THEN ss[1] ELSE s \o ss[n]
             Flat(n, f) == f = [k \in 1..n |-> One(f[k - 1], k)]
             I == {n \in Nat : \E f : Flat(n, f)}
  <1>1. N \in Nat /\ DOMAIN ss = 1..N
    BY DEF IsList
  <1>2. ASSUME NEW n \in Nat, NEW f, Flat(n, f) PROVE \E g : Flat(n + 1, g)
    <2> DEFINE g == [k \in 1..(n + 1) |-> IF k = n + 1 THEN One(f[n], n + 1) ELSE f[k]]
    <2>1. g = [k \in 1..(n + 1) |-> g[k]]
      OBVIOUS
    <2>2. ASSUME NEW k \in 1..(n + 1) PROVE g[k] = One(g[k - 1], k)
      <3>1. CASE k = n + 1
        <4>1. CASE k = 1
          BY <3>1, <4>1
        <4>2. CASE k # 1
          <5>1. k - 1 = n /\ n \in 1..(n + 1) /\ n # n + 1
            BY <3>1, <4>2
          <5>2. g[n] = f[n] /\ g[n + 1] = One(f[n], n + 1)
            BY <5>1
          <5> QED
            BY <3>1, <5>1, <5>2
        <4> QED
          BY <4>1, <4>2
      <3>2. CASE k # n + 1
        <4>1. k \in 1..n
          BY <3>2
        <4>2. g[k] = f[k] /\ f[k] = One(f[k - 1], k)
          BY <1>2, <3>2, <4>1
        <4>3. CASE k = 1
          BY <4>2, <4>3
        <4>4. CASE k # 1
          <5>1. k - 1 \in 1..(n + 1) /\ k - 1 # n + 1
            BY <4>1, <4>4
          <5>2. g[k - 1] = f[k - 1]
            BY <5>1
          <5> QED
            BY <4>2, <5>2
        <4> QED
          BY <4>3, <4>4
      <3> QED
        BY <3>1, <3>2
    <2> HIDE DEF g, One
    <2> QED
      BY <2>1, <2>2
  <1> HIDE DEF Flat
  <1>3. PICK f : Flat(N, f)
    <2>1. 0 \in I
      <3>1. Flat(0, [k \in 1..0 |-> <<>>])
        BY DEF Flat
      <3> QED
        BY <3>1
    <2>2. \A n \in 1..N : n - 1 \in I => n \in I
      <3> TAKE n \in 1..N
      <3> HAVE n - 1 \in I
      <3>1. n - 1 \in Nat /\ (n - 1) + 1 = n /\ n \in Nat
        BY <1>1
      <3>2. PICK h : Flat(n - 1, h)
        OBVIOUS
      <3>3. \E g : Flat((n - 1) + 1, g)
        BY <1>2, <3>1, <3>2
      <3> QED
        BY <3>1, <3>3
    <2> HIDE DEF I, N
    <2>3. N \in I
      BY <1>1, <2>1, <2>2, StepByStep
    <2> QED
      BY <2>3 DEF I
  <1> DEFINE flatten == CHOOSE g : g = [i \in 1..N |-> IF i = 1 THEN ss[i] ELSE g[i - 1] \o ss[i]]
  <1>4. f = [i \in 1..N |-> IF i = 1 THEN ss[i] ELSE f[i - 1] \o ss[i]]
    BY <1>3 DEF Flat
  <1>5. flatten = [i \in 1..N |-> IF i = 1 THEN ss[i] ELSE flatten[i - 1] \o ss[i]]
    BY <1>4, Zenon
  <1>6. N # 0 => FlattenSeq(ss) = flatten[N]
    BY DEF FlattenSeq
  <1>7. N = 0 => FlattenSeq(ss) = ss /\ ss = <<>>
    BY <1>1 DEF FlattenSeq, IsList
  <1> HIDE DEF flatten, N
  <1> DEFINE h == [n \in 0..N |-> IF n = 0 THEN <<>> ELSE flatten[n]]
  <1>8. h[0] = <<>> /\ h[N] = FlattenSeq(ss)
    BY <1>1, <1>6, <1>7
  <1>9. ASSUME NEW n \in 1..N PROVE h[n] = h[n - 1] \o ss[n]
    <2>1. h[n] = IF n = 1 THEN ss[n] ELSE flatten[n - 1] \o ss[n]
      <3>1. flatten[n] = IF n = 1 THEN ss[n] ELSE flatten[n - 1] \o ss[n]
        BY <1>5, Zenon
      <3>2. n \in 0..N /\ n # 0
        BY <1>1
      <3> QED
        BY <3>1, <3>2
    <2>2. CASE n = 1
      <3>1. IsList(ss[n]) /\ h[n - 1] = <<>>
        BY <1>1, <2>2
      <3>2. <<>> \o ss[n] = ss[n]
        BY <3>1 DEF IsList
      <3> QED
        BY <2>1, <2>2, <3>1, <3>2
    <2>3. CASE n # 1
      <3>1. n - 1 \in 0..N /\ n - 1 # 0
        BY <1>1, <2>3
      <3>2. h[n - 1] = flatten[n - 1]
        BY <3>1
      <3> QED
        BY <2>1, <2>3, <3>2
    <2> QED
      BY <2>2, <2>3
  <1> HIDE DEF h
  <1> QED
    BY <1>8, <1>9 DEF N

\* P is how L begins.
Starts(P, L) ==
    /\ IsList(P) /\ IsList(L) /\ Len(P) <= Len(L)
    /\ \A i \in 1..Len(P) : P[i] = L[i]

LEMMA ListLen == \A s : IsList(s) => Len(s) \in Nat /\ DOMAIN s = 1..Len(s)
BY ListIs

LEMMA StartsIs ==
    /\ \A L : IsList(L) => Starts(L, L)
    /\ \A P, Q, L : Starts(P, Q) /\ Starts(Q, L) => Starts(P, L)
    /\ \A P, L, e : Starts(P, L) => Starts(P, Append(L, e))
    /\ \A P, L : Starts(P, L) => ToSet(P) \subseteq ToSet(L)
  <1>1. ASSUME NEW P, NEW Q, NEW L, Starts(P, Q), Starts(Q, L) PROVE Starts(P, L)
    <2>1. Len(P) \in Nat /\ Len(Q) \in Nat /\ Len(L) \in Nat
      BY <1>1, ListLen DEF Starts
    <2> QED
      BY <1>1, <2>1 DEF Starts
  <1>2. ASSUME NEW P, NEW L, NEW e, Starts(P, L) PROVE Starts(P, Append(L, e))
    <2>1. Len(P) \in Nat /\ Len(L) \in Nat /\ IsList(Append(L, e)) /\ Len(Append(L, e)) = Len(L) + 1
      BY <1>2, ListLen, ListAppend DEF Starts
    <2>2. \A i \in 1..Len(L) : Append(L, e)[i] = L[i]
      BY <1>2 DEF Starts, IsList
    <2> QED
      BY <1>2, <2>1, <2>2 DEF Starts
  <1>3. ASSUME NEW P, NEW L, Starts(P, L) PROVE ToSet(P) \subseteq ToSet(L)
    <2>1. /\ Len(P) \in Nat /\ Len(L) \in Nat /\ DOMAIN P = 1..Len(P) /\ DOMAIN L = 1..Len(L)
      BY <1>3, ListLen DEF Starts
    <2> QED
      BY <1>3, <2>1 DEF Starts, ToSet
  <1>4. ASSUME NEW L, IsList(L) PROVE Starts(L, L)
    BY <1>4, ListLen DEF Starts
  <1> QED
    BY <1>1, <1>2, <1>3, <1>4

\* The same, for every beginning of the sequences at once.
LEMMA FlattenSteps ==
    ASSUME NEW ss, IsList(ss), \A i \in DOMAIN ss : IsList(ss[i])
    PROVE  \E f : /\ f[0] = <<>> /\ f[Len(ss)] = FlattenSeq(ss)
                  /\ \A n \in 1..Len(ss) : f[n] = f[n - 1] \o ss[n]
                  /\ \A n \in 0..Len(ss) : IsList(f[n])
                  /\ \A tt : Starts(tt, ss) => FlattenSeq(tt) = f[Len(tt)]
  <1>1. PICK N \in Nat : N = Len(ss) /\ DOMAIN ss = 1..N
    BY ListLen
  <1>2. PICK f : /\ f[0] = <<>> /\ f[N] = FlattenSeq(ss)
                 /\ \A n \in 1..N : f[n] = f[n - 1] \o ss[n]
    BY <1>1, FlattenIs
  <1>3. \A n \in 0..N : IsList(f[n])
    <2> DEFINE I == {n \in 0..N : IsList(f[n])}
    <2>1. 0 \in I
      BY <1>1, <1>2, SmallLists
    <2>2. \A n \in 1..N : n - 1 \in I => n \in I
      <3> TAKE n \in 1..N
      <3> HAVE n - 1 \in I
      <3>1. IsList(ss[n]) /\ IsList(f[n - 1]) /\ f[n] = f[n - 1] \o ss[n]
        BY <1>1, <1>2
      <3>2. IsList(f[n])
        BY <3>1, ListConcat
      <3> QED
        BY <3>2
    <2> HIDE DEF I
    <2>3. \A n \in 0..N : n \in I
      BY <1>1, <2>1, <2>2, StepByStep
    <2> QED
      BY <2>3 DEF I
  <1>4. ASSUME NEW tt, Starts(tt, ss) PROVE FlattenSeq(tt) = f[Len(tt)]
    <2>1. PICK M \in Nat : M = Len(tt) /\ DOMAIN tt = 1..M /\ M <= N
      BY <1>1, <1>4, ListLen DEF Starts
    <2>2. IsList(tt) /\ \A i \in 1..M : tt[i] = ss[i] /\ IsList(tt[i])
      BY <1>1, <1>4, <2>1 DEF Starts
    <2>3. PICK g : /\ g[0] = <<>> /\ g[M] = FlattenSeq(tt)
                   /\ \A n \in 1..M : g[n] = g[n - 1] \o tt[n]
      BY <2>1, <2>2, FlattenIs
    <2> DEFINE I == {n \in 0..M : f[n] = g[n]}
    <2>4. 0 \in I
      BY <1>2, <2>1, <2>3
    <2>5. \A n \in 1..M : n - 1 \in I => n \in I
      <3> TAKE n \in 1..M
      <3> HAVE n - 1 \in I
      <3>1. n \in 1..N
        BY <1>1, <2>1
      <3>2. f[n] = f[n - 1] \o ss[n] /\ g[n] = g[n - 1] \o tt[n] /\ tt[n] = ss[n]
        BY <1>2, <2>2, <2>3, <3>1
      <3>3. f[n] = g[n]
        BY <3>2
      <3> QED
        BY <3>3
    <2> HIDE DEF I
    <2>6. \A n \in 0..M : n \in I
      BY <2>1, <2>4, <2>5, StepByStep
    <2>7. M \in I
      BY <2>1, <2>6
    <2> QED
      BY <2>1, <2>3, <2>7 DEF I
  <1> QED
    BY <1>1, <1>2, <1>3, <1>4

\* Its elements, and how many of them are in a set.
LEMMA FlattenCounts ==
    ASSUME NEW ss, IsList(ss), \A i \in DOMAIN ss : IsList(ss[i])
    PROVE  /\ IsList(FlattenSeq(ss))
           /\ ToSet(FlattenSeq(ss)) = UNION {ToSet(ss[i]) : i \in DOMAIN ss}
           /\ \A S : CountIn(FlattenSeq(ss), S) = SumFunction([i \in DOMAIN ss |-> CountIn(ss[i], S)])
  <1>1. PICK N \in Nat : N = Len(ss) /\ DOMAIN ss = 1..N
    BY ListLen
  <1>2. PICK f : /\ f[0] = <<>> /\ f[N] = FlattenSeq(ss)
                 /\ \A n \in 1..N : f[n] = f[n - 1] \o ss[n]
                 /\ \A n \in 0..N : IsList(f[n])
    BY <1>1, FlattenSteps
  <1>3. \A n \in 1..N : n - 1 \in 0..N /\ n \in 0..N /\ IsList(ss[n]) /\ IsList(f[n - 1])
    BY <1>1, <1>2
  <1>4. ToSet(f[N]) = UNION {ToSet(ss[i]) : i \in 1..N}
    <2> DEFINE I == {n \in 0..N : ToSet(f[n]) = UNION {ToSet(ss[i]) : i \in 1..n}}
    <2>1. 0 \in I
      <3>1. ToSet(<<>>) = {} /\ UNION {ToSet(ss[i]) : i \in 1..0} = {}
        BY DEF ToSet
      <3> QED
        BY <1>1, <1>2, <3>1
    <2>2. \A n \in 1..N : n - 1 \in I => n \in I
      <3> TAKE n \in 1..N
      <3> HAVE n - 1 \in I
      <3>1. ToSet(f[n]) = ToSet(f[n - 1]) \cup ToSet(ss[n])
        <4>1. ToSet(f[n - 1] \o ss[n]) = ToSet(f[n - 1]) \cup ToSet(ss[n])
          BY <1>3, ListConcat
        <4> QED
          BY <1>2, <4>1
      <3>2. 1..n = (1..(n - 1)) \cup {n} /\ n \in 0..N
        BY <1>1
      <3>3. UNION {ToSet(ss[i]) : i \in 1..n} = (UNION {ToSet(ss[i]) : i \in 1..(n - 1)}) \cup ToSet(ss[n])
        BY <3>2
      <3> QED
        BY <3>1, <3>2, <3>3
    <2> HIDE DEF I
    <2>3. \A n \in 0..N : n \in I
      BY <1>1, <2>1, <2>2, StepByStep
    <2>4. N \in 0..N
      BY <1>1
    <2> QED
      BY <2>3, <2>4 DEF I
  <1>5. ASSUME NEW S PROVE CountIn(f[N], S) = SumFunction([i \in 1..N |-> CountIn(ss[i], S)])
    <2> DEFINE c(n) == [i \in 1..n |-> CountIn(ss[i], S)]
               I == {n \in 0..N : CountIn(f[n], S) = SumFunction(c(n))}
    <2>1. 0 \in I
      <3>1. c(0) \in [{} -> Nat] /\ IsFiniteSet({})
        BY FS_EmptySet
      <3> HIDE DEF c
      <3>2. SumFunction(c(0)) = 0
        BY <3>1, SumZero
      <3> QED
        BY <1>1, <1>2, <3>2, SmallLists
    <2>2. \A n \in 1..N : n - 1 \in I => n \in I
      <3> TAKE n \in 1..N
      <3> HAVE n - 1 \in I
      <3>1. CountIn(f[n], S) = CountIn(f[n - 1], S) + CountIn(ss[n], S)
        <4>1. CountIn(f[n - 1] \o ss[n], S) = CountIn(f[n - 1], S) + CountIn(ss[n], S)
          BY <1>3, ListConcat
        <4> QED
          BY <1>2, <4>1
      <3>2. \A i \in 1..N : CountIn(ss[i], S) \in Nat
        BY <1>3, CountIsNat
      <3>3. 1..n = (1..(n - 1)) \cup {n} /\ n \notin 1..(n - 1) /\ n \in 0..N /\ 1..(n - 1) \subseteq 1..N
        BY <1>1
      <3>4. c(n) \in [(1..(n - 1)) \cup {n} -> Nat] /\ c(n - 1) \in [1..(n - 1) -> Nat]
        BY <3>2, <3>3
      <3>5. c(n)[n] = CountIn(ss[n], S) /\ \A i \in 1..(n - 1) : c(n)[i] = c(n - 1)[i]
        BY <3>3
      <3>6. IsFiniteSet(1..(n - 1))
        <4>1. 1 \in Nat /\ n - 1 \in Nat
          BY <1>1
        <4> QED
          BY <4>1, PartOfInterval
      <3> HIDE DEF c
      <3>7. SumFunction(c(n)) = c(n)[n] + SumFunction(c(n - 1))
        <4> DEFINE D == 1..(n - 1)
        <4>1. n \notin D /\ IsFiniteSet(D) /\ c(n) \in [D \cup {n} -> Nat] /\ c(n - 1) \in [D -> Nat]
              /\ \A i \in D : c(n)[i] = c(n - 1)[i]
          BY <3>3, <3>4, <3>5, <3>6
        <4> HIDE DEF D
        <4> QED
          BY <4>1, SumSplit
      <3>8. SumFunction(c(n - 1)) \in Nat /\ CountIn(ss[n], S) \in Nat
        BY <3>2, <3>4, <3>6, SumNat
      <3>9. CountIn(f[n], S) = SumFunction(c(n))
        BY <3>1, <3>5, <3>7, <3>8
      <3> QED
        BY <3>3, <3>9
    <2> HIDE DEF I
    <2>3. \A n \in 0..N : n \in I
      BY <1>1, <2>1, <2>2, StepByStep
    <2>4. N \in 0..N
      BY <1>1
    <2>5. CountIn(f[N], S) = SumFunction(c(N))
      BY <2>3, <2>4 DEF I
    <2> QED
      BY <2>5
  <1> QED
    BY <1>1, <1>2, <1>4, <1>5

\* Adding up ones.
LEMMA SumOnes ==
    ASSUME NEW D, IsFiniteSet(D), NEW A, A \subseteq D, NEW f \in [D -> Nat],
           \A x \in D : f[x] = IF x \in A THEN 1 ELSE 0
    PROVE  SumFunction(f) = Cardinality(A)
  <1>1. PICK s : SumsUp(f, s) /\ s[D] = SumFunction(f)
    BY SumOf
  <1> DEFINE J == {T \in SUBSET D : s[T] = Cardinality(T \cap A)}
  <1>2. {} \in J
    <2>1. {} \cap A = {}
      OBVIOUS
    <2> QED
      BY <1>1, <2>1, FS_EmptySet DEF SumsUp
  <1>3. ASSUME NEW T \in SUBSET D, NEW x \in D \ T, T \in J PROVE T \cup {x} \in J
    <2>1. s[T \cup {x}] = f[x] + s[T] /\ s[T] \in Nat
      BY <1>1, AddedUp
    <2>2. IsFiniteSet(T \cap A) /\ Cardinality(T \cap A) \in Nat
      BY FS_Subset, FS_CardinalityType
    <2>3. CASE x \in A
      <3>1. (T \cup {x}) \cap A = (T \cap A) \cup {x} /\ x \notin T \cap A
        BY <2>3
      <3>2. Cardinality((T \cap A) \cup {x}) = Cardinality(T \cap A) + 1
        BY <2>2, <3>1, FS_AddElement
      <3>3. f[x] = 1 /\ s[T] = Cardinality(T \cap A)
        BY <1>3, <2>3
      <3>4. s[T \cup {x}] = Cardinality((T \cup {x}) \cap A)
        <4>1. Cardinality((T \cup {x}) \cap A) = Cardinality(T \cap A) + 1
          BY <3>1, <3>2, Zenon
        <4> QED
          BY <2>1, <2>2, <3>3, <4>1
      <3> QED
        BY <3>4
    <2>4. CASE x \notin A
      <3>1. (T \cup {x}) \cap A = T \cap A
        BY <2>4
      <3> QED
        BY <1>3, <2>1, <2>2, <2>4, <3>1
    <2> QED
      BY <2>3, <2>4
  <1> HIDE DEF J
  <1>4. D \in J
    BY <1>2, <1>3, GrowSet
  <1>5. D \cap A = A
    OBVIOUS
  <1> QED
    BY <1>1, <1>4, <1>5 DEF J

\* The positions of a list that are in a set.
LEMMA CountAll ==
    ASSUME NEW s, IsList(s), NEW S, ToSet(s) \subseteq S
    PROVE  CountIn(s, S) = Len(s)
  <1>1. PICK N \in Nat : N = Len(s) /\ DOMAIN s = 1..N
    BY ListLen
  <1>2. {k \in DOMAIN s : s[k] \in S} = 1..N
    BY <1>1 DEF ToSet
  <1>3. Cardinality(1..N) = N
    <2>1. 1 \in Int /\ N \in Int
      OBVIOUS
    <2>2. Cardinality(1..N) = IF 1 > N THEN 0 ELSE N - 1 + 1
      BY <2>1, FS_Interval
    <2> QED
      BY <2>2
  <1> QED
    BY <1>1, <1>2, <1>3 DEF CountIn

\* How many events of a name are in a set.
NamedIn(L, of, S) == Cardinality({i \in DOMAIN L : L[i].name = of /\ L[i] \in S})

LEMMA PositionsFinite ==
    ASSUME NEW L, IsList(L), NEW A, A \subseteq DOMAIN L
    PROVE  IsFiniteSet(A) /\ Cardinality(A) \in Nat
  <1>1. Len(L) \in Nat /\ A \subseteq 1..Len(L) /\ 1 \in Nat
    BY ListLen
  <1> QED
    BY <1>1, PartOfInterval

LEMMA NamedIs ==
    ASSUME NEW L, IsList(L), NEW of
    PROVE  /\ IsList(Named(L, of)) /\ Named(<<>>, of) = <<>>
           /\ ToSet(Named(L, of)) = {e \in ToSet(L) : e.name = of}
           /\ \A S : CountIn(Named(L, of), S) = NamedIn(L, of, S)
  <1> DEFINE ss == [i \in DOMAIN L |-> IF L[i].name = of THEN <<L[i]>> ELSE <<>>]
  <1>1. PICK N \in Nat : N = Len(L) /\ DOMAIN L = 1..N
    BY ListLen
  <1>2. IsList(ss) /\ DOMAIN ss = 1..N
    <2>1. ss = [i \in 1..N |-> ss[i]]
      BY <1>1
    <2> HIDE DEF ss
    <2>2. Len(ss) = N
      BY <2>1
    <2> QED
      BY <1>1, <2>1, <2>2, ListIs
  <1>3. \A i \in DOMAIN ss : IsList(ss[i])
    BY SmallLists
  <1>4. Named(L, of) = FlattenSeq(ss)
    BY DEF Named
  <1>5. Named(<<>>, of) = <<>>
    <2>1. [i \in DOMAIN <<>> |-> IF <<>>[i].name = of THEN <<<<>>[i]>> ELSE <<>>] = <<>>
      OBVIOUS
    <2>2. FlattenSeq(<<>>) = <<>>
      BY DEF FlattenSeq
    <2> QED
      BY <2>1, <2>2 DEF Named
  <1>6. ToSet(FlattenSeq(ss)) = {e \in ToSet(L) : e.name = of}
    <2>1. \A i \in 1..N : ToSet(ss[i]) = IF L[i].name = of THEN {L[i]} ELSE {}
      BY <1>1 DEF ToSet
    <2>2. ToSet(FlattenSeq(ss)) = UNION {ToSet(ss[i]) : i \in 1..N}
      <3> HIDE DEF ss
      <3> QED
        BY <1>2, <1>3, FlattenCounts
    <2>3. ToSet(L) = {L[i] : i \in 1..N}
      BY <1>1 DEF ToSet
    <2> HIDE DEF ss
    <2> QED
      <3>1. \A x : x \in UNION {ToSet(ss[i]) : i \in 1..N} <=> \E i \in 1..N : x = L[i] /\ x.name = of
        BY <2>1
      <3>2. \A x : x \in {e \in ToSet(L) : e.name = of} <=> \E i \in 1..N : x = L[i] /\ x.name = of
        BY <2>3
      <3> QED
        BY <2>2, <3>1, <3>2
  <1>7. ASSUME NEW S PROVE CountIn(FlattenSeq(ss), S) = NamedIn(L, of, S)
    <2> DEFINE c == [i \in DOMAIN ss |-> CountIn(ss[i], S)]
               A == {i \in 1..N : L[i].name = of /\ L[i] \in S}
    <2>1. \A i \in 1..N : CountIn(ss[i], S) = IF i \in A THEN 1 ELSE 0
      BY <1>1, SmallLists
    <2>2. CountIn(FlattenSeq(ss), S) = SumFunction(c)
      <3> HIDE DEF ss
      <3> QED
        BY <1>2, <1>3, FlattenCounts
    <2> HIDE DEF ss
    <2>3. c \in [1..N -> Nat] /\ \A i \in 1..N : c[i] = IF i \in A THEN 1 ELSE 0
      BY <1>2, <2>1
    <2>4. IsFiniteSet(1..N) /\ A \subseteq 1..N
      <3>1. 1 \in Nat /\ 1..N \subseteq 1..N
        OBVIOUS
      <3> QED
        BY <3>1, PartOfInterval
    <2> HIDE DEF c, A
    <2>5. SumFunction(c) = Cardinality(A)
      BY <2>3, <2>4, SumOnes
    <2> QED
      BY <1>1, <2>2, <2>5 DEF A, NamedIn
  <1> HIDE DEF ss
  <1> QED
    BY <1>2, <1>3, <1>4, <1>5, <1>6, <1>7, FlattenCounts

\* How many of N rows are left after m pages.
Unread(N, m, size) == IF N > m * size THEN N - m * size ELSE 0

LEMMA UnreadIs ==
    ASSUME NEW N \in Nat, NEW m \in Nat, NEW size \in Nat
    PROVE  /\ Unread(N, m, size) \in Nat /\ Unread(N, m, size) <= N
           /\ Unread(N, 0, size) = N
           /\ Unread(N, m + 1, size) <= Unread(N, m, size)
           /\ \A M \in Nat : N <= M =>
                 /\ Unread(N, m, size) <= Unread(M, m, size)
                 /\ Unread(M, m, size) - Unread(N, m, size) <= M - N
  <1>1. m * size \in Nat /\ (m + 1) * size \in Nat /\ m * size <= (m + 1) * size /\ 0 * size = 0
    <2>1. (m + 1) * size = m * size + size /\ m * size \in Nat
      OBVIOUS
    <2> QED
      BY <2>1
  <1> DEFINE a == m * size
             b == (m + 1) * size
  <1>2. a \in Nat /\ b \in Nat /\ a <= b
    BY <1>1
  <1>3. Unread(N, 0, size) = N
    BY <1>1 DEF Unread
  <1>4. /\ \A M \in Nat : Unread(M, m, size) = IF M > a THEN M - a ELSE 0
        /\ \A M \in Nat : Unread(M, m + 1, size) = IF M > b THEN M - b ELSE 0
    BY DEF Unread
  <1> HIDE DEF a, b
  <1> QED
    BY <1>2, <1>3, <1>4

\* A page is that part of the rows, the newest first.
IsPage(part, rows, hi, lo) == \A k \in 1..(hi - lo) : part[k] = rows[hi + 1 - k]

LEMMA PageIs ==
    ASSUME NEW rows, IsList(rows), NEW p \in Nat \ {0}, NEW size \in Nat,
           NEW hi, hi = Unread(Len(rows), p - 1, size), NEW lo, lo = Unread(Len(rows), p, size)
    PROVE  /\ hi - lo \in Nat /\ Len(PageOf(rows, p, size)) = hi - lo /\ IsList(PageOf(rows, p, size))
           /\ IsPage(PageOf(rows, p, size), rows, hi, lo)
  <1> DEFINE N == Len(rows)
             q == (p - 1) * size
             t == p * size
             last == IF t < N THEN t ELSE N
             back == Reverse(rows)
  <1>1. N \in Nat /\ rows \in Seq(ToSet(rows)) /\ DOMAIN rows = 1..N
    BY ListLen DEF IsList
  <1>2. q \in Nat /\ t \in Nat /\ t = q + size
    <2>1. p - 1 \in Nat
      OBVIOUS
    <2> QED
      BY <2>1
  <1>3. hi = (IF N > q THEN N - q ELSE 0) /\ lo = (IF N > t THEN N - t ELSE 0)
    BY DEF Unread
  <1>4. back \in Seq(ToSet(rows)) /\ Len(back) = N /\ \A j \in 1..N : back[j] = rows[N - j + 1]
    <2>1. back = [i \in 1..N |-> rows[(N - i) + 1]]
      BY DEF Reverse
    <2>2. \A i \in 1..N : rows[(N - i) + 1] \in ToSet(rows)
      BY <1>1 DEF ToSet
    <2> HIDE DEF N, back
    <2> QED
      BY <1>1, <2>1, <2>2
  <1>5. PageOf(rows, p, size) = SubSeq(back, q + 1, last)
    BY DEF PageOf
  <1> HIDE DEF N, q, t, back
  <1> DEFINE cut == SubSeq(back, q + 1, last)
  <1>6. cut = [k \in 1..(last - q) |-> back[q + k]]
    <2> DEFINE f == q + 1
    <2>1. f \in Nat \ {0} /\ last \in Nat /\ last <= Len(back)
      BY <1>1, <1>2, <1>4
    <2> HIDE DEF last
    <2>2. last - f + 1 = last - q /\ \A k \in 1..(last - q) : k + f - 1 = q + k
      BY <1>1, <1>2, <2>1
    <2> HIDE DEF f
    <2>3. SubSeq(back, f, last) = [k \in 1..(last - f + 1) |-> back[k + f - 1]]
      BY <1>4, <2>1
    <2> QED
      BY <2>2, <2>3 DEF f
  <1>7. CASE N > q
    <2>1. last - q = hi - lo /\ hi - lo \in Nat
      BY <1>1, <1>2, <1>3, <1>7
    <2>2. ASSUME NEW k \in 1..(hi - lo) PROVE back[q + k] = rows[hi + 1 - k]
      <3>1. q + k \in 1..N /\ N - (q + k) + 1 = hi + 1 - k
        BY <1>1, <1>2, <1>3, <1>7, <2>1
      <3> QED
        BY <1>4, <3>1
    <2>3. cut = [k \in 1..(hi - lo) |-> cut[k]] /\ \A k \in 1..(hi - lo) : cut[k] = rows[hi + 1 - k]
      BY <1>6, <2>1, <2>2
    <2> HIDE DEF cut
    <2>4. Len(cut) = hi - lo
      BY <2>1, <2>3
    <2>5. IsList(cut)
      BY <2>1, <2>3, <2>4, ListIs
    <2> QED
      BY <1>5, <2>1, <2>3, <2>4, <2>5 DEF cut, IsPage
  <1>8. CASE ~(N > q)
    <2>1. hi = 0 /\ lo = 0 /\ 1..(last - q) = {}
      BY <1>1, <1>2, <1>3, <1>8
    <2>2. cut = <<>>
      <3>1. cut = [k \in {} |-> back[q + k]]
        BY <1>6, <2>1, Zenon
      <3> QED
        BY <3>1
    <2> HIDE DEF cut
    <2> QED
      <3>1. PageOf(rows, p, size) = <<>>
        BY <1>5, <2>2 DEF cut
      <3>2. hi - lo = 0 /\ Len(<<>>) = 0 /\ IsList(<<>>) /\ 1..0 = {}
        BY <2>1, SmallLists
      <3> QED
        BY <3>1, <3>2 DEF IsPage
  <1> QED
    BY <1>7, <1>8

LEMMA PageCounts ==
    ASSUME NEW rows, IsList(rows), NEW p \in Nat \ {0}, NEW size \in Nat,
           NEW hi, hi = Unread(Len(rows), p - 1, size), NEW lo, lo = Unread(Len(rows), p, size)
    PROVE  /\ hi \in Nat /\ lo \in Nat /\ lo <= hi /\ hi <= Len(rows)
           /\ IsList(PageOf(rows, p, size)) /\ Len(PageOf(rows, p, size)) = hi - lo
           /\ ToSet(PageOf(rows, p, size)) \subseteq ToSet(rows)
           /\ \A S : CountIn(PageOf(rows, p, size), S) = CountUpto(rows, S, hi) - CountUpto(rows, S, lo)
  <1> DEFINE P == PageOf(rows, p, size)
  <1>1. PICK N \in Nat : N = Len(rows) /\ DOMAIN rows = 1..N
    BY ListLen
  <1>2. hi \in Nat /\ lo \in Nat /\ lo <= hi /\ hi <= N
    <2>1. p - 1 \in Nat /\ p \in Nat /\ p = (p - 1) + 1
      OBVIOUS
    <2> QED
      BY <1>1, <2>1, UnreadIs
  <1>3. /\ hi - lo \in Nat /\ Len(P) = hi - lo /\ IsList(P)
        /\ \A k \in 1..(hi - lo) : P[k] = rows[hi + 1 - k]
    <2> HIDE DEF P
    <2>1. p \in Nat \ {0} /\ size \in Nat
      OBVIOUS
    <2>2. P = PageOf(rows, p, size)
      BY DEF P
    <2>3. hi - lo \in Nat /\ Len(P) = hi - lo /\ IsList(P) /\ IsPage(P, rows, hi, lo)
      BY <2>1, <2>2, PageIs
    <2> QED
      BY <2>3 DEF IsPage
  <1> HIDE DEF P
  <1>4. DOMAIN P = 1..(hi - lo)
    BY <1>3, ListLen
  <1>5. ToSet(P) \subseteq ToSet(rows)
    <2>1. \A k \in 1..(hi - lo) : hi + 1 - k \in 1..N
      BY <1>2
    <2> QED
      BY <1>1, <1>3, <1>4, <2>1 DEF ToSet
  <1>6. ASSUME NEW S PROVE CountIn(P, S) = CountUpto(rows, S, hi) - CountUpto(rows, S, lo)
    <2> DEFINE A == {k \in 1..(hi - lo) : P[k] \in S}
               B == {k \in (lo + 1)..hi : rows[k] \in S}
               f == [k \in A |-> hi + 1 - k]
    <2>1. IsFiniteSet(A)
      <3>1. A \subseteq 1..(hi - lo) /\ 1 \in Nat
        OBVIOUS
      <3> HIDE DEF A
      <3> QED
        BY <1>3, <3>1, PartOfInterval
    <2>2. f \in [A -> B]
      <3>1. \A k \in A : hi + 1 - k \in B
        <4> TAKE k \in A
        <4>1. k \in 1..(hi - lo) /\ hi + 1 - k \in (lo + 1)..hi
          BY <1>2
        <4>2. rows[hi + 1 - k] \in S
          BY <1>3, <4>1
        <4> QED
          BY <4>1, <4>2
      <3> QED
        BY <3>1
    <2>3. \A j, k \in A : f[j] = f[k] => j = k
      BY <1>2
    <2>4. \A n \in B : \E k \in A : f[k] = n
      <3> TAKE n \in B
      <3>1. hi + 1 - n \in 1..(hi - lo) /\ hi + 1 - (hi + 1 - n) = n
        BY <1>2
      <3>2. P[hi + 1 - n] = rows[n]
        BY <1>3, <3>1
      <3>3. hi + 1 - n \in A
        BY <3>1, <3>2
      <3> QED
        BY <3>1, <3>3
    <2> HIDE DEF f, A, B
    <2>5. Cardinality(A) = Cardinality(B)
      BY <2>1, <2>2, <2>3, <2>4, SameSize
    <2>6. /\ CountUpto(rows, S, hi) = CountUpto(rows, S, lo) + Cardinality(B)
          /\ CountUpto(rows, S, lo) \in Nat /\ Cardinality(B) \in Nat
      <3>1. /\ CountUpto(rows, S, hi) = CountUpto(rows, S, lo) + CountBetween(rows, S, lo, hi)
            /\ CountUpto(rows, S, lo) \in Nat /\ CountBetween(rows, S, lo, hi) \in Nat
        BY <1>2, CountGrows
      <3> QED
        BY <3>1 DEF B, CountBetween
    <2>7. CountIn(P, S) = Cardinality(A)
      BY <1>4 DEF CountIn, A
    <2> QED
      BY <2>5, <2>6, <2>7
  <1> QED
    BY <1>1, <1>2, <1>3, <1>5, <1>6 DEF P

LEMMA ConcatStarts ==
    ASSUME NEW s, IsList(s), NEW t, IsList(t)
    PROVE  Starts(s, s \o t)
  <1> DEFINE U == ToSet(s) \cup ToSet(t)
  <1>1. s \in Seq(U) /\ t \in Seq(U)
    BY DEF IsList
  <1> HIDE DEF U
  <1>2. Len(s) \in Nat /\ Len(t) \in Nat /\ \A i \in 1..Len(s) : (s \o t)[i] = s[i]
    BY <1>1
  <1>3. IsList(s \o t) /\ Len(s \o t) = Len(s) + Len(t)
    BY ListConcat
  <1> QED
    BY <1>2, <1>3 DEF Starts

\* The events of a name that had been logged first are still the first.
LEMMA NamedStarts ==
    ASSUME NEW P, NEW L, Starts(P, L), NEW of
    PROVE  Starts(Named(P, of), Named(L, of))
  <1> DEFINE c(Q) == [i \in DOMAIN Q |-> IF Q[i].name = of THEN <<Q[i]>> ELSE <<>>]
  <1>1. ASSUME NEW Q, IsList(Q)
        PROVE  IsList(c(Q)) /\ Len(c(Q)) = Len(Q) /\ DOMAIN c(Q) = DOMAIN Q
               /\ \A i \in DOMAIN Q : IsList(c(Q)[i])
    <2>1. PICK N \in Nat : N = Len(Q) /\ DOMAIN Q = 1..N
      BY <1>1, ListLen
    <2>2. \A i \in DOMAIN Q : IsList(c(Q)[i])
      BY SmallLists
    <2>3. c(Q) = [i \in 1..N |-> c(Q)[i]] /\ DOMAIN c(Q) = 1..N
      BY <2>1
    <2> HIDE DEF c
    <2>4. Len(c(Q)) = N
      BY <2>3
    <2> QED
      BY <2>1, <2>2, <2>3, <2>4, ListIs
  <1>2. IsList(P) /\ IsList(L) /\ Len(P) \in Nat /\ Len(L) \in Nat /\ Len(P) <= Len(L)
        /\ DOMAIN P = 1..Len(P) /\ DOMAIN L = 1..Len(L)
    BY ListLen DEF Starts
  <1>3. \A i \in 1..Len(P) : c(P)[i] = c(L)[i]
    BY <1>2 DEF Starts
  <1>4. Named(P, of) = FlattenSeq(c(P)) /\ Named(L, of) = FlattenSeq(c(L))
    BY DEF Named
  <1> HIDE DEF c
  <1>5. Starts(c(P), c(L))
    BY <1>1, <1>2, <1>3 DEF Starts
  <1> DEFINE M == Len(P)
             N == Len(L)
  <1>6. PICK f : /\ f[N] = FlattenSeq(c(L)) /\ f[M] = FlattenSeq(c(P))
                 /\ \A n \in 1..N : f[n] = f[n - 1] \o c(L)[n]
                 /\ \A n \in 0..N : IsList(f[n])
    <2>1. IsList(c(L)) /\ Len(c(L)) = N /\ \A i \in DOMAIN c(L) : IsList(c(L)[i])
      BY <1>1, <1>2
    <2>2. Len(c(P)) = M
      BY <1>1, <1>2
    <2>3. PICK f : /\ f[0] = <<>> /\ f[Len(c(L))] = FlattenSeq(c(L))
                   /\ \A n \in 1..Len(c(L)) : f[n] = f[n - 1] \o c(L)[n]
                   /\ \A n \in 0..Len(c(L)) : IsList(f[n])
                   /\ \A tt : Starts(tt, c(L)) => FlattenSeq(tt) = f[Len(tt)]
      BY <2>1, FlattenSteps
    <2> QED
      BY <1>5, <2>1, <2>2, <2>3
  <1>7. M \in Nat /\ N \in Nat /\ M <= N
    BY <1>2
  <1> HIDE DEF M, N
  <1> DEFINE I == {n \in 0..(N - M) : Starts(f[M], f[M + n])}
  <1>8. 0 \in I
    <2>1. M + 0 = M /\ M \in 0..N /\ 0 \in 0..(N - M)
      BY <1>7
    <2> QED
      BY <1>6, <2>1, StartsIs
  <1>9. \A n \in 1..(N - M) : n - 1 \in I => n \in I
    <2> TAKE n \in 1..(N - M)
    <2> HAVE n - 1 \in I
    <2>1. M + n \in 1..N /\ M + (n - 1) = (M + n) - 1 /\ (M + n) - 1 \in 0..N /\ n \in 0..(N - M)
          /\ M + n \in DOMAIN L
      BY <1>2, <1>7 DEF N
    <2>2. f[M + n] = f[(M + n) - 1] \o c(L)[M + n]
      BY <1>6, <2>1
    <2>3. IsList(f[(M + n) - 1]) /\ IsList(c(L)[M + n])
      BY <1>1, <1>2, <1>6, <2>1
    <2>4. Starts(f[(M + n) - 1], f[M + n])
      BY <2>2, <2>3, ConcatStarts
    <2>5. Starts(f[M], f[(M + n) - 1])
      BY <2>1
    <2>6. Starts(f[M], f[M + n])
      BY <2>4, <2>5, StartsIs
    <2> QED
      BY <2>1, <2>6
  <1> HIDE DEF I
  <1>10. \A n \in 0..(N - M) : n \in I
    <2>1. N - M \in Nat
      BY <1>7
    <2> QED
      BY <1>8, <1>9, <2>1, StepByStep
  <1>11. Starts(f[M], f[N])
    <2>1. N - M \in 0..(N - M) /\ M + (N - M) = N
      BY <1>7
    <2> QED
      BY <1>10, <2>1 DEF I
  <1> QED
    BY <1>4, <1>6, <1>11

\* How many events of a name there are, and how many more there are later.
LEMMA NamedGrows ==
    ASSUME NEW P, NEW L, Starts(P, L), NEW of
    PROVE  /\ Len(Named(P, of)) \in Nat /\ Len(Named(L, of)) \in Nat
           /\ Len(Named(P, of)) <= Len(Named(L, of))
           /\ \A S : /\ NamedIn(P, of, S) \in Nat /\ NamedIn(L, of, S) \in Nat
                     /\ NamedIn(P, of, S) = CountUpto(Named(P, of), S, Len(Named(P, of)))
                     /\ NamedIn(P, of, S) <= NamedIn(L, of, S)
                     /\ NamedIn(L, of, S) - NamedIn(P, of, S) <= Len(Named(L, of)) - Len(Named(P, of))
                     /\ \A a \in 0..Len(Named(P, of)) :
                           CountUpto(Named(P, of), S, a) = CountUpto(Named(L, of), S, a)
  <1> DEFINE p == Named(P, of)
             l == Named(L, of)
  <1>1. Starts(p, l) /\ IsList(p) /\ IsList(l)
    BY NamedStarts DEF Starts
  <1>2. /\ \A S : CountIn(p, S) = NamedIn(P, of, S)
        /\ \A S : CountIn(l, S) = NamedIn(L, of, S)
    <2>1. IsList(P) /\ IsList(L)
      BY DEF Starts
    <2> QED
      BY <2>1, NamedIs
  <1> HIDE DEF p, l
  <1>3. Len(p) \in Nat /\ Len(l) \in Nat /\ Len(p) <= Len(l) /\ \A i \in 1..Len(p) : p[i] = l[i]
    BY <1>1, ListLen DEF Starts
  <1>4. ASSUME NEW S, NEW a \in 0..Len(p) PROVE CountUpto(p, S, a) = CountUpto(l, S, a)
    <2>1. \A k \in 1..a : p[k] = l[k]
      BY <1>3
    <2>2. {k \in 1..a : p[k] \in S} = {k \in 1..a : l[k] \in S}
      BY <2>1
    <2> QED
      BY <2>2 DEF CountUpto
  <1>5. ASSUME NEW S
        PROVE  /\ NamedIn(P, of, S) \in Nat /\ NamedIn(L, of, S) \in Nat
               /\ NamedIn(P, of, S) = CountUpto(p, S, Len(p))
               /\ NamedIn(P, of, S) <= NamedIn(L, of, S)
               /\ NamedIn(L, of, S) - NamedIn(P, of, S) <= Len(l) - Len(p)
    <2>1. CountIn(p, S) = CountUpto(p, S, Len(p)) /\ CountIn(l, S) = CountUpto(l, S, Len(l))
      BY <1>1, CountIsNat
    <2>2. CountUpto(p, S, Len(p)) = CountUpto(l, S, Len(p))
      BY <1>3, <1>4
    <2>3. /\ CountUpto(l, S, Len(p)) \in Nat /\ CountUpto(l, S, Len(l)) \in Nat
          /\ CountBetween(l, S, Len(p), Len(l)) \in Nat
          /\ CountUpto(l, S, Len(l)) = CountUpto(l, S, Len(p)) + CountBetween(l, S, Len(p), Len(l))
          /\ CountBetween(l, S, Len(p), Len(l)) <= Len(l) - Len(p)
      BY <1>3, CountGrows
    <2> QED
      BY <1>2, <2>1, <2>2, <2>3
  <1> QED
    BY <1>3, <1>4, <1>5 DEF p, l

LEMMA NamedSame ==
    ASSUME NEW P, NEW L, Starts(P, L), NEW of, NEW S, NEW a \in 0..Len(Named(P, of))
    PROVE  CountUpto(Named(P, of), S, a) = CountUpto(Named(L, of), S, a)
BY NamedGrows

-----------------------------------------------------------------------------
(* What pages bring of one website: it had logged B when the report was    *)
(* asked for, and P when the last of m pages was read.                     *)

LeftOf(P, of, m) == Unread(Len(Named(P, of)), m, PageSize)
Least(a, b) == IF a < b THEN a ELSE b

Fewest(B, P, of, S, m) ==
    LET b == Len(Named(B, of))
    IN CountUpto(Named(P, of), S, b) - CountUpto(Named(P, of), S, Least(LeftOf(P, of, m), b))
Most(B, P, of, S, m) ==
    LET n == Len(Named(P, of))
    IN CountUpto(Named(P, of), S, n) - CountUpto(Named(P, of), S, LeftOf(P, of, m))
            + (n - Len(Named(B, of)))

LEMMA PageStep ==
    ASSUME NEW B, NEW P, NEW Q, Starts(B, P), Starts(P, Q), NEW of, NEW S, NEW m \in Nat
    PROVE  LET new == CountIn(PageOf(Named(Q, of), m + 1, PageSize), S) IN
           /\ new \in Nat
           /\ Fewest(B, P, of, S, m) \in Nat /\ Fewest(B, Q, of, S, m + 1) \in Nat
           /\ Most(B, P, of, S, m) \in Nat /\ Most(B, Q, of, S, m + 1) \in Nat
           /\ Fewest(B, Q, of, S, m + 1) <= Fewest(B, P, of, S, m) + new
           /\ Most(B, P, of, S, m) + new <= Most(B, Q, of, S, m + 1)
  <1> DEFINE b == Len(Named(B, of))
             n == Len(Named(P, of))
             k == Len(Named(Q, of))
             C(a) == CountUpto(Named(Q, of), S, a)
             lo == LeftOf(P, of, m)
             to == LeftOf(Q, of, m)
             down == LeftOf(Q, of, m + 1)
             new == CountIn(PageOf(Named(Q, of), m + 1, PageSize), S)
  <1>1. b \in Nat /\ n \in Nat /\ k \in Nat /\ b <= n /\ n <= k
    BY NamedGrows
  <1>2. PageSize \in Nat
    BY UmamiAssumption
  <1>3. \A a \in 0..n : CountUpto(Named(P, of), S, a) = C(a)
    BY NamedSame
  <1>4. /\ lo \in Nat /\ lo <= n /\ to \in Nat /\ to <= k /\ down \in Nat /\ down <= to
        /\ lo <= to /\ to - lo <= k - n
    <2>1. /\ lo = Unread(n, m, PageSize) /\ to = Unread(k, m, PageSize)
          /\ down = Unread(k, m + 1, PageSize)
      BY DEF LeftOf
    <2> HIDE DEF lo, to, down, n, k
    <2> QED
      <3>1. lo \in Nat /\ lo <= n /\ \A M \in Nat : n <= M =>
                /\ Unread(n, m, PageSize) <= Unread(M, m, PageSize)
                /\ Unread(M, m, PageSize) - Unread(n, m, PageSize) <= M - n
        BY <1>1, <1>2, <2>1, UnreadIs
      <3>2. to \in Nat /\ to <= k /\ down <= to
        BY <1>1, <1>2, <2>1, UnreadIs
      <3>3. down \in Nat
        <4>1. m + 1 \in Nat
          OBVIOUS
        <4> QED
          BY <1>1, <1>2, <2>1, <4>1, UnreadIs
      <3> QED
        BY <1>1, <2>1, <3>1, <3>2, <3>3
  <1>5. new = C(to) - C(down)
    <2>1. IsList(Named(Q, of)) /\ m + 1 \in Nat \ {0} /\ (m + 1) - 1 = m
      BY NamedIs DEF Starts
    <2>2. to = Unread(Len(Named(Q, of)), (m + 1) - 1, PageSize)
          /\ down = Unread(Len(Named(Q, of)), m + 1, PageSize)
      BY <2>1 DEF LeftOf
    <2> HIDE DEF to, down
    <2> QED
      BY <1>2, <2>1, <2>2, PageCounts
  <1> HIDE DEF b, n, k, lo, to, down, new
  <1>6. ASSUME NEW x \in Nat, NEW y \in Nat, x <= y
        PROVE  C(x) \in Nat /\ C(y) \in Nat /\ C(x) <= C(y) /\ C(y) - C(x) <= y - x
    <2>1. /\ C(x) \in Nat /\ C(y) \in Nat /\ CountBetween(Named(Q, of), S, x, y) \in Nat
          /\ C(y) = C(x) + CountBetween(Named(Q, of), S, x, y)
          /\ CountBetween(Named(Q, of), S, x, y) <= y - x
      BY <1>6, CountGrows
    <2> HIDE DEF C
    <2> QED
      BY <2>1
  <1>7. /\ Fewest(B, P, of, S, m) = C(b) - C(Least(lo, b))
        /\ Most(B, P, of, S, m) = C(n) - C(lo) + (n - b)
    <2>1. b \in 0..n /\ Least(lo, b) \in 0..n /\ n \in 0..n /\ lo \in 0..n
      BY <1>1, <1>4 DEF Least
    <2> QED
      BY <1>3, <2>1 DEF Fewest, Most, b, n, lo
  <1>8. /\ Fewest(B, Q, of, S, m + 1) = C(b) - C(Least(down, b))
        /\ Most(B, Q, of, S, m + 1) = C(k) - C(down) + (k - b)
    BY DEF Fewest, Most, b, k, down
  <1> HIDE DEF C
  <1>9. /\ C(Least(lo, b)) <= C(b) /\ C(Least(down, b)) <= C(b) /\ C(lo) <= C(n) /\ C(down) <= C(k)
        /\ C(down) <= C(to) /\ C(lo) <= C(to) /\ C(to) - C(lo) <= to - lo /\ C(n) <= C(k)
        /\ C(Least(lo, b)) <= C(lo)
        /\ {C(b), C(Least(lo, b)), C(Least(down, b)), C(lo), C(n), C(down), C(k), C(to)} \subseteq Nat
    <2>1. Least(lo, b) \in Nat /\ Least(down, b) \in Nat /\ Least(lo, b) <= b /\ Least(down, b) <= b
          /\ Least(lo, b) <= lo
      BY <1>1, <1>4 DEF Least
    <2>2. C(Least(lo, b)) <= C(b) /\ C(Least(down, b)) <= C(b) /\ C(lo) <= C(n) /\ C(down) <= C(k)
      BY <1>1, <1>4, <1>6, <2>1
    <2>3. C(down) <= C(to) /\ C(lo) <= C(to) /\ C(to) - C(lo) <= to - lo /\ C(n) <= C(k)
      BY <1>1, <1>4, <1>6
    <2>4. C(Least(lo, b)) <= C(lo)
      BY <1>1, <1>4, <1>6, <2>1
    <2>5. C(b) \in Nat /\ C(Least(lo, b)) \in Nat /\ C(Least(down, b)) \in Nat /\ C(lo) \in Nat
      BY <1>1, <1>4, <1>6, <2>1
    <2>6. C(n) \in Nat /\ C(down) \in Nat /\ C(k) \in Nat /\ C(to) \in Nat
      BY <1>1, <1>4, <1>6
    <2> QED
      BY <2>2, <2>3, <2>4, <2>5, <2>6
  <1>10. down <= b => Least(down, b) = down
    BY <1>1, <1>4 DEF Least
  <1>11. ~(down <= b) => Least(down, b) = b
    BY <1>1, <1>4 DEF Least
  <1> DEFINE cb == C(b)
             c1 == C(Least(lo, b))
             c2 == C(Least(down, b))
             cl == C(lo)
             cn == C(n)
             cd == C(down)
             ck == C(k)
             ct == C(to)
  <1>12. /\ cb \in Nat /\ c1 \in Nat /\ c2 \in Nat /\ cl \in Nat /\ cn \in Nat /\ cd \in Nat
         /\ ck \in Nat /\ ct \in Nat
         /\ c1 <= cb /\ c2 <= cb /\ cl <= cn /\ cd <= ck /\ cd <= ct /\ cl <= ct /\ ct - cl <= to - lo
         /\ cn <= ck /\ c1 <= cl /\ (c2 = cd \/ c2 = cb)
    <2>1. c2 = cd \/ c2 = cb
      BY <1>10, <1>11
    <2> QED
      BY <1>9, <2>1
  <1>13. /\ new = ct - cd
         /\ Fewest(B, P, of, S, m) = cb - c1 /\ Most(B, P, of, S, m) = cn - cl + (n - b)
         /\ Fewest(B, Q, of, S, m + 1) = cb - c2 /\ Most(B, Q, of, S, m + 1) = ck - cd + (k - b)
    BY <1>5, <1>7, <1>8 DEF C
  <1> HIDE DEF cb, c1, c2, cl, cn, cd, ck, ct
  <1>14. /\ new \in Nat
         /\ Fewest(B, P, of, S, m) \in Nat /\ Fewest(B, Q, of, S, m + 1) \in Nat
         /\ Most(B, P, of, S, m) \in Nat /\ Most(B, Q, of, S, m + 1) \in Nat
    BY <1>1, <1>12, <1>13
  <1>15. cb - c2 <= (cb - c1) + (ct - cd)
    BY <1>12
  <1>16. (cn - cl + (n - b)) + (ct - cd) <= ck - cd + (k - b)
    BY <1>1, <1>4, <1>12
  <1> QED
    BY <1>13, <1>14, <1>15, <1>16 DEF new

\* Before the first page nothing has been read.
LEMMA NoPages ==
    ASSUME NEW B, IsList(B), NEW of, NEW S
    PROVE  Fewest(B, B, of, S, 0) = 0 /\ Most(B, B, of, S, 0) = 0
  <1> DEFINE b == Len(Named(B, of))
  <1>1. Starts(B, B)
    BY StartsIs
  <1>2. b \in Nat /\ CountUpto(Named(B, of), S, b) \in Nat
    BY <1>1, NamedGrows
  <1>3. LeftOf(B, of, 0) = b
    BY <1>2, UnreadIs, UmamiAssumption DEF LeftOf
  <1> HIDE DEF b
  <1>4. Least(b, b) = b
    BY <1>2 DEF Least
  <1>5. Fewest(B, B, of, S, 0) = CountUpto(Named(B, of), S, b) - CountUpto(Named(B, of), S, Least(b, b))
        /\ Most(B, B, of, S, 0) = CountUpto(Named(B, of), S, b) - CountUpto(Named(B, of), S, b) + (b - b)
    BY <1>3 DEF Fewest, Most, b
  <1> QED
    BY <1>2, <1>4, <1>5

\* What has been read in the end: all of it, but for what arrived meanwhile.
LEMMA PagesEnd ==
    ASSUME NEW B, NEW P, Starts(B, P), NEW of, NEW S, NEW m \in Nat
    PROVE  LET late == Len(Named(P, of)) - Len(Named(B, of)) IN
           /\ late \in Nat /\ LeftOf(P, of, m) \in Nat /\ Len(Named(B, of)) \in Nat
           /\ Most(B, P, of, S, m) <= NamedIn(P, of, S) + late
           /\ LeftOf(P, of, m) = 0 => Fewest(B, P, of, S, m) >= NamedIn(B, of, S)
           /\ m * PageSize >= Len(Named(B, of)) => NamedIn(B, of, S) <= Fewest(B, P, of, S, m) + late
  <1> DEFINE b == Len(Named(B, of))
             n == Len(Named(P, of))
             lo == LeftOf(P, of, m)
             C(a) == CountUpto(Named(P, of), S, a)
  <1>1. b \in Nat /\ n \in Nat /\ b <= n
    BY NamedGrows
  <1>2. PageSize \in Nat /\ m * PageSize \in Nat
    <2>1. PageSize \in Nat
      BY UmamiAssumption
    <2> QED
      BY <2>1
  <1>3. lo \in Nat /\ lo <= n
    BY <1>1, <1>2, UnreadIs DEF LeftOf
  <1>4. m * PageSize >= b => lo <= n - b
    <2> DEFINE t == m * PageSize
    <2>1. lo = IF n > t THEN n - t ELSE 0
      BY DEF LeftOf, Unread
    <2> HIDE DEF t, lo
    <2>2. t \in Nat
      BY <1>2 DEF t
    <2>3. t >= b => lo <= n - b
      BY <1>1, <2>1, <2>2
    <2> QED
      BY <2>3 DEF t
  <1>5. NamedIn(B, of, S) = C(b) /\ NamedIn(P, of, S) = C(n)
    <2>1. Starts(P, P)
      BY StartsIs DEF Starts
    <2>2. NamedIn(P, of, S) = C(n)
      BY <2>1, NamedGrows
    <2>3. NamedIn(B, of, S) = CountUpto(Named(B, of), S, b)
      BY NamedGrows
    <2>4. b \in 0..b /\ \A a \in 0..b : CountUpto(Named(B, of), S, a) = C(a)
      BY <1>1, NamedSame
    <2> QED
      BY <2>2, <2>3, <2>4
  <1>6. Fewest(B, P, of, S, m) = C(b) - C(Least(lo, b)) /\ Most(B, P, of, S, m) = C(n) - C(lo) + (n - b)
    BY DEF Fewest, Most
  <1> HIDE DEF b, n, lo
  <1>7. ASSUME NEW x \in Nat PROVE C(x) \in Nat /\ C(x) <= x
    <2> DEFINE A == {k \in 1..x : Named(P, of)[k] \in S}
    <2>1. A \subseteq 1..x
      OBVIOUS
    <2>2. IsFiniteSet(1..x) /\ Cardinality(1..x) = x
      <3>1. 1 \in Int /\ x \in Int
        OBVIOUS
      <3>2. Cardinality(1..x) = (IF 1 > x THEN 0 ELSE x - 1 + 1) /\ IsFiniteSet(1..x)
        BY <3>1, FS_Interval
      <3> QED
        BY <3>2
    <2> HIDE DEF A
    <2>3. Cardinality(A) \in Nat /\ Cardinality(A) <= Cardinality(1..x)
      BY <2>1, <2>2, FS_Subset, FS_CardinalityType
    <2> QED
      BY <2>2, <2>3 DEF A, CountUpto
  <1> HIDE DEF C
  <1>8. Least(lo, b) \in Nat /\ Least(lo, b) <= lo
    BY <1>1, <1>3 DEF Least
  <1>9. C(b) \in Nat /\ C(n) \in Nat /\ C(lo) \in Nat /\ C(Least(lo, b)) \in Nat
        /\ C(Least(lo, b)) <= Least(lo, b)
    BY <1>1, <1>3, <1>7, <1>8
  <1>10. Most(B, P, of, S, m) <= NamedIn(P, of, S) + (n - b)
    BY <1>1, <1>5, <1>6, <1>9 DEF C
  <1>11. lo = 0 => Fewest(B, P, of, S, m) >= NamedIn(B, of, S)
    <2>1. lo = 0 => C(Least(lo, b)) = 0
      BY <1>8, <1>9
    <2> QED
      BY <1>5, <1>6, <1>9, <2>1 DEF C
  <1>12. m * PageSize >= b => NamedIn(B, of, S) <= Fewest(B, P, of, S, m) + (n - b)
    <2>1. m * PageSize >= b => C(Least(lo, b)) <= n - b
      BY <1>1, <1>3, <1>4, <1>8, <1>9
    <2>2. Fewest(B, P, of, S, m) = C(b) - C(Least(lo, b)) /\ NamedIn(B, of, S) = C(b)
      BY <1>5, <1>6 DEF C
    <2> QED
      BY <1>1, <1>9, <2>1, <2>2
  <1> QED
    BY <1>1, <1>3, <1>10, <1>11, <1>12 DEF b, n, lo

-----------------------------------------------------------------------------
(* What an aggregator gathers from the websites. *)

\* The order that SetToSeq gives a set.
LEMMA SetInOrder ==
    ASSUME NEW S, IsFiniteSet(S)
    PROVE  /\ Cardinality(S) \in Nat /\ SetToSeq(S) \in Bijection(1..Cardinality(S), S)
           /\ IsList(SetToSeq(S)) /\ Len(SetToSeq(S)) = Cardinality(S)
           /\ DOMAIN SetToSeq(S) = 1..Cardinality(S) /\ ToSet(SetToSeq(S)) = S
  <1> DEFINE s == SetToSeq(S)
             N == Cardinality(S)
  <1>1. N \in Nat /\ ExistsBijection(1..N, S)
    BY FS_CardinalityType
  <1>2. \E f \in [1..N -> S] : IsInjective(f)
    <2>1. PICK f : f \in Bijection(1..N, S)
      BY <1>1 DEF ExistsBijection
    <2> QED
      BY <2>1 DEF Bijection, Injection
  <1>3. s \in [1..N -> S] /\ IsInjective(s)
    BY <1>2 DEF SetToSeq
  <1> HIDE DEF s, N
  <1>4. IsFiniteSet(1..N) /\ Cardinality(1..N) = N
    <2>1. 1 \in Int /\ N \in Int
      BY <1>1
    <2>2. Cardinality(1..N) = (IF 1 > N THEN 0 ELSE N - 1 + 1) /\ IsFiniteSet(1..N)
      BY <2>1, FS_Interval
    <2> QED
      BY <1>1, <2>2
  <1>5. s \in Injection(1..N, S)
    BY <1>3 DEF Injection
  <1>6. s \in Surjection(1..N, S)
    BY <1>4, <1>5, FS_Injection DEF N
  <1>7. s \in Bijection(1..N, S)
    BY <1>5, <1>6 DEF Bijection
  <1>8. s = [k \in 1..N |-> s[k]] /\ DOMAIN s = 1..N
    BY <1>3
  <1>9. Len(s) = N
    BY <1>1, <1>8
  <1>10. IsList(s)
    BY <1>1, <1>8, <1>9, ListIs
  <1>11. ToSet(s) = S
    <2>1. \A x \in S : \E k \in 1..N : s[k] = x
      BY <1>6 DEF Surjection
    <2> QED
      BY <1>3, <2>1 DEF ToSet
  <1> QED
    BY <1>1, <1>7, <1>8, <1>9, <1>10, <1>11 DEF s, N

LEMMA SetOfOne == \A x : SetToSeq({x}) = <<x>>
  <1> TAKE x
  <1>1. IsFiniteSet({x}) /\ Cardinality({x}) = 1
    BY FS_Singleton
  <1>2. IsList(SetToSeq({x})) /\ Len(SetToSeq({x})) = 1 /\ ToSet(SetToSeq({x})) = {x}
    BY <1>1, SetInOrder
  <1>3. DOMAIN SetToSeq({x}) = 1..1 /\ SetToSeq({x})[1] = x
    BY <1>2, ListLen DEF ToSet
  <1>4. SetToSeq({x}) = [k \in 1..1 |-> SetToSeq({x})[k]]
    BY <1>2, <1>3, ListIs
  <1> QED
    BY <1>3, <1>4

Gathered(rs) ==
    LET ws == SetToSeq(DOMAIN rs) IN FlattenSeq([i \in DOMAIN ws |-> rs[ws[i]].data])

LEMMA GatheredIs ==
    ASSUME NEW rs, IsFiniteSet(DOMAIN rs), \A w \in DOMAIN rs : IsList(rs[w].data)
    PROVE  /\ IsList(Gathered(rs))
           /\ ToSet(Gathered(rs)) = UNION {ToSet(rs[w].data) : w \in DOMAIN rs}
           /\ \A S : CountIn(Gathered(rs), S) = SumFunction([w \in DOMAIN rs |-> CountIn(rs[w].data, S)])
  <1> DEFINE D == DOMAIN rs
             ws == SetToSeq(D)
             ss == [i \in DOMAIN ws |-> rs[ws[i]].data]
  <1>1. PICK N \in Nat : N = Cardinality(D)
    BY FS_CardinalityType
  <1>2. ws \in Bijection(1..N, D) /\ DOMAIN ws = 1..N
    BY <1>1, SetInOrder
  <1>3. ws \in [1..N -> D] /\ \A d \in D : \E i \in 1..N : ws[i] = d
    BY <1>2 DEF Bijection, Surjection
  <1>4. Gathered(rs) = FlattenSeq(ss)
    BY DEF Gathered
  <1> HIDE DEF ws
  <1>5. IsList(ss) /\ DOMAIN ss = 1..N
    <2>1. ss = [i \in 1..N |-> ss[i]] /\ DOMAIN ss = 1..N
      BY <1>2
    <2> HIDE DEF ss
    <2>2. Len(ss) = N
      BY <2>1
    <2> QED
      BY <2>1, <2>2, ListIs
  <1>6. \A i \in DOMAIN ss : IsList(ss[i])
    BY <1>2, <1>3
  <1>7. \A i \in 1..N : ss[i] = rs[ws[i]].data
    BY <1>2
  <1> HIDE DEF ss
  <1>8. /\ IsList(FlattenSeq(ss))
        /\ ToSet(FlattenSeq(ss)) = UNION {ToSet(ss[i]) : i \in DOMAIN ss}
    BY <1>5, <1>6, FlattenCounts
  <1>9. UNION {ToSet(ss[i]) : i \in DOMAIN ss} = UNION {ToSet(rs[w].data) : w \in D}
    BY <1>3, <1>5, <1>7
  <1>10. ASSUME NEW S
         PROVE  CountIn(FlattenSeq(ss), S) = SumFunction([w \in D |-> CountIn(rs[w].data, S)])
    <2> DEFINE g == [i \in DOMAIN ss |-> CountIn(ss[i], S)]
               h == [w \in D |-> CountIn(rs[w].data, S)]
    <2>1. CountIn(FlattenSeq(ss), S) = SumFunction(g)
      BY <1>5, <1>6, FlattenCounts
    <2>2. \A w \in D : CountIn(rs[w].data, S) \in Nat
      BY CountIsNat
    <2>3. g \in [1..N -> Nat] /\ h \in [D -> Nat] /\ \A i \in 1..N : g[i] = h[ws[i]]
      BY <1>3, <1>5, <1>7, <2>2
    <2>4. IsFiniteSet(1..N)
      <3>1. 1 \in Nat /\ 1..N \subseteq 1..N
        OBVIOUS
      <3> QED
        BY <3>1, PartOfInterval
    <2> HIDE DEF g, h
    <2>5. SumFunction(g) = SumFunction(h)
      BY <1>2, <2>3, <2>4, SumOver
    <2> QED
      BY <2>1, <2>5 DEF h
  <1> QED
    BY <1>4, <1>8, <1>9, <1>10

\* The rows of a call in what has been read, and one item more.
RowsFit(a, c) == IsList(a) /\ \A i \in DOMAIN a : a[i].call = c => IsList(a[i].body.data)

LEMMA RowsAre ==
    ASSUME NEW c
    PROVE  /\ Rows(<<>>, c) = <<>>
           /\ \A a : RowsFit(a, c) =>
                 /\ IsList(Rows(a, c))
                 /\ ToSet(Rows(a, c)) =
                        UNION {ToSet(a[i].body.data) : i \in {i \in DOMAIN a : a[i].call = c}}
  <1>1. Rows(<<>>, c) = <<>>
    <2>1. [i \in DOMAIN <<>> |-> IF <<>>[i].call = c THEN <<>>[i].body.data ELSE <<>>] = <<>>
      OBVIOUS
    <2>2. FlattenSeq(<<>>) = <<>>
      BY DEF FlattenSeq
    <2> QED
      BY <2>1, <2>2 DEF Rows
  <1>2. ASSUME NEW a, RowsFit(a, c)
        PROVE  /\ IsList(Rows(a, c))
               /\ ToSet(Rows(a, c)) =
                      UNION {ToSet(a[i].body.data) : i \in {i \in DOMAIN a : a[i].call = c}}
    <2> DEFINE ss == [i \in DOMAIN a |-> IF a[i].call = c THEN a[i].body.data ELSE <<>>]
    <2>1. PICK N \in Nat : N = Len(a) /\ DOMAIN a = 1..N
      BY <1>2, ListLen DEF RowsFit
    <2>2. IsList(ss) /\ DOMAIN ss = 1..N
      <3>1. ss = [i \in 1..N |-> ss[i]] /\ DOMAIN ss = 1..N
        BY <2>1
      <3> HIDE DEF ss
      <3>2. Len(ss) = N
        BY <3>1
      <3> QED
        BY <3>1, <3>2, ListIs
    <2>3. \A i \in DOMAIN ss : IsList(ss[i])
      BY <1>2, SmallLists DEF RowsFit
    <2>4. Rows(a, c) = FlattenSeq(ss)
      BY DEF Rows
    <2>5. \A i \in 1..N : ss[i] = IF a[i].call = c THEN a[i].body.data ELSE <<>>
      BY <2>1
    <2> HIDE DEF ss
    <2>6. IsList(FlattenSeq(ss)) /\ ToSet(FlattenSeq(ss)) = UNION {ToSet(ss[i]) : i \in 1..N}
      BY <2>2, <2>3, FlattenCounts
    <2>7. ToSet(<<>>) = {}
      BY DEF ToSet
    <2>8. \A i \in 1..N : a[i].call # c => ToSet(ss[i]) = {}
      BY <2>5, <2>7
    <2>9. \A i \in 1..N : a[i].call = c => ToSet(ss[i]) = ToSet(a[i].body.data)
      BY <2>5
    <2> DEFINE A == UNION {ToSet(ss[i]) : i \in 1..N}
               B == UNION {ToSet(a[i].body.data) : i \in {i \in DOMAIN a : a[i].call = c}}
    <2>10. \A x : x \in A <=> x \in B
      BY <2>1, <2>8, <2>9
    <2>11. A = B
      <3> HIDE DEF A, B
      <3> QED
        BY <2>10
    <2> QED
      BY <2>4, <2>6, <2>11
  <1> QED
    BY <1>1, <1>2

LEMMA RowsGrow ==
    ASSUME NEW c, NEW a, RowsFit(a, c), NEW x, x.call = c => IsList(x.body.data)
    PROVE  /\ RowsFit(Append(a, x), c)
           /\ Rows(Append(a, x), c) = IF x.call = c THEN Rows(a, c) \o x.body.data ELSE Rows(a, c)
  <1> DEFINE b == Append(a, x)
             tt == [i \in DOMAIN a |-> IF a[i].call = c THEN a[i].body.data ELSE <<>>]
             ss == [i \in DOMAIN b |-> IF b[i].call = c THEN b[i].body.data ELSE <<>>]
  <1>1. PICK N \in Nat : N = Len(a) /\ DOMAIN a = 1..N
    BY ListLen DEF RowsFit
  <1>2. IsList(b) /\ Len(b) = N + 1 /\ DOMAIN b = 1..(N + 1)
    BY <1>1, ListAppend, ListLen DEF RowsFit
  <1>3. b[N + 1] = x /\ \A i \in 1..N : b[i] = a[i]
    BY <1>1 DEF RowsFit, IsList
  <1> HIDE DEF b
  <1>4. \A i \in 1..(N + 1) : i \in 1..N \/ i = N + 1
    BY <1>1
  <1>5. RowsFit(b, c)
    BY <1>1, <1>2, <1>3, <1>4 DEF RowsFit
  <1>6. IsList(ss) /\ Len(ss) = N + 1 /\ DOMAIN ss = 1..(N + 1)
    <2>1. ss = [i \in 1..(N + 1) |-> ss[i]] /\ DOMAIN ss = 1..(N + 1)
      BY <1>2
    <2> HIDE DEF ss
    <2>2. Len(ss) = N + 1
      BY <2>1
    <2> QED
      BY <1>1, <2>1, <2>2, ListIs
  <1>7. IsList(tt) /\ Len(tt) = N /\ DOMAIN tt = 1..N
    <2>1. tt = [i \in 1..N |-> tt[i]] /\ DOMAIN tt = 1..N
      BY <1>1
    <2> HIDE DEF tt
    <2>2. Len(tt) = N
      BY <2>1
    <2> QED
      BY <1>1, <2>1, <2>2, ListIs
  <1>8. \A i \in DOMAIN ss : IsList(ss[i])
    BY <1>2, <1>5, SmallLists DEF RowsFit
  <1>9. /\ \A i \in 1..N : tt[i] = ss[i]
        /\ ss[N + 1] = IF x.call = c THEN x.body.data ELSE <<>>
    BY <1>1, <1>2, <1>3
  <1>10. Rows(a, c) = FlattenSeq(tt) /\ Rows(b, c) = FlattenSeq(ss)
    BY DEF Rows
  <1> HIDE DEF ss, tt
  <1>11. Starts(tt, ss)
    BY <1>6, <1>7, <1>9 DEF Starts
  <1>12. PICK f : /\ f[N + 1] = FlattenSeq(ss) /\ f[N + 1] = f[(N + 1) - 1] \o ss[N + 1]
                  /\ FlattenSeq(tt) = f[N]
    <2>1. PICK f : /\ f[0] = <<>> /\ f[Len(ss)] = FlattenSeq(ss)
                   /\ \A n \in 1..Len(ss) : f[n] = f[n - 1] \o ss[n]
                   /\ \A n \in 0..Len(ss) : IsList(f[n])
                   /\ \A q : Starts(q, ss) => FlattenSeq(q) = f[Len(q)]
      BY <1>6, <1>8, FlattenSteps
    <2>2. N + 1 \in 1..Len(ss)
      BY <1>6
    <2> QED
      BY <1>6, <1>7, <1>11, <2>1, <2>2
  <1>13. (N + 1) - 1 = N
    OBVIOUS
  <1>14. Rows(b, c) = Rows(a, c) \o ss[N + 1]
    BY <1>10, <1>12, <1>13
  <1>15. IsList(Rows(a, c))
    BY RowsAre
  <1>16. Rows(a, c) \o <<>> = Rows(a, c)
    BY <1>15 DEF IsList
  <1>17. Rows(b, c) = IF x.call = c THEN Rows(a, c) \o x.body.data ELSE Rows(a, c)
    BY <1>9, <1>14, <1>16
  <1> QED
    BY <1>5, <1>17 DEF b

-----------------------------------------------------------------------------
(* What it means that a report is complete.                                *)

\* The events of a log that count for an item of a report.
Hits(kind, found, L, x) == {i \in DOMAIN L : x \in Items(kind, found, L[i])}
AllHits(kind, found, sites, logs, x) ==
    SumFunction([w \in sites |-> Cardinality(Hits(kind, found, logs[w], x))])

\* All that may arrive while a report is made.
Arrived(sites, B, L) == SumFunction([w \in sites |-> Len(L[w]) - Len(B[w])])

Capped(kind, n) == IF kind = "event-catalog" /\ n > 1 THEN 1 ELSE n
Misses(kind, full, x) ==
    \/ kind = "sessions"
    \/ kind = "heatmap" /\ full
    \/ kind = "event-catalog" /\ Len(x) = 2
Slack(kind, sites, B, L) == IF kind \in Paged THEN Arrived(sites, B, L) ELSE 0

NotTooFew(kind, sites, found, counts, full, B, L) ==
    \A x \in UNION {Items(kind, found, e) : e \in UNION {ToSet(B[w]) : w \in sites}} :
        \/ Misses(kind, full, x)
        \/ Capped(kind, AllHits(kind, found, sites, B, x)) - Slack(kind, sites, B, L) <= At(counts, x)
NotTooMany(kind, sites, found, counts, B, L) ==
    \A x \in DOMAIN counts :
        counts[x] <= Capped(kind, AllHits(kind, found, sites, L, x)) + Slack(kind, sites, B, L)
Complete(kind, sites, found, counts, full, B, L) ==
    /\ NotTooFew(kind, sites, found, counts, full, B, L)
    /\ NotTooMany(kind, sites, found, counts, B, L)

CompleteOf(r) ==
    Reported(r) => Complete(ask[r].kind, ask[r].sites, answer[r].found, answer[r].counts,
                            page[r] >= MaxPages, before[r], log)

LEMMA CompleteIs == ReportsComplete <=> \A r \in Reports : CompleteOf(r)
  <1>1. ASSUME NEW r \in Reports
        PROVE  /\ \A L, x : Count(r, L, x) = AllHits(ask[r].kind, answer[r].found, ask[r].sites, L, x)
               /\ \A n : Counted(r, n) = Capped(ask[r].kind, n)
               /\ \A x : MayMiss(r, x) <=> Misses(ask[r].kind, page[r] >= MaxPages, x)
               /\ Late(r) = Arrived(ask[r].sites, before[r], log)
               /\ AllItems(r) = UNION {Items(ask[r].kind, answer[r].found, e) :
                                  e \in UNION {ToSet(before[r][w]) : w \in ask[r].sites}}
    <2>1. \A L, x : Count(r, L, x) = AllHits(ask[r].kind, answer[r].found, ask[r].sites, L, x)
      BY DEF Count, AllHits, Hits
    <2>2. \A n : Counted(r, n) = Capped(ask[r].kind, n)
      BY DEF Counted, Capped
    <2>3. \A x : MayMiss(r, x) <=> Misses(ask[r].kind, page[r] >= MaxPages, x)
      BY DEF MayMiss, Misses
    <2>4. Late(r) = Arrived(ask[r].sites, before[r], log)
      BY DEF Late, Arrived
    <2>5. AllItems(r) = UNION {Items(ask[r].kind, answer[r].found, e) :
                                  e \in UNION {ToSet(before[r][w]) : w \in ask[r].sites}}
      BY DEF AllItems
    <2> QED
      BY <2>1, <2>2, <2>3, <2>4, <2>5
  <1> DEFINE Few(r) == \A x \in AllItems(r) :
                 MayMiss(r, x) \/ Counted(r, Count(r, before[r], x))
                                        - (IF ask[r].kind \in Paged THEN Late(r) ELSE 0) <= At(answer[r].counts, x)
             Many(r) == \A x \in DOMAIN answer[r].counts :
                 answer[r].counts[x] <= Counted(r, Count(r, log, x))
                                        + (IF ask[r].kind \in Paged THEN Late(r) ELSE 0)
  <1>2. ReportsComplete <=> \A r \in Reports : Reported(r) => Few(r) /\ Many(r)
    BY DEF ReportsComplete
  <1>3. ASSUME NEW r \in Reports
        PROVE  /\ Few(r) <=> NotTooFew(ask[r].kind, ask[r].sites, answer[r].found, answer[r].counts,
                                       page[r] >= MaxPages, before[r], log)
               /\ Many(r) <=> NotTooMany(ask[r].kind, ask[r].sites, answer[r].found, answer[r].counts,
                                         before[r], log)
    <2>1. Few(r) <=> NotTooFew(ask[r].kind, ask[r].sites, answer[r].found, answer[r].counts,
                               page[r] >= MaxPages, before[r], log)
      BY <1>1, Zenon DEF NotTooFew, Slack
    <2>2. Many(r) <=> NotTooMany(ask[r].kind, ask[r].sites, answer[r].found, answer[r].counts,
                                 before[r], log)
      BY <1>1, Zenon DEF NotTooMany, Slack
    <2> QED
      BY <2>1, <2>2
  <1> HIDE DEF Few, Many
  <1> QED
    BY <1>2, <1>3, Zenon DEF CompleteOf, Complete

LEMMA HitsGrow ==
    ASSUME NEW P, NEW L, Starts(P, L), NEW kind, NEW found, NEW x
    PROVE  /\ Cardinality(Hits(kind, found, P, x)) \in Nat /\ Cardinality(Hits(kind, found, L, x)) \in Nat
           /\ Cardinality(Hits(kind, found, P, x)) <= Cardinality(Hits(kind, found, L, x))
  <1>1. IsList(P) /\ IsList(L) /\ DOMAIN P \subseteq DOMAIN L /\ \A i \in DOMAIN P : P[i] = L[i]
    BY ListLen DEF Starts
  <1>2. Hits(kind, found, P, x) \subseteq Hits(kind, found, L, x)
    BY <1>1 DEF Hits
  <1>3. Hits(kind, found, P, x) \subseteq DOMAIN P /\ Hits(kind, found, L, x) \subseteq DOMAIN L
    BY DEF Hits
  <1>4. /\ IsFiniteSet(Hits(kind, found, L, x))
        /\ Cardinality(Hits(kind, found, P, x)) \in Nat /\ Cardinality(Hits(kind, found, L, x)) \in Nat
    BY <1>1, <1>3, PositionsFinite
  <1> QED
    BY <1>2, <1>4, FS_Subset

\* Logs that begin like others, for some websites.
AllStart(sites, B, L) == \A w \in sites : Starts(B[w], L[w])

LEMMA AllHitsGrow ==
    ASSUME NEW sites, IsFiniteSet(sites), NEW P, NEW L, AllStart(sites, P, L),
           NEW kind, NEW found, NEW x
    PROVE  /\ AllHits(kind, found, sites, P, x) \in Nat /\ AllHits(kind, found, sites, L, x) \in Nat
           /\ AllHits(kind, found, sites, P, x) <= AllHits(kind, found, sites, L, x)
  <1> DEFINE f == [w \in sites |-> Cardinality(Hits(kind, found, P[w], x))]
             g == [w \in sites |-> Cardinality(Hits(kind, found, L[w], x))]
  <1>1. \A w \in sites : /\ Cardinality(Hits(kind, found, P[w], x)) \in Nat
                         /\ Cardinality(Hits(kind, found, L[w], x)) \in Nat
                         /\ Cardinality(Hits(kind, found, P[w], x)) <= Cardinality(Hits(kind, found, L[w], x))
    BY HitsGrow DEF AllStart
  <1>2. f \in [sites -> Nat] /\ g \in [sites -> Nat] /\ \A w \in sites : f[w] <= g[w]
    BY <1>1
  <1>3. AllHits(kind, found, sites, P, x) = SumFunction(f) /\ AllHits(kind, found, sites, L, x) = SumFunction(g)
    BY DEF AllHits
  <1> HIDE DEF f, g
  <1> QED
    BY <1>2, <1>3, SumMono, SumNat

LEMMA ArrivedGrows ==
    ASSUME NEW sites, IsFiniteSet(sites), NEW B, NEW P, NEW L,
           AllStart(sites, B, P), AllStart(sites, P, L)
    PROVE  /\ Arrived(sites, B, P) \in Nat /\ Arrived(sites, B, L) \in Nat
           /\ Arrived(sites, B, P) <= Arrived(sites, B, L)
  <1> DEFINE f == [w \in sites |-> Len(P[w]) - Len(B[w])]
             g == [w \in sites |-> Len(L[w]) - Len(B[w])]
  <1>1. \A w \in sites : /\ Len(P[w]) - Len(B[w]) \in Nat /\ Len(L[w]) - Len(B[w]) \in Nat
                         /\ Len(P[w]) - Len(B[w]) <= Len(L[w]) - Len(B[w])
    BY ListLen DEF AllStart, Starts
  <1>2. f \in [sites -> Nat] /\ g \in [sites -> Nat] /\ \A w \in sites : f[w] <= g[w]
    BY <1>1
  <1>3. Arrived(sites, B, P) = SumFunction(f) /\ Arrived(sites, B, L) = SumFunction(g)
    BY DEF Arrived
  <1> HIDE DEF f, g
  <1> QED
    BY <1>2, <1>3, SumMono, SumNat

LEMMA CappedGrows ==
    ASSUME NEW kind, NEW m \in Nat, NEW n \in Nat, m <= n
    PROVE  Capped(kind, m) \in Nat /\ Capped(kind, n) \in Nat /\ Capped(kind, m) <= Capped(kind, n)
BY DEF Capped

LEMMA AllStartIs ==
    /\ \A sites, P, Q, L : AllStart(sites, P, Q) /\ AllStart(sites, Q, L) => AllStart(sites, P, L)
    /\ \A sites, P, L : AllStart(sites, P, L) => AllStart(sites, L, L) /\ AllStart(sites, P, P)
BY StartsIs DEF AllStart, Starts

\* A report that is complete stays so while more is logged.
LEMMA StaysComplete ==
    ASSUME NEW sites, IsFiniteSet(sites), NEW B, NEW P, NEW L,
           AllStart(sites, B, P), AllStart(sites, P, L),
           NEW kind, NEW found, NEW counts, NEW full, Complete(kind, sites, found, counts, full, B, P),
           \A x \in DOMAIN counts : counts[x] \in Nat
    PROVE  Complete(kind, sites, found, counts, full, B, L)
  <1>1. /\ Slack(kind, sites, B, P) \in Nat /\ Slack(kind, sites, B, L) \in Nat
        /\ Slack(kind, sites, B, P) <= Slack(kind, sites, B, L)
    BY ArrivedGrows DEF Slack
  <1>2. \A x : At(counts, x) \in Nat
    BY DEF At
  <1>3. AllStart(sites, B, B)
    BY AllStartIs
  <1>4. NotTooFew(kind, sites, found, counts, full, B, L)
    <2> SUFFICES ASSUME NEW x \in UNION {Items(kind, found, e) : e \in UNION {ToSet(B[w]) : w \in sites}},
                        ~Misses(kind, full, x)
                 PROVE  Capped(kind, AllHits(kind, found, sites, B, x)) - Slack(kind, sites, B, L) <= At(counts, x)
      BY DEF NotTooFew
    <2>1. Capped(kind, AllHits(kind, found, sites, B, x)) - Slack(kind, sites, B, P) <= At(counts, x)
      BY DEF Complete, NotTooFew
    <2>2. AllHits(kind, found, sites, B, x) \in Nat
      BY <1>3, AllHitsGrow
    <2>3. Capped(kind, AllHits(kind, found, sites, B, x)) \in Nat
      BY <2>2, CappedGrows
    <2> QED
      BY <1>1, <1>2, <2>1, <2>3
  <1>5. NotTooMany(kind, sites, found, counts, B, L)
    <2> SUFFICES ASSUME NEW x \in DOMAIN counts
                 PROVE  counts[x] <= Capped(kind, AllHits(kind, found, sites, L, x)) + Slack(kind, sites, B, L)
      BY DEF NotTooMany
    <2>1. counts[x] <= Capped(kind, AllHits(kind, found, sites, P, x)) + Slack(kind, sites, B, P)
      BY DEF Complete, NotTooMany
    <2>2. /\ AllHits(kind, found, sites, P, x) \in Nat /\ AllHits(kind, found, sites, L, x) \in Nat
          /\ AllHits(kind, found, sites, P, x) <= AllHits(kind, found, sites, L, x)
      BY AllHitsGrow
    <2>3. /\ Capped(kind, AllHits(kind, found, sites, P, x)) \in Nat
          /\ Capped(kind, AllHits(kind, found, sites, L, x)) \in Nat
          /\ Capped(kind, AllHits(kind, found, sites, P, x)) <= Capped(kind, AllHits(kind, found, sites, L, x))
      BY <2>2, CappedGrows
    <2>4. counts[x] \in Nat
      OBVIOUS
    <2> QED
      BY <1>1, <2>1, <2>3, <2>4
  <1> QED
    BY <1>4, <1>5 DEF Complete

\* One whose numbers are those of moments in between is complete.
Within(kind, sites, found, counts, B, L) ==
    \A x : /\ At(counts, x) \in Nat
           /\ AllHits(kind, found, sites, B, x) <= At(counts, x)
           /\ At(counts, x) <= AllHits(kind, found, sites, L, x)

LEMMA InBetween ==
    ASSUME NEW sites, IsFiniteSet(sites), NEW B, NEW P, NEW L,
           AllStart(sites, B, P), AllStart(sites, P, L), NEW kind, NEW found, NEW x, NEW n,
           n = AllHits(kind, found, sites, P, x)
    PROVE  /\ n \in Nat /\ AllHits(kind, found, sites, B, x) <= n
           /\ n <= AllHits(kind, found, sites, L, x)
BY AllHitsGrow

LEMMA WithinIsComplete ==
    ASSUME NEW sites, IsFiniteSet(sites), NEW B, NEW L, AllStart(sites, B, L),
           NEW kind, kind \notin Paged, kind # "event-catalog", NEW found, NEW counts, NEW full,
           Within(kind, sites, found, counts, B, L)
    PROVE  Complete(kind, sites, found, counts, full, B, L) /\ \A x \in DOMAIN counts : counts[x] \in Nat
  <1>1. Slack(kind, sites, B, L) = 0
    BY DEF Slack
  <1>2. \A n : Capped(kind, n) = n
    BY DEF Capped
  <1>3. \A x : AllHits(kind, found, sites, B, x) \in Nat /\ AllHits(kind, found, sites, L, x) \in Nat
    BY AllHitsGrow
  <1>4. \A x \in DOMAIN counts : counts[x] = At(counts, x)
    BY DEF At
  <1>5. \A x : Capped(kind, AllHits(kind, found, sites, B, x)) - Slack(kind, sites, B, L) <= At(counts, x)
    <2> TAKE x
    <2>1. Capped(kind, AllHits(kind, found, sites, B, x)) = AllHits(kind, found, sites, B, x)
      BY <1>2
    <2>2. At(counts, x) \in Nat /\ AllHits(kind, found, sites, B, x) <= At(counts, x)
      BY DEF Within
    <2> QED
      BY <1>1, <1>3, <2>1, <2>2
  <1>6. \A x \in DOMAIN counts :
            counts[x] <= Capped(kind, AllHits(kind, found, sites, L, x)) + Slack(kind, sites, B, L)
    <2> TAKE x \in DOMAIN counts
    <2>1. Capped(kind, AllHits(kind, found, sites, L, x)) = AllHits(kind, found, sites, L, x)
      BY <1>2
    <2>2. counts[x] \in Nat /\ counts[x] <= AllHits(kind, found, sites, L, x)
      BY <1>4 DEF Within
    <2> QED
      BY <1>1, <1>3, <2>1, <2>2
  <1>7. \A x \in DOMAIN counts : counts[x] \in Nat
    BY <1>4 DEF Within
  <1> QED
    BY <1>5, <1>6, <1>7, Zenon DEF Complete, NotTooFew, NotTooMany

-----------------------------------------------------------------------------
(* What the websites answer to a call that is not paged. *)

Counting == {"pageviews", "query", "path", "values", "series"}

\* The events that make x in the answer to a call.
Shows(c, e, x) ==
    CASE c.ep = "pageviews" -> e.name = c.of /\ x = "day"
      [] c.ep = "query" -> e.name = c.of /\ Query[e.text] # Nothing /\ Query[e.text] = x
      [] c.ep \in {"path", "values"} -> e.name = c.of /\ e.text = x
      [] c.ep = "series" -> e.name \notin {"view", "session"} /\ e.name = x
Seen(c, L, x) == {i \in DOMAIN L : Shows(c, L[i], x)}

LEMMA SeenFinite ==
    ASSUME NEW L, IsList(L), NEW c, NEW x
    PROVE  IsFiniteSet(Seen(c, L, x)) /\ Cardinality(Seen(c, L, x)) \in Nat
  <1>1. Seen(c, L, x) \subseteq DOMAIN L
    BY DEF Seen
  <1> QED
    BY <1>1, PositionsFinite

\* A tally of the values g[i], for i in S.
IsTally(f, S, g) == f = [x \in {g[i] : i \in S} |-> Cardinality({i \in S : g[i] = x})]

LEMMA TallyAt ==
    ASSUME NEW f, NEW S, NEW g, IsTally(f, S, g)
    PROVE  \A x : At(f, x) = Cardinality({i \in S : g[i] = x})
  <1> TAKE x
  <1>1. CASE x \in {g[i] : i \in S}
    BY <1>1 DEF At, IsTally
  <1>2. CASE x \notin {g[i] : i \in S}
    <2>1. {i \in S : g[i] = x} = {}
      BY <1>2
    <2>2. At(f, x) = 0
      BY <1>2 DEF At, IsTally
    <2> QED
      BY <2>1, <2>2, FS_EmptySet
  <1> QED
    BY <1>1, <1>2

LEMMA ResponseAt ==
    ASSUME NEW c, c.ep \in Counting, NEW L, NEW p, NEW size
    PROVE  \A x : At(Response(c, L, p, size), x) = Cardinality(Seen(c, L, x))
  <1> DEFINE named == {i \in DOMAIN L : L[i].name = c.of}
             events == {i \in DOMAIN L : L[i].name \notin {"view", "session"}}
             asked == {i \in named : Query[L[i].text] # Nothing}
             R == Response(c, L, p, size)
  <1>1. CASE c.ep = "pageviews"
    <2> DEFINE g == [i \in DOMAIN L |-> "day"]
    <2>1. R = [x \in {"day" : i \in named} |-> Cardinality({i \in named : "day" = x})]
      BY <1>1 DEF Response, Tally
    <2>2. IsTally(R, named, g)
      BY <2>1 DEF IsTally
    <2>3. \A x : {i \in named : g[i] = x} = Seen(c, L, x)
      BY <1>1 DEF Seen, Shows
    <2> HIDE DEF g, R, named
    <2> QED
      BY <2>2, <2>3, TallyAt DEF R
  <1>2. CASE c.ep = "query"
    <2> DEFINE g == [i \in DOMAIN L |-> Query[L[i].text]]
    <2>1. R = [x \in {Query[L[i].text] : i \in asked} |-> Cardinality({i \in asked : Query[L[i].text] = x})]
      BY <1>2 DEF Response, Tally
    <2>2. IsTally(R, asked, g)
      BY <2>1 DEF IsTally
    <2>3. \A x : {i \in asked : g[i] = x} = Seen(c, L, x)
      BY <1>2 DEF Seen, Shows
    <2> HIDE DEF g, R, asked
    <2> QED
      BY <2>2, <2>3, TallyAt DEF R
  <1>3. CASE c.ep \in {"path", "values"}
    <2> DEFINE g == [i \in DOMAIN L |-> L[i].text]
    <2>1. R = [x \in {L[i].text : i \in named} |-> Cardinality({i \in named : L[i].text = x})]
      BY <1>3 DEF Response, Tally
    <2>2. IsTally(R, named, g)
      BY <2>1 DEF IsTally
    <2>3. \A x : {i \in named : g[i] = x} = Seen(c, L, x)
      BY <1>3 DEF Seen, Shows
    <2> HIDE DEF g, R, named
    <2> QED
      BY <2>2, <2>3, TallyAt DEF R
  <1>4. CASE c.ep = "series"
    <2> DEFINE g == [i \in DOMAIN L |-> L[i].name]
    <2>1. R = [x \in {L[i].name : i \in events} |-> Cardinality({i \in events : L[i].name = x})]
      BY <1>4 DEF Response, Tally
    <2>2. IsTally(R, events, g)
      BY <2>1 DEF IsTally
    <2>3. \A x : {i \in events : g[i] = x} = Seen(c, L, x)
      BY <1>4 DEF Seen, Shows
    <2> HIDE DEF g, R, events
    <2> QED
      BY <2>2, <2>3, TallyAt DEF R
  <1> QED
    BY <1>1, <1>2, <1>3, <1>4 DEF Counting

LEMMA ResponseDomain ==
    ASSUME NEW c, c.ep = "series", NEW L, NEW p, NEW size
    PROVE  \A x : x \in DOMAIN Response(c, L, p, size)
                    <=> \E i \in DOMAIN L : L[i].name \notin {"view", "session"} /\ L[i].name = x
BY DEF Response, Tally

\* The same, for some websites.
AllSeen(c, sites, P, x) == SumFunction([w \in sites |-> Cardinality(Seen(c, P[w], x))])

\* The responses of some websites, each from its log.
Responses(c, sites, P, p) == [w \in sites |-> Response(c, P[w], p, Size(c))]

LEMMA MergedAt ==
    ASSUME NEW c, c.ep \in Counting, NEW sites, IsFiniteSet(sites), NEW P, \A w \in sites : IsList(P[w]),
           NEW p, NEW rs, rs = Responses(c, sites, P, p)
    PROVE  /\ \A x : At(Aggregate(c, rs), x) = AllSeen(c, sites, P, x)
           /\ DOMAIN Aggregate(c, rs) = UNION {DOMAIN rs[w] : w \in sites}
           /\ \A x : AllSeen(c, sites, P, x) \in Nat
  <1>1. Aggregate(c, rs) = MergeByName(rs)
    BY DEF Aggregate, Counting
  <1>2. DOMAIN rs = sites /\ \A w \in sites : rs[w] = Response(c, P[w], p, Size(c))
    BY DEF Responses
  <1>3. DOMAIN MergeByName(rs) = UNION {DOMAIN rs[w] : w \in sites}
    BY <1>2 DEF MergeByName
  <1>4. ASSUME NEW x PROVE At(MergeByName(rs), x) = AllSeen(c, sites, P, x) /\ AllSeen(c, sites, P, x) \in Nat
    <2> DEFINE f == [w \in sites |-> At(rs[w], x)]
               g == [w \in sites |-> Cardinality(Seen(c, P[w], x))]
    <2>1. \A w \in sites : At(rs[w], x) = Cardinality(Seen(c, P[w], x)) /\ Cardinality(Seen(c, P[w], x)) \in Nat
      BY <1>2, ResponseAt, SeenFinite
    <2>2. f = g /\ g \in [sites -> Nat] /\ \A w \in sites : g[w] = At(rs[w], x)
      BY <2>1
    <2>3. AllSeen(c, sites, P, x) = SumFunction(g)
      BY DEF AllSeen
    <2>4. x \in DOMAIN MergeByName(rs) => MergeByName(rs)[x] = SumFunction(f)
      BY <1>2 DEF MergeByName
    <2>5. x \notin DOMAIN MergeByName(rs) => \A w \in sites : At(rs[w], x) = 0
      BY <1>3 DEF At
    <2> HIDE DEF f, g
    <2>6. x \notin DOMAIN MergeByName(rs) => SumFunction(g) = 0
      BY <2>2, <2>5, SumZero
    <2>7. SumFunction(g) \in Nat
      BY <2>2, SumNat
    <2>8. At(MergeByName(rs), x) = SumFunction(g)
      BY <2>2, <2>4, <2>6 DEF At
    <2> QED
      BY <2>3, <2>7, <2>8
  <1> QED
    BY <1>1, <1>3, <1>4

\* The number of views.
LEMMA StatsIs ==
    ASSUME NEW c, c.ep = "stats", NEW sites, NEW P, NEW p, NEW rs, rs = Responses(c, sites, P, p)
    PROVE  Aggregate(c, rs) =
                SumFunction([w \in sites |-> Cardinality({i \in DOMAIN P[w] : P[w][i].name = c.of})])
  <1> DEFINE f == [w \in sites |-> Cardinality({i \in DOMAIN P[w] : P[w][i].name = c.of})]
  <1>1. \A w \in sites : Response(c, P[w], p, Size(c)) = Cardinality({i \in DOMAIN P[w] : P[w][i].name = c.of})
    BY DEF Response
  <1>2. rs = f
    BY <1>1 DEF Responses
  <1>3. Aggregate(c, rs) = SumFunction(rs)
    BY DEF Aggregate
  <1> HIDE DEF f
  <1>4. Aggregate(c, rs) = SumFunction(f)
    BY <1>2, <1>3
  <1> QED
    BY <1>4 DEF f

-----------------------------------------------------------------------------
(* The reports that one stage suffices for. *)

\* What a stage adds, and what the parser then finds in it.
Taken(body) == SetToSeq({[call |-> c, body |-> body[c]] : c \in DOMAIN body})

LEMMA TakenIs ==
    ASSUME NEW body, IsFiniteSet(DOMAIN body)
    PROVE  /\ IsList(Taken(body)) /\ <<>> \o Taken(body) = Taken(body)
           /\ ToSet(Taken(body)) = {[call |-> c, body |-> body[c]] : c \in DOMAIN body}
  <1> DEFINE f == [c \in DOMAIN body |-> [call |-> c, body |-> body[c]]]
             T == {[call |-> c, body |-> body[c]] : c \in DOMAIN body}
  <1>1. f \in Surjection(DOMAIN body, T)
    BY DEF Surjection
  <1>2. IsFiniteSet(T)
    BY <1>1, FS_Surjection
  <1>3. Taken(body) = SetToSeq(T)
    BY DEF Taken
  <1> HIDE DEF T
  <1>4. IsList(Taken(body)) /\ ToSet(Taken(body)) = T
    BY <1>2, <1>3, SetInOrder
  <1> QED
    BY <1>4 DEF T, IsList

LEMMA BodyTaken ==
    ASSUME NEW body, IsFiniteSet(DOMAIN body), NEW c \in DOMAIN body,
           \A d \in DOMAIN body : d.ep = c.ep => d = c
    PROVE  Body(Taken(body), c.ep) = body[c]
  <1> DEFINE i == [call |-> c, body |-> body[c]]
             j == CHOOSE k \in ToSet(Taken(body)) : k.call.ep = c.ep
  <1>1. i \in ToSet(Taken(body)) /\ i.call.ep = c.ep
    BY TakenIs
  <1>2. j \in ToSet(Taken(body)) /\ j.call.ep = c.ep
    BY <1>1
  <1> HIDE DEF j
  <1>3. PICK d \in DOMAIN body : j = [call |-> d, body |-> body[d]]
    BY <1>2, TakenIs
  <1>4. d = c
    BY <1>2, <1>3
  <1> QED
    <2>1. Body(Taken(body), c.ep) = j.body
      BY DEF Body, j
    <2>2. j.body = body[d]
      BY <1>3
    <2> QED
      BY <1>4, <2>1, <2>2

\* How the responses of a stage came about: each from a log in between.
Answers(rs, c, sites, B, L, p) ==
    /\ DOMAIN rs = sites /\ rs = [w \in sites |-> rs[w]]
    /\ \A w \in sites : \E P : /\ Starts(B[w], P) /\ Starts(P, L[w])
                               /\ rs[w] = Response(c, P, p, Size(c))

LEMMA AnswersAre ==
    ASSUME NEW rs, NEW c, NEW sites, NEW B, NEW L, NEW p, Answers(rs, c, sites, B, L, p)
    PROVE  \E P : /\ AllStart(sites, B, P) /\ AllStart(sites, P, L)
                  /\ rs = Responses(c, sites, P, p)
  <1> DEFINE Q(w) == CHOOSE P : Starts(B[w], P) /\ Starts(P, L[w]) /\ rs[w] = Response(c, P, p, Size(c))
             R == [w \in sites |-> Q(w)]
  <1>1. \A w \in sites : Starts(B[w], Q(w)) /\ Starts(Q(w), L[w]) /\ rs[w] = Response(c, Q(w), p, Size(c))
    BY DEF Answers
  <1> HIDE DEF Q
  <1>2. \A w \in sites : R[w] = Q(w)
    OBVIOUS
  <1> HIDE DEF R
  <1>3. rs = [w \in sites |-> Response(c, R[w], p, Size(c))]
    BY <1>1, <1>2 DEF Answers
  <1>4. AllStart(sites, B, R) /\ AllStart(sites, R, L)
    BY <1>1, <1>2 DEF AllStart
  <1> QED
    BY <1>3, <1>4 DEF Responses

\* A call that is tallied, and an item that its answer counts the events of.
LEMMA SeenWithin ==
    ASSUME NEW c, c.ep \in Counting, NEW sites, IsFiniteSet(sites), NEW B, NEW L, NEW p,
           NEW rs, Answers(rs, c, sites, B, L, p), NEW kind, NEW found, NEW x, NEW y,
           \A e : Shows(c, e, y) <=> x \in Items(kind, found, e)
    PROVE  /\ At(Aggregate(c, rs), y) \in Nat
           /\ AllHits(kind, found, sites, B, x) <= At(Aggregate(c, rs), y)
           /\ At(Aggregate(c, rs), y) <= AllHits(kind, found, sites, L, x)
  <1>1. PICK P : /\ AllStart(sites, B, P) /\ AllStart(sites, P, L)
                 /\ rs = Responses(c, sites, P, p)
    BY AnswersAre
  <1>2. \A w \in sites : IsList(P[w])
    BY <1>1 DEF AllStart, Starts
  <1>3. At(Aggregate(c, rs), y) = AllSeen(c, sites, P, y)
    BY <1>1, <1>2, MergedAt
  <1>4. \A w \in sites : Seen(c, P[w], y) = Hits(kind, found, P[w], x)
    BY DEF Seen, Hits
  <1>5. AllSeen(c, sites, P, y) = AllHits(kind, found, sites, P, x)
    BY <1>4 DEF AllSeen, AllHits
  <1> QED
    BY <1>1, <1>3, <1>5, InBetween

\* An item that no event counts for.
LEMMA NoHits ==
    ASSUME NEW sites, IsFiniteSet(sites), NEW L, NEW kind, NEW found, NEW x,
           \A e : x \notin Items(kind, found, e)
    PROVE  AllHits(kind, found, sites, L, x) = 0
  <1> DEFINE f == [w \in sites |-> Cardinality(Hits(kind, found, L[w], x))]
  <1>1. \A w \in sites : Hits(kind, found, L[w], x) = {}
    BY DEF Hits
  <1>2. \A w \in sites : Cardinality(Hits(kind, found, L[w], x)) = 0
    BY <1>1, FS_EmptySet
  <1>3. f \in [sites -> Nat] /\ \A w \in sites : f[w] = 0
    BY <1>2
  <1>4. AllHits(kind, found, sites, L, x) = SumFunction(f)
    BY DEF AllHits
  <1> HIDE DEF f
  <1> QED
    BY <1>3, <1>4, SumZero

\* The answers to the calls of a stage, each aggregated.
Stage(body, calls, sites, B, L) ==
    /\ DOMAIN body = calls /\ IsFiniteSet(calls)
    /\ \A c \in calls : \E rs : Answers(rs, c, sites, B, L, 1) /\ body[c] = Aggregate(c, rs)

\* What the items, the parser and the plan of each report are.
LEMMA ItemsOfStats ==
    ASSUME NEW kind, kind = "stats"
    PROVE  \A found, e, x : x \in Items(kind, found, e)
                      <=> x = "pageviews" /\ e.name = "view"
BY DEF Items, ValueKinds, ZeroResults

LEMMA ItemsOfPageviews ==
    ASSUME NEW kind, kind = "pageviews"
    PROVE  \A found, e, x : x \in Items(kind, found, e)
                      <=> x = "day" /\ e.name = "view"
BY DEF Items, ValueKinds, ZeroResults

LEMMA ItemsOfPaths ==
    ASSUME NEW kind, kind = "resource-metrics"
    PROVE  \A found, e, x : x \in Items(kind, found, e)
                      <=> x = e.text /\ e.name = "view" /\ e.text \in ResourcePaths
BY DEF Items, ValueKinds, ZeroResults

LEMMA ItemsOfSearches ==
    ASSUME NEW kind, kind = "searches"
    PROVE  \A found, e, x : x \in Items(kind, found, e)
                      <=> /\ x = Query[e.text] /\ e.name = "view"
                          /\ Query[e.text] # Nothing /\ Query[e.text][1] \in SearchTypes
BY DEF Items, ValueKinds, ZeroResults

LEMMA ItemsOfValues ==
    ASSUME NEW kind, kind = "event-values"
    PROVE  \A found, e, x : x \in Items(kind, found, e)
                      <=> x = e.text /\ e.name = ZeroResults
BY DEF Items, ValueKinds, ZeroResults

NoText == ""

LEMMA ItemsOfEvents ==
    ASSUME NEW kind \in ValueKinds
    PROVE  \A found, e, x : x \in Items(kind, found, e) <=> x = e.text /\ e.name = kind /\ e.text # NoText
  <1>1. \A found, e : Items(kind, found, e) = {x \in {e.text} : e.name = kind /\ e.text # NoText}
    BY DEF Items, ValueKinds, ZeroResults, NoText
  <1> QED
    BY <1>1

LEMMA ReportsAre ==
    ASSUME NEW a, NEW found
    PROVE  /\ Report("stats", a, found) = Stats(Body(a, "stats"))
           /\ Report("pageviews", a, found) = Body(a, "pageviews")
           /\ Report("resource-metrics", a, found) = ResourceMetrics(Body(a, "path"))
           /\ Report("searches", a, found) = Typed(Body(a, "query"))
           /\ Report("metrics", a, found) = Metrics(Body(a, "path"), Body(a, "series"))
           /\ \A k \in ValueKinds : Report(k, a, found) = Entries(Body(a, "values"))
           /\ Report("event-values", a, found) = Body(a, "values")
BY DEF Report, ValueKinds, ZeroResults

LEMMA PlansAre ==
    /\ Plan("stats") = <<{Call("stats", "view")}>>
    /\ Plan("pageviews") = <<{Call("pageviews", "view")}>>
    /\ Plan("resource-metrics") = <<{Call("path", "view")}>>
    /\ Plan("searches") = <<{Call("query", "view")}>>
    /\ Plan("metrics") = <<{Call("path", "view"), Call("query", "view"), Call("series", Nothing)}>>
    /\ \A k \in ValueKinds : Plan(k) = <<{Call("values", k)}>>
    /\ Plan("event-values") = <<{Call("values", ZeroResults)}>>
    /\ Plan("sessions") = <<{Call("sessionPage", "session")}>>
    /\ Plan("heatmap") = <<{Call("sessions", "session")}>>
    /\ Plan("export") = <<{Call("pivot", "search_text")}, {Call("pivot", "search_taxonomy")}>>
    /\ Plan("area-searches") = <<{Call("pivot", "search_text")}, {Call("pivot", "search_taxonomy")},
                                 {Call("pivot", ZeroResults)}>>
    /\ Plan("event-catalog") = <<{Call("series", Nothing)}>>
BY DEF Plan, EventValues, ValueKinds, ZeroResults

LEMMA ShowsIs ==
    ASSUME NEW c, NEW e
    PROVE  /\ c.ep = "pageviews" => \A x : Shows(c, e, x) <=> e.name = c.of /\ x = "day"
           /\ c.ep = "query" =>
                 \A x : Shows(c, e, x) <=> e.name = c.of /\ Query[e.text] # Nothing /\ Query[e.text] = x
           /\ c.ep \in {"path", "values"} => \A x : Shows(c, e, x) <=> e.name = c.of /\ e.text = x
           /\ c.ep = "series" => \A x : Shows(c, e, x) <=> e.name \notin {"view", "session"} /\ e.name = x
BY DEF Shows

LEMMA RestrictedAt ==
    \A f, S, x : At(Restricted(f, S), x) = IF x \in S THEN At(f, x) ELSE 0
BY DEF At, Restricted

LEMMA StatsWithin ==
    ASSUME NEW body, NEW sites, IsFiniteSet(sites), NEW B, NEW L, NEW found,
           Stage(body, {Call("stats", "view")}, sites, B, L)
    PROVE  Within("stats", sites, found, Report("stats", Taken(body), found), B, L)
  <1> DEFINE c == Call("stats", "view")
             counts == Report("stats", Taken(body), found)
  <1>1. c.ep = "stats" /\ c.of = "view"
    BY DEF Call
  <1>2. PICK rs : Answers(rs, c, sites, B, L, 1) /\ body[c] = Aggregate(c, rs)
    BY DEF Stage
  <1>3. PICK P : AllStart(sites, B, P) /\ AllStart(sites, P, L) /\ rs = Responses(c, sites, P, 1)
    BY <1>2, AnswersAre
  <1>4. Body(Taken(body), "stats") = body[c]
    BY <1>1, BodyTaken DEF Stage
  <1>5. counts = [x \in {"pageviews"} |-> body[c]]
    BY <1>4, ReportsAre DEF Stats
  <1>6. body[c] = SumFunction([w \in sites |-> Cardinality({i \in DOMAIN P[w] : P[w][i].name = "view"})])
    <2>1. Aggregate(c, rs) = SumFunction([w \in sites |-> Cardinality({i \in DOMAIN P[w] : P[w][i].name = c.of})])
      BY <1>1, <1>3, StatsIs
    <2> QED
      BY <1>1, <1>2, <2>1
  <1>7. \A w \in sites : Hits("stats", found, P[w], "pageviews") = {i \in DOMAIN P[w] : P[w][i].name = "view"}
    BY ItemsOfStats DEF Hits
  <1>8. body[c] = AllHits("stats", found, sites, P, "pageviews")
    BY <1>6, <1>7 DEF AllHits
  <1> HIDE DEF counts, c
  <1>9. ASSUME NEW x
        PROVE  /\ At(counts, x) \in Nat /\ AllHits("stats", found, sites, B, x) <= At(counts, x)
               /\ At(counts, x) <= AllHits("stats", found, sites, L, x)
    <2>1. CASE x = "pageviews"
      <3>1. At(counts, x) = AllHits("stats", found, sites, P, x)
        BY <1>5, <1>8, <2>1 DEF At
      <3> QED
        BY <1>3, <3>1, InBetween
    <2>2. CASE x # "pageviews"
      <3>1. At(counts, x) = 0
        BY <1>5, <2>2 DEF At
      <3>2. \A e : x \notin Items("stats", found, e)
        BY <2>2, ItemsOfStats
      <3>3. AllHits("stats", found, sites, B, x) = 0 /\ AllHits("stats", found, sites, L, x) = 0
        BY <3>2, NoHits
      <3> QED
        BY <3>1, <3>3
    <2> QED
      BY <2>1, <2>2
  <1> QED
    BY <1>9 DEF Within, counts

\* An item that the answer to a call counts, or that no event counts for.
Counts(kind, found, n, body, calls, x) ==
    \/ n = 0 /\ \A e : x \notin Items(kind, found, e)
    \/ \E c \in calls : \E y :
          /\ c.ep \in Counting /\ n = At(body[c], y)
          /\ \A e : Shows(c, e, y) <=> x \in Items(kind, found, e)

LEMMA CountsWithin ==
    ASSUME NEW calls, NEW body, NEW sites, IsFiniteSet(sites), NEW B, NEW L,
           Stage(body, calls, sites, B, L), NEW kind, NEW found, NEW x, NEW n,
           Counts(kind, found, n, body, calls, x)
    PROVE  /\ n \in Nat /\ AllHits(kind, found, sites, B, x) <= n
           /\ n <= AllHits(kind, found, sites, L, x)
  <1>1. CASE n = 0 /\ \A e : x \notin Items(kind, found, e)
    <2>1. AllHits(kind, found, sites, B, x) = 0 /\ AllHits(kind, found, sites, L, x) = 0
      BY <1>1, NoHits
    <2> QED
      BY <1>1, <2>1
  <1>2. ASSUME NEW c \in calls, NEW y, c.ep \in Counting, n = At(body[c], y),
               \A e : Shows(c, e, y) <=> x \in Items(kind, found, e)
        PROVE  /\ n \in Nat /\ AllHits(kind, found, sites, B, x) <= n
               /\ n <= AllHits(kind, found, sites, L, x)
    <2>1. PICK rs : Answers(rs, c, sites, B, L, 1) /\ body[c] = Aggregate(c, rs)
      BY DEF Stage
    <2> QED
      BY <1>2, <2>1, SeenWithin
  <1> QED
    BY <1>1, <1>2 DEF Counts

LEMMA OneCall ==
    ASSUME NEW ep, NEW of, NEW calls, calls = {Call(ep, of)}, NEW body, NEW sites, NEW B, NEW L,
           Stage(body, calls, sites, B, L)
    PROVE  /\ Body(Taken(body), ep) = body[Call(ep, of)]
           /\ Call(ep, of) \in calls /\ Call(ep, of).ep = ep /\ Call(ep, of).of = of
  <1>1. Call(ep, of).ep = ep /\ Call(ep, of).of = of
    BY DEF Call
  <1> QED
    BY <1>1, BodyTaken DEF Stage

LEMMA OneCallWithin ==
    ASSUME NEW kind, kind \in {"pageviews", "resource-metrics", "searches", "event-values"} \cup ValueKinds,
           NEW calls, Plan(kind) = <<calls>>,
           NEW body, NEW sites, IsFiniteSet(sites), NEW B, NEW L, NEW found,
           Stage(body, calls, sites, B, L)
    PROVE  Within(kind, sites, found, Report(kind, Taken(body), found), B, L)
  <1> DEFINE counts == Report(kind, Taken(body), found)
             ok == \A x : Counts(kind, found, At(counts, x), body, calls, x)
  <1>1. ASSUME kind = "pageviews" PROVE ok
    <2> DEFINE c == Call("pageviews", "view")
    <2>1. calls = {c}
      BY <1>1, PlansAre
    <2>2. Body(Taken(body), "pageviews") = body[c] /\ c \in calls /\ c.ep = "pageviews" /\ c.of = "view"
      BY <2>1, OneCall
    <2>3. counts = body[c]
      BY <1>1, <2>2, ReportsAre
    <2>4. \A x, e : Shows(c, e, x) <=> x \in Items(kind, found, e)
      BY <1>1, <2>2, ShowsIs, ItemsOfPageviews
    <2> HIDE DEF c, counts
    <2> QED
      BY <2>2, <2>3, <2>4 DEF Counts, Counting
  <1>2. ASSUME kind = "resource-metrics" PROVE ok
    <2> DEFINE c == Call("path", "view")
    <2>1. calls = {c}
      BY <1>2, PlansAre
    <2>2. Body(Taken(body), "path") = body[c] /\ c \in calls /\ c.ep = "path" /\ c.of = "view"
      BY <2>1, OneCall
    <2>3. counts = Restricted(body[c], ResourcePaths)
      BY <1>2, <2>2, ReportsAre DEF ResourceMetrics
    <2>4. \A x, e : x \in Items(kind, found, e) <=> e.name = "view" /\ e.text = x /\ x \in ResourcePaths
      BY <1>2, ItemsOfPaths
    <2>5. \A x, e : Shows(c, e, x) <=> e.name = "view" /\ e.text = x
      BY <2>2, ShowsIs
    <2> HIDE DEF c, counts
    <2>6. \A x : At(counts, x) = IF x \in ResourcePaths THEN At(body[c], x) ELSE 0
      BY <2>3, RestrictedAt
    <2> QED
      BY <2>2, <2>4, <2>5, <2>6 DEF Counts, Counting
  <1>3. ASSUME kind = "searches" PROVE ok
    <2> DEFINE c == Call("query", "view")
               f == body[c]
    <2>1. calls = {c}
      BY <1>3, PlansAre
    <2>2. Body(Taken(body), "query") = f /\ c \in calls /\ c.ep = "query" /\ c.of = "view"
      BY <2>1, OneCall
    <2>3. counts = Restricted(f, {q \in DOMAIN f : q[1] \in SearchTypes})
      BY <1>3, <2>2, ReportsAre DEF Typed
    <2>4. \A x, e : x \in Items(kind, found, e)
                     <=> e.name = "view" /\ Query[e.text] # Nothing /\ x[1] \in SearchTypes /\ x = Query[e.text]
      BY <1>3, ItemsOfSearches
    <2>5. \A x, e : Shows(c, e, x) <=> e.name = "view" /\ Query[e.text] # Nothing /\ Query[e.text] = x
      BY <2>2, ShowsIs
    <2> HIDE DEF c, counts, f
    <2>6. \A x : At(counts, x) = IF x[1] \in SearchTypes THEN At(f, x) ELSE 0
      BY <2>3, RestrictedAt DEF At
    <2>7. f = body[c]
      BY DEF f
    <2> QED
      BY <2>2, <2>4, <2>5, <2>6, <2>7 DEF Counts, Counting
  <1>4. ASSUME kind \in ValueKinds PROVE ok
    <2> DEFINE c == Call("values", kind)
               f == body[c]
    <2>1. calls = {c}
      BY <1>4, PlansAre
    <2>2. Body(Taken(body), "values") = f /\ c \in calls /\ c.ep = "values" /\ c.of = kind
      BY <2>1, OneCall
    <2>3. counts = Restricted(f, DOMAIN f \ {NoText})
      BY <1>4, <2>2, ReportsAre DEF Entries, NoText
    <2>4. \A x, e : x \in Items(kind, found, e) <=> e.name = kind /\ e.text = x /\ x # NoText
      BY <1>4, ItemsOfEvents
    <2>5. \A x, e : Shows(c, e, x) <=> e.name = kind /\ e.text = x
      BY <2>2, ShowsIs
    <2> HIDE DEF c, counts, f
    <2>6. ASSUME NEW x PROVE At(counts, x) = IF x # NoText THEN At(f, x) ELSE 0
      <3>1. At(counts, x) = IF x \in DOMAIN f \ {NoText} THEN At(f, x) ELSE 0
        BY <2>3, RestrictedAt
      <3>2. x \in DOMAIN f \ {NoText} <=> x \in DOMAIN f /\ x # NoText
        OBVIOUS
      <3>3. x \notin DOMAIN f => At(f, x) = 0
        BY DEF At
      <3> QED
        BY <3>1, <3>2, <3>3
    <2>7. f = body[c]
      BY DEF f
    <2> QED
      BY <2>2, <2>4, <2>5, <2>6, <2>7 DEF Counts, Counting
  <1>5. ASSUME kind = "event-values" PROVE ok
    <2> DEFINE c == Call("values", ZeroResults)
    <2>1. calls = {c}
      BY <1>5, PlansAre
    <2>2. Body(Taken(body), "values") = body[c] /\ c \in calls /\ c.ep = "values" /\ c.of = ZeroResults
      BY <2>1, OneCall
    <2>3. counts = body[c]
      BY <1>5, <2>2, ReportsAre
    <2>4. \A x, e : Shows(c, e, x) <=> x \in Items(kind, found, e)
      BY <1>5, <2>2, ShowsIs, ItemsOfValues
    <2> HIDE DEF c, counts
    <2> QED
      BY <2>2, <2>3, <2>4 DEF Counts, Counting
  <1>6. ok
    BY <1>1, <1>2, <1>3, <1>4, <1>5
  <1> HIDE DEF counts
  <1>7. \A x : /\ At(counts, x) \in Nat /\ AllHits(kind, found, sites, B, x) <= At(counts, x)
               /\ At(counts, x) <= AllHits(kind, found, sites, L, x)
    BY <1>6, CountsWithin
  <1> QED
    BY <1>7 DEF Within, counts

\* The events whose text is one of some texts, counted text by text.
OneOf(c, L, T) == {i \in DOMAIN L : L[i].name = c.of /\ L[i].text \in T}
AllOneOf(c, sites, P, T) == SumFunction([w \in sites |-> Cardinality(OneOf(c, P[w], T))])

LEMMA OneOfMore ==
    ASSUME NEW c, c.ep = "path", NEW L, IsList(L), NEW T, NEW x, x \notin T
    PROVE  /\ Cardinality(OneOf(c, L, T)) \in Nat /\ Cardinality(Seen(c, L, x)) \in Nat
           /\ Cardinality(OneOf(c, L, T \cup {x})) = Cardinality(Seen(c, L, x)) + Cardinality(OneOf(c, L, T))
  <1>1. \A e : Shows(c, e, x) <=> e.name = c.of /\ e.text = x
    BY ShowsIs
  <1>2. OneOf(c, L, T \cup {x}) = Seen(c, L, x) \cup OneOf(c, L, T)
    BY <1>1 DEF OneOf, Seen
  <1>3. Seen(c, L, x) \cap OneOf(c, L, T) = {}
    BY <1>1 DEF OneOf, Seen
  <1>4. IsFiniteSet(Seen(c, L, x)) /\ Cardinality(Seen(c, L, x)) \in Nat
    BY SeenFinite
  <1>5. OneOf(c, L, T) \subseteq DOMAIN L
    BY DEF OneOf
  <1>6. IsFiniteSet(OneOf(c, L, T)) /\ Cardinality(OneOf(c, L, T)) \in Nat
    BY <1>5, PositionsFinite
  <1>7. Cardinality(Seen(c, L, x) \cup OneOf(c, L, T)) =
            Cardinality(Seen(c, L, x)) + Cardinality(OneOf(c, L, T)) - Cardinality(Seen(c, L, x) \cap OneOf(c, L, T))
    BY <1>4, <1>6, FS_Union
  <1>8. Cardinality(Seen(c, L, x) \cap OneOf(c, L, T)) = 0
    BY <1>3, FS_EmptySet
  <1> DEFINE a == Cardinality(Seen(c, L, x))
             b == Cardinality(OneOf(c, L, T))
             d == Cardinality(Seen(c, L, x) \cap OneOf(c, L, T))
             u == Cardinality(Seen(c, L, x) \cup OneOf(c, L, T))
  <1>9. a \in Nat /\ b \in Nat /\ d = 0 /\ u = a + b - d
    BY <1>4, <1>6, <1>7, <1>8
  <1>10. Cardinality(OneOf(c, L, T \cup {x})) = u
    BY <1>2
  <1> HIDE DEF a, b, d, u
  <1>11. Cardinality(OneOf(c, L, T \cup {x})) = a + b
    BY <1>9, <1>10
  <1> QED
    BY <1>9, <1>11 DEF a, b

LEMMA TotalIs ==
    ASSUME NEW c, c.ep = "path", NEW sites, IsFiniteSet(sites), NEW P, \A w \in sites : IsList(P[w]),
           NEW T, IsFiniteSet(T), NEW f, \A x : At(f, x) = AllSeen(c, sites, P, x) /\ At(f, x) \in Nat
    PROVE  Total(f, T) = AllOneOf(c, sites, P, T)
  <1> DEFINE g == [x \in T |-> At(f, x)]
  <1>1. g \in [T -> Nat] /\ Total(f, T) = SumFunction(g) /\ DOMAIN g = T /\ \A x \in T : g[x] = AllSeen(c, sites, P, x)
    BY DEF Total
  <1> HIDE DEF g
  <1>2. PICK s : SumsUp(g, s) /\ s[T] = SumFunction(g)
    BY <1>1, SumOf
  <1> DEFINE J == {S \in SUBSET T : s[S] = AllOneOf(c, sites, P, S)}
  <1>3. {} \in J
    <2> DEFINE k(w) == Cardinality(OneOf(c, P[w], {}))
               h == [w \in sites |-> k(w)]
    <2>1. \A w \in sites : OneOf(c, P[w], {}) = {}
      BY DEF OneOf
    <2>2. \A w \in sites : k(w) = 0
      BY <2>1, FS_EmptySet
    <2>4. AllOneOf(c, sites, P, {}) = SumFunction(h)
      BY DEF AllOneOf
    <2> HIDE DEF k
    <2>3. h \in [sites -> Nat] /\ \A w \in sites : h[w] = 0
      BY <2>2
    <2> HIDE DEF h
    <2>5. AllOneOf(c, sites, P, {}) = 0
      BY <2>3, <2>4, SumZero
    <2> QED
      BY <1>2, <2>5 DEF SumsUp
  <1>4. ASSUME NEW S \in SUBSET T, NEW x \in T \ S, S \in J PROVE S \cup {x} \in J
    <2> DEFINE k1(w) == Cardinality(Seen(c, P[w], x))
               k2(w) == Cardinality(OneOf(c, P[w], S))
               k3(w) == Cardinality(OneOf(c, P[w], S \cup {x}))
               h1 == [w \in sites |-> k1(w)]
               h2 == [w \in sites |-> k2(w)]
               h3 == [w \in sites |-> k3(w)]
    <2>1. s[S \cup {x}] = g[x] + s[S]
      BY <1>1, <1>2, AddedUp
    <2>2. \A w \in sites : k2(w) \in Nat /\ k1(w) \in Nat /\ k3(w) = k1(w) + k2(w)
      BY OneOfMore
    <2>4. /\ AllSeen(c, sites, P, x) = SumFunction(h1) /\ AllOneOf(c, sites, P, S) = SumFunction(h2)
          /\ AllOneOf(c, sites, P, S \cup {x}) = SumFunction(h3)
      BY DEF AllSeen, AllOneOf
    <2> HIDE DEF k1, k2, k3
    <2>3. /\ h1 \in [sites -> Nat] /\ h2 \in [sites -> Nat] /\ h3 \in [sites -> Nat]
          /\ \A w \in sites : h3[w] = h1[w] + h2[w]
      BY <2>2
    <2> HIDE DEF h1, h2, h3
    <2>5. SumFunction(h3) = SumFunction(h1) + SumFunction(h2)
      BY <2>3, SumPlus
    <2>6. s[S] = AllOneOf(c, sites, P, S)
      BY <1>4
    <2>7. g[x] = AllSeen(c, sites, P, x)
      BY <1>1
    <2>8. s[S \cup {x}] = AllOneOf(c, sites, P, S \cup {x})
      BY <2>1, <2>4, <2>5, <2>6, <2>7
    <2> QED
      BY <2>8
  <1> HIDE DEF J
  <1>5. T \in J
    BY <1>3, <1>4, GrowSet
  <1> QED
    BY <1>1, <1>2, <1>5 DEF J

LEMMA MetricsItems ==
    /\ <<"searches">> # <<"resourceViews">>
    /\ \A n : <<"event", n>> # <<"searches">> /\ <<"event", n>> # <<"resourceViews">>
    /\ \A found, e : <<"searches">> \in Items("metrics", found, e)
                        <=> e.name = "view" /\ e.text \in RootPaths
    /\ \A found, e : <<"resourceViews">> \in Items("metrics", found, e)
                        <=> e.name = "view" /\ e.text \in ResourcePaths
    /\ \A found, e, n : <<"event", n>> \in Items("metrics", found, e)
                        <=> n = e.name /\ e.name \notin {"view", "session"}
    /\ \A found, e, x : x \in Items("metrics", found, e)
                        => x = <<"searches">> \/ x = <<"resourceViews">> \/ \E n : x = <<"event", n>>
  <1>1. <<"searches">> # <<"resourceViews">>
    OBVIOUS
  <1>2. ASSUME NEW n PROVE <<"event", n>> # <<"searches">> /\ <<"event", n>> # <<"resourceViews">>
    <2>1. Len(<<"event", n>>) = 2 /\ Len(<<"searches">>) = 1 /\ Len(<<"resourceViews">>) = 1
      OBVIOUS
    <2> QED
      BY <2>1
  <1>3. ASSUME NEW m, NEW n PROVE <<"event", m>> = <<"event", n>> <=> m = n
    OBVIOUS
  <1>4. ASSUME NEW found, NEW e, NEW x
        PROVE  x \in Items("metrics", found, e)
                 <=> \/ x = <<"event", e.name>> /\ e.name \notin {"view", "session"}
                     \/ x = <<"searches">> /\ e.name = "view" /\ e.text \in RootPaths
                     \/ x = <<"resourceViews">> /\ e.name = "view" /\ e.text \in ResourcePaths
    BY DEF Items, ValueKinds, ZeroResults
  <1> QED
    BY <1>1, <1>2, <1>3, <1>4

LEMMA MetricsWithin ==
    ASSUME NEW calls, Plan("metrics") = <<calls>>,
           NEW body, NEW sites, IsFiniteSet(sites), NEW B, NEW L, NEW found,
           Stage(body, calls, sites, B, L)
    PROVE  Within("metrics", sites, found, Report("metrics", Taken(body), found), B, L)
  <1> DEFINE p == Call("path", "view")
             q == Call("query", "view")
             s == Call("series", Nothing)
             counts == Report("metrics", Taken(body), found)
  <1>1. p.ep = "path" /\ p.of = "view" /\ q.ep = "query" /\ s.ep = "series"
    BY DEF Call
  <1>2. calls = {p, q, s}
    BY PlansAre
  <1> HIDE DEF p, q, s
  <1>3. DOMAIN body = {p, q, s} /\ IsFiniteSet(DOMAIN body)
    BY <1>2 DEF Stage
  <1>4. Body(Taken(body), "path") = body[p]
    <2>1. p \in DOMAIN body /\ \A d \in DOMAIN body : d.ep = p.ep => d = p
      BY <1>1, <1>3
    <2>2. Body(Taken(body), p.ep) = body[p]
      BY <1>3, <2>1, BodyTaken
    <2> QED
      BY <1>1, <2>2
  <1>5. Body(Taken(body), "series") = body[s]
    <2>1. s \in DOMAIN body /\ \A d \in DOMAIN body : d.ep = s.ep => d = s
      BY <1>1, <1>3
    <2>2. Body(Taken(body), s.ep) = body[s]
      BY <1>3, <2>1, BodyTaken
    <2> QED
      BY <1>1, <2>2
  <1>6. counts = Metrics(body[p], body[s])
    BY <1>4, <1>5, ReportsAre
  <1> HIDE DEF counts
  <1>7. DOMAIN counts = {<<"searches">>, <<"resourceViews">>} \cup {<<"event", n>> : n \in DOMAIN body[s]}
    BY <1>6 DEF Metrics
  <1>8. /\ At(counts, <<"searches">>) = Total(body[p], RootPaths)
        /\ At(counts, <<"resourceViews">>) = Total(body[p], ResourcePaths)
        /\ \A n : At(counts, <<"event", n>>) = At(body[s], n)
    <2>1. <<"searches">> \in DOMAIN counts /\ counts[<<"searches">>] = Total(body[p], RootPaths)
      BY <1>6, <1>7 DEF Metrics
    <2>2. <<"resourceViews">> \in DOMAIN counts /\ counts[<<"resourceViews">>] = Total(body[p], ResourcePaths)
      BY <1>6, <1>7, MetricsItems DEF Metrics
    <2>3. ASSUME NEW n PROVE At(counts, <<"event", n>>) = At(body[s], n)
      <3>1. CASE n \in DOMAIN body[s]
        <4>1. <<"event", n>> \in DOMAIN counts /\ <<"event", n>>[2] = n
          BY <1>7, <3>1
        <4>2. counts[<<"event", n>>] = body[s][n]
          BY <1>6, <4>1, <1>7, MetricsItems DEF Metrics
        <4> QED
          BY <3>1, <4>1, <4>2 DEF At
      <3>2. CASE n \notin DOMAIN body[s]
        <4>1. \A m : <<"event", m>> = <<"event", n>> => m = n
          OBVIOUS
        <4>2. <<"event", n>> \notin DOMAIN counts
          BY <1>7, <3>2, <4>1, MetricsItems
        <4> QED
          BY <3>2, <4>2 DEF At
      <3> QED
        BY <3>1, <3>2
    <2> QED
      BY <2>1, <2>2, <2>3 DEF At
  <1>9. PICK rs : Answers(rs, p, sites, B, L, 1) /\ body[p] = Aggregate(p, rs)
    BY <1>2 DEF Stage
  <1>10. PICK P : AllStart(sites, B, P) /\ AllStart(sites, P, L) /\ rs = Responses(p, sites, P, 1)
    BY <1>9, AnswersAre
  <1>11. \A w \in sites : IsList(P[w])
    BY <1>10 DEF AllStart, Starts
  <1>12. \A x : At(body[p], x) = AllSeen(p, sites, P, x) /\ At(body[p], x) \in Nat
    <2>1. p.ep \in Counting
      BY <1>1 DEF Counting
    <2>2. \A x : At(Aggregate(p, rs), x) = AllSeen(p, sites, P, x) /\ AllSeen(p, sites, P, x) \in Nat
      BY <1>10, <1>11, <2>1, MergedAt
    <2> QED
      BY <1>9, <2>2
  <1>13. IsFiniteSet(RootPaths) /\ IsFiniteSet(ResourcePaths)
    BY UmamiAssumption
  <1>14. At(counts, <<"searches">>) = AllHits("metrics", found, sites, P, <<"searches">>)
    <2>1. Total(body[p], RootPaths) = AllOneOf(p, sites, P, RootPaths)
      BY <1>1, <1>11, <1>12, <1>13, TotalIs
    <2>2. \A w \in sites : OneOf(p, P[w], RootPaths) = Hits("metrics", found, P[w], <<"searches">>)
      BY <1>1, MetricsItems DEF OneOf, Hits
    <2>3. AllOneOf(p, sites, P, RootPaths) = AllHits("metrics", found, sites, P, <<"searches">>)
      BY <2>2 DEF AllOneOf, AllHits
    <2> QED
      BY <1>8, <2>1, <2>3
  <1>15. At(counts, <<"resourceViews">>) = AllHits("metrics", found, sites, P, <<"resourceViews">>)
    <2>1. Total(body[p], ResourcePaths) = AllOneOf(p, sites, P, ResourcePaths)
      BY <1>1, <1>11, <1>12, <1>13, TotalIs
    <2>2. \A w \in sites : OneOf(p, P[w], ResourcePaths) = Hits("metrics", found, P[w], <<"resourceViews">>)
      BY <1>1, MetricsItems DEF OneOf, Hits
    <2>3. AllOneOf(p, sites, P, ResourcePaths) = AllHits("metrics", found, sites, P, <<"resourceViews">>)
      BY <2>2 DEF AllOneOf, AllHits
    <2> QED
      BY <1>8, <2>1, <2>3
  <1>16. ASSUME NEW x
         PROVE  /\ At(counts, x) \in Nat /\ AllHits("metrics", found, sites, B, x) <= At(counts, x)
                /\ At(counts, x) <= AllHits("metrics", found, sites, L, x)
    <2>1. CASE x = <<"searches">> \/ x = <<"resourceViews">>
      <3>1. At(counts, x) = AllHits("metrics", found, sites, P, x)
        BY <1>14, <1>15, <2>1
      <3> QED
        BY <1>10, <3>1, InBetween
    <2>2. ASSUME NEW n, x = <<"event", n>>
          PROVE  /\ At(counts, x) \in Nat /\ AllHits("metrics", found, sites, B, x) <= At(counts, x)
                 /\ At(counts, x) <= AllHits("metrics", found, sites, L, x)
      <3>1. \A e : Shows(s, e, n) <=> x \in Items("metrics", found, e)
        BY <1>1, <2>2, ShowsIs, MetricsItems
      <3>2. At(counts, x) = At(body[s], n) /\ s.ep \in Counting /\ s \in calls
        BY <1>1, <1>2, <1>8, <2>2 DEF Counting
      <3>3. Counts("metrics", found, At(counts, x), body, calls, x)
        BY <3>1, <3>2 DEF Counts
      <3> QED
        BY <3>3, CountsWithin
    <2>3. CASE x # <<"searches">> /\ x # <<"resourceViews">> /\ \A n : x # <<"event", n>>
      <3>1. At(counts, x) = 0
        BY <1>7, <2>3 DEF At
      <3>2. \A e : x \notin Items("metrics", found, e)
        BY <2>3, MetricsItems
      <3>3. Counts("metrics", found, At(counts, x), body, calls, x)
        BY <3>1, <3>2 DEF Counts
      <3> QED
        BY <3>3, CountsWithin
    <2> QED
      BY <2>1, <2>2, <2>3
  <1> QED
    BY <1>16 DEF Within, counts

-----------------------------------------------------------------------------
(* The reports that are read page by page.                                 *)

Paging == {"pivot", "keys", "sessions", "sessionPage"}
PageAll(sites, P, of, S, p, size) ==
    SumFunction([w \in sites |-> CountIn(PageOf(Named(P[w], of), p, size), S)])

\* What one page of all websites has.
BringsPage(new, sites, P, of, p, size) ==
    IsList(new) /\ \A S : CountIn(new, S) = PageAll(sites, P, of, S, p, size)

\* Rows that some websites have of an event.
RowsOf(rows, of, sites, P) ==
    \A e \in ToSet(rows) : e.name = of /\ \E w \in sites : e \in ToSet(P[w])

LEMMA PagedAnswer ==
    ASSUME NEW c, c.ep \in Paging, NEW sites, IsFiniteSet(sites), NEW P, \A w \in sites : IsList(P[w]),
           NEW p \in Nat \ {0}, NEW rs, rs = Responses(c, sites, P, p)
    PROVE  LET a == Aggregate(c, rs) IN
           /\ IsList(a.data) /\ a.count = SumFunction([w \in sites |-> Len(Named(P[w], c.of))])
           /\ ToSet(a.data) = UNION {ToSet(PageOf(Named(P[w], c.of), p, Size(c))) : w \in sites}
           /\ RowsOf(a.data, c.of, sites, P)
           /\ BringsPage(a.data, sites, P, c.of, p, Size(c))
  <1> DEFINE a == Aggregate(c, rs)
             rows(w) == Named(P[w], c.of)
             part(w) == PageOf(rows(w), p, Size(c))
  <1>1. \A w \in sites : Response(c, P[w], p, Size(c)) = [data |-> part(w), count |-> Len(rows(w))]
    BY DEF Response, Paging
  <1>2. DOMAIN rs = sites /\ \A w \in sites : rs[w] = [data |-> part(w), count |-> Len(rows(w))]
    BY <1>1 DEF Responses
  <1>3. a.data = Gathered(rs) /\ a.count = SumFunction([w \in DOMAIN rs |-> rs[w].count])
    BY DEF Aggregate, Gathered, Paging
  <1>4. ASSUME NEW w \in sites
        PROVE  /\ IsList(part(w)) /\ ToSet(part(w)) \subseteq ToSet(rows(w))
               /\ ToSet(rows(w)) = {e \in ToSet(P[w]) : e.name = c.of}
    <2>1. IsList(rows(w)) /\ ToSet(rows(w)) = {e \in ToSet(P[w]) : e.name = c.of}
      BY NamedIs
    <2>2. Size(c) \in Nat
      BY UmamiAssumption DEF Size
    <2> HIDE DEF rows
    <2>3. IsList(part(w)) /\ ToSet(part(w)) \subseteq ToSet(rows(w))
      BY <2>1, <2>2, PageCounts
    <2> QED
      BY <2>1, <2>3
  <1>5. [w \in DOMAIN rs |-> rs[w].count] = [w \in sites |-> Len(rows(w))]
    BY <1>2
  <1>6. a.count = SumFunction([w \in sites |-> Len(rows(w))])
    BY <1>3, <1>5
  <1>7. \A w \in sites : rs[w].data = part(w)
    BY <1>2
  <1>8. \A S : PageAll(sites, P, c.of, S, p, Size(c)) = SumFunction([w \in sites |-> CountIn(part(w), S)])
    BY DEF PageAll
  <1>9. \A w \in sites : ToSet(part(w)) \subseteq {e \in ToSet(P[w]) : e.name = c.of}
    BY <1>4
  <1> HIDE DEF part, rows, a
  <1>10. /\ IsList(Gathered(rs))
         /\ ToSet(Gathered(rs)) = UNION {ToSet(rs[w].data) : w \in sites}
         /\ \A S : CountIn(Gathered(rs), S) = SumFunction([w \in sites |-> CountIn(rs[w].data, S)])
    BY <1>2, <1>4, <1>7, GatheredIs
  <1>11. ToSet(a.data) = UNION {ToSet(part(w)) : w \in sites}
    BY <1>3, <1>7, <1>10
  <1>12. ASSUME NEW S PROVE CountIn(a.data, S) = PageAll(sites, P, c.of, S, p, Size(c))
    <2>1. [w \in sites |-> CountIn(rs[w].data, S)] = [w \in sites |-> CountIn(part(w), S)]
      BY <1>7
    <2>2. CountIn(a.data, S) = SumFunction([w \in sites |-> CountIn(rs[w].data, S)])
      BY <1>3, <1>10
    <2> QED
      BY <1>8, <2>1, <2>2
  <1>13. RowsOf(a.data, c.of, sites, P)
    <2>1. \A e \in ToSet(a.data) : \E w \in sites : e \in ToSet(part(w))
      BY <1>11
    <2> QED
      BY <1>9, <2>1 DEF RowsOf
  <1>14. BringsPage(a.data, sites, P, c.of, p, Size(c))
    BY <1>3, <1>10, <1>12 DEF BringsPage
  <1> QED
    BY <1>3, <1>6, <1>10, <1>11, <1>13, <1>14 DEF a, rows, part

\* What m pages have brought: rows, between the fewest and the most.
FewestAll(sites, B, P, of, S, m) == SumFunction([w \in sites |-> Fewest(B[w], P[w], of, S, m)])
MostAll(sites, B, P, of, S, m) == SumFunction([w \in sites |-> Most(B[w], P[w], of, S, m)])
Reading(sites, B, P, of, m, rows) ==
    /\ IsList(rows)
    /\ \A S : /\ FewestAll(sites, B, P, of, S, m) <= CountIn(rows, S)
              /\ CountIn(rows, S) <= MostAll(sites, B, P, of, S, m)

LEMMA NotYetRead ==
    ASSUME NEW sites, IsFiniteSet(sites), NEW B, \A w \in sites : IsList(B[w]), NEW of
    PROVE  Reading(sites, B, B, of, 0, <<>>)
  <1> SUFFICES ASSUME NEW S
               PROVE  FewestAll(sites, B, B, of, S, 0) = 0 /\ MostAll(sites, B, B, of, S, 0) = 0
    BY SmallLists DEF Reading
  <1> DEFINE k1(w) == Fewest(B[w], B[w], of, S, 0)
             k2(w) == Most(B[w], B[w], of, S, 0)
             f == [w \in sites |-> k1(w)]
             g == [w \in sites |-> k2(w)]
  <1>1. \A w \in sites : k1(w) = 0 /\ k2(w) = 0
    BY NoPages
  <1>2. FewestAll(sites, B, B, of, S, 0) = SumFunction(f) /\ MostAll(sites, B, B, of, S, 0) = SumFunction(g)
    BY DEF FewestAll, MostAll
  <1> HIDE DEF k1, k2
  <1>3. /\ f \in [sites -> Nat] /\ \A w \in sites : f[w] = 0
        /\ g \in [sites -> Nat] /\ \A w \in sites : g[w] = 0
    BY <1>1
  <1> HIDE DEF f, g
  <1>4. SumFunction(f) = 0 /\ SumFunction(g) = 0
    BY <1>3, SumZero
  <1> QED
    BY <1>2, <1>4

LEMMA ReadOn ==
    ASSUME NEW sites, IsFiniteSet(sites), NEW B, NEW P, NEW Q, AllStart(sites, B, P), AllStart(sites, P, Q),
           NEW of, NEW m \in Nat, NEW rows, Reading(sites, B, P, of, m, rows),
           NEW new, IsList(new),
           \A S : CountIn(new, S) = PageAll(sites, Q, of, S, m + 1, PageSize)
    PROVE  Reading(sites, B, Q, of, m + 1, rows \o new)
  <1>1. IsList(rows) /\ IsList(rows \o new) /\ \A S : CountIn(rows \o new, S) = CountIn(rows, S) + CountIn(new, S)
    BY ListConcat DEF Reading
  <1>2. ASSUME NEW S
        PROVE  /\ FewestAll(sites, B, Q, of, S, m + 1) <= CountIn(rows \o new, S)
               /\ CountIn(rows \o new, S) <= MostAll(sites, B, Q, of, S, m + 1)
    <2> DEFINE k1(w) == Fewest(B[w], P[w], of, S, m)
               k2(w) == Fewest(B[w], Q[w], of, S, m + 1)
               k3(w) == Most(B[w], P[w], of, S, m)
               k4(w) == Most(B[w], Q[w], of, S, m + 1)
               k5(w) == CountIn(PageOf(Named(Q[w], of), m + 1, PageSize), S)
               f1 == [w \in sites |-> k1(w)]
               f2 == [w \in sites |-> k2(w)]
               f3 == [w \in sites |-> k3(w)]
               f4 == [w \in sites |-> k4(w)]
               f5 == [w \in sites |-> k5(w)]
               g1 == [w \in sites |-> k1(w) + k5(w)]
               g3 == [w \in sites |-> k3(w) + k5(w)]
    <2>1. \A w \in sites : /\ k5(w) \in Nat /\ k1(w) \in Nat /\ k2(w) \in Nat /\ k3(w) \in Nat /\ k4(w) \in Nat
                           /\ k2(w) <= k1(w) + k5(w) /\ k3(w) + k5(w) <= k4(w)
      <3> TAKE w \in sites
      <3>1. Starts(B[w], P[w]) /\ Starts(P[w], Q[w])
        BY DEF AllStart
      <3> QED
        BY <3>1, PageStep
    <2>2. /\ FewestAll(sites, B, P, of, S, m) = SumFunction(f1)
          /\ FewestAll(sites, B, Q, of, S, m + 1) = SumFunction(f2)
          /\ MostAll(sites, B, P, of, S, m) = SumFunction(f3)
          /\ MostAll(sites, B, Q, of, S, m + 1) = SumFunction(f4)
          /\ PageAll(sites, Q, of, S, m + 1, PageSize) = SumFunction(f5)
      BY DEF FewestAll, MostAll, PageAll
    <2> HIDE DEF k1, k2, k3, k4, k5
    <2>3. /\ f1 \in [sites -> Nat] /\ f2 \in [sites -> Nat] /\ f3 \in [sites -> Nat] /\ f4 \in [sites -> Nat]
          /\ f5 \in [sites -> Nat] /\ g1 \in [sites -> Nat] /\ g3 \in [sites -> Nat]
          /\ \A w \in sites : /\ g1[w] = f1[w] + f5[w] /\ g3[w] = f3[w] + f5[w]
                              /\ f2[w] <= g1[w] /\ g3[w] <= f4[w]
      BY <2>1
    <2> HIDE DEF f1, f2, f3, f4, f5, g1, g3
    <2>4. SumFunction(g1) = SumFunction(f1) + SumFunction(f5)
      BY <2>3, SumPlus
    <2>5. SumFunction(g3) = SumFunction(f3) + SumFunction(f5)
      BY <2>3, SumPlus
    <2>6. SumFunction(f2) <= SumFunction(g1)
      BY <2>3, SumMono
    <2>7. SumFunction(g3) <= SumFunction(f4)
      BY <2>3, SumMono
    <2>8. SumFunction(f1) <= CountIn(rows, S) /\ CountIn(rows, S) <= SumFunction(f3)
      BY <2>2 DEF Reading
    <2>9. CountIn(rows \o new, S) = CountIn(rows, S) + SumFunction(f5) /\ CountIn(rows, S) \in Nat
      BY <1>1, <2>2, CountIsNat
    <2>10. /\ SumFunction(f1) \in Nat /\ SumFunction(f2) \in Nat /\ SumFunction(f3) \in Nat
           /\ SumFunction(f4) \in Nat /\ SumFunction(f5) \in Nat
      BY <2>3, SumNat
    <2>11. SumFunction(f2) <= CountIn(rows \o new, S) /\ CountIn(rows \o new, S) <= SumFunction(f4)
      BY <2>4, <2>5, <2>6, <2>7, <2>8, <2>9, <2>10
    <2> QED
      BY <2>2, <2>11
  <1> QED
    BY <1>1, <1>2 DEF Reading

\* The events of some names.
NamesIn(L, N, S) == Cardinality({i \in DOMAIN L : L[i].name \in N /\ L[i] \in S})
NameCount(L, N) == Cardinality({i \in DOMAIN L : L[i].name \in N})

LEMMA NamesNat ==
    ASSUME NEW L, IsList(L), NEW N, NEW S
    PROVE  NamesIn(L, N, S) \in Nat /\ NameCount(L, N) \in Nat
  <1>1. /\ {i \in DOMAIN L : L[i].name \in N /\ L[i] \in S} \subseteq DOMAIN L
        /\ {i \in DOMAIN L : L[i].name \in N} \subseteq DOMAIN L
    OBVIOUS
  <1> QED
    BY <1>1, PositionsFinite DEF NamesIn, NameCount

LEMMA NamesAre ==
    ASSUME NEW L, IsList(L), NEW of
    PROVE  /\ \A S : NamesIn(L, {of}, S) = NamedIn(L, of, S)
           /\ NameCount(L, {of}) = Len(Named(L, of))
  <1>1. ASSUME NEW S PROVE NamesIn(L, {of}, S) = NamedIn(L, of, S)
    <2>1. {i \in DOMAIN L : L[i].name \in {of} /\ L[i] \in S} = {i \in DOMAIN L : L[i].name = of /\ L[i] \in S}
      OBVIOUS
    <2> QED
      BY <2>1 DEF NamesIn, NamedIn
  <1>2. {i \in DOMAIN L : L[i].name = of /\ L[i] \in ToSet(L)} = {i \in DOMAIN L : L[i].name \in {of}}
    BY DEF ToSet
  <1>3. NamedIn(L, of, ToSet(L)) = NameCount(L, {of})
    BY <1>2 DEF NamedIn, NameCount
  <1>4. IsList(Named(L, of)) /\ ToSet(Named(L, of)) \subseteq ToSet(L)
        /\ CountIn(Named(L, of), ToSet(L)) = NamedIn(L, of, ToSet(L))
    BY NamedIs
  <1>5. CountIn(Named(L, of), ToSet(L)) = Len(Named(L, of))
    BY <1>4, CountAll
  <1> QED
    BY <1>1, <1>3, <1>4, <1>5

LEMMA TwoParts ==
    ASSUME NEW A, IsFiniteSet(A), NEW B, IsFiniteSet(B), A \cap B = {}, NEW C, C = A \cup B
    PROVE  Cardinality(C) = Cardinality(A) + Cardinality(B)
  <1>1. Cardinality(A \cup B) = Cardinality(A) + Cardinality(B) - Cardinality(A \cap B)
    BY FS_Union
  <1>2. Cardinality(A \cap B) = 0
    BY FS_EmptySet
  <1>3. Cardinality(A) \in Nat /\ Cardinality(B) \in Nat
    BY FS_CardinalityType
  <1> QED
    BY <1>1, <1>2, <1>3

LEMMA NamesPlus ==
    ASSUME NEW L, IsList(L), NEW M, NEW N, M \cap N = {}
    PROVE  /\ \A S : NamesIn(L, M \cup N, S) = NamesIn(L, M, S) + NamesIn(L, N, S)
           /\ NameCount(L, M \cup N) = NameCount(L, M) + NameCount(L, N)
  <1>1. ASSUME NEW S PROVE NamesIn(L, M \cup N, S) = NamesIn(L, M, S) + NamesIn(L, N, S)
    <2> DEFINE A == {i \in DOMAIN L : L[i].name \in M /\ L[i] \in S}
               B == {i \in DOMAIN L : L[i].name \in N /\ L[i] \in S}
               C == {i \in DOMAIN L : L[i].name \in M \cup N /\ L[i] \in S}
    <2>1. A \subseteq DOMAIN L /\ B \subseteq DOMAIN L /\ A \cap B = {} /\ C = A \cup B
      OBVIOUS
    <2> HIDE DEF A, B, C
    <2>2. IsFiniteSet(A) /\ IsFiniteSet(B)
      BY <2>1, PositionsFinite
    <2> QED
      BY <2>1, <2>2, TwoParts DEF NamesIn, A, B, C
  <1>2. NameCount(L, M \cup N) = NameCount(L, M) + NameCount(L, N)
    <2> DEFINE A == {i \in DOMAIN L : L[i].name \in M}
               B == {i \in DOMAIN L : L[i].name \in N}
               C == {i \in DOMAIN L : L[i].name \in M \cup N}
    <2>1. A \subseteq DOMAIN L /\ B \subseteq DOMAIN L /\ A \cap B = {} /\ C = A \cup B
      OBVIOUS
    <2> HIDE DEF A, B, C
    <2>2. IsFiniteSet(A) /\ IsFiniteSet(B)
      BY <2>1, PositionsFinite
    <2> QED
      BY <2>1, <2>2, TwoParts DEF NameCount, A, B, C
  <1> QED
    BY <1>1, <1>2

LEMMA NamesGrow ==
    ASSUME NEW P, NEW L, Starts(P, L), NEW N
    PROVE  /\ \A S : NamesIn(P, N, S) <= NamesIn(L, N, S)
           /\ NameCount(P, N) <= NameCount(L, N)
           /\ NameCount(L, N) - NameCount(P, N) <= Len(L) - Len(P)
  <1>1. PICK a \in Nat, b \in Nat : /\ a = Len(P) /\ b = Len(L) /\ a <= b /\ DOMAIN P = 1..a /\ DOMAIN L = 1..b
                                    /\ IsList(P) /\ IsList(L) /\ \A i \in 1..a : P[i] = L[i]
    BY ListLen DEF Starts
  <1>2. \A i \in 1..a : i \in 1..b
    BY <1>1
  <1>3. ASSUME NEW S PROVE NamesIn(P, N, S) <= NamesIn(L, N, S)
    <2> DEFINE A == {i \in DOMAIN P : P[i].name \in N /\ P[i] \in S}
               B == {i \in DOMAIN L : L[i].name \in N /\ L[i] \in S}
    <2>1. A \subseteq B /\ B \subseteq DOMAIN L
      BY <1>1, <1>2
    <2> HIDE DEF A, B
    <2>2. IsFiniteSet(B)
      BY <1>1, <2>1, PositionsFinite
    <2> QED
      BY <2>1, <2>2, FS_Subset DEF NamesIn, A, B
  <1> DEFINE S == {e \in ToSet(L) : e.name \in N}
  <1>4. NameCount(P, N) = CountUpto(L, S, a)
    <2>1. {i \in DOMAIN P : P[i].name \in N} = {i \in 1..a : L[i] \in S}
      BY <1>1, <1>2 DEF ToSet
    <2> QED
      BY <2>1 DEF NameCount, CountUpto
  <1>5. NameCount(L, N) = CountUpto(L, S, b)
    <2>1. {i \in DOMAIN L : L[i].name \in N} = {i \in 1..b : L[i] \in S}
      BY <1>1 DEF ToSet
    <2> QED
      BY <2>1 DEF NameCount, CountUpto
  <1> HIDE DEF S
  <1>6. /\ CountUpto(L, S, a) \in Nat /\ CountUpto(L, S, b) \in Nat /\ CountBetween(L, S, a, b) \in Nat
        /\ CountUpto(L, S, b) = CountUpto(L, S, a) + CountBetween(L, S, a, b)
        /\ CountBetween(L, S, a, b) <= b - a
    BY <1>1, CountGrows
  <1> QED
    BY <1>1, <1>3, <1>4, <1>5, <1>6

\* The same, for some websites.
AllNames(sites, L, N, S) == SumFunction([w \in sites |-> NamesIn(L[w], N, S)])
LateNames(sites, B, L, N) == SumFunction([w \in sites |-> NameCount(L[w], N) - NameCount(B[w], N)])

LEMMA AllNamesPlus ==
    ASSUME NEW sites, IsFiniteSet(sites), NEW L, AllStart(sites, L, L), NEW M, NEW N, M \cap N = {}, NEW S
    PROVE  /\ AllNames(sites, L, M, S) \in Nat /\ AllNames(sites, L, N, S) \in Nat
           /\ AllNames(sites, L, M \cup N, S) = AllNames(sites, L, M, S) + AllNames(sites, L, N, S)
  <1> DEFINE k1(w) == NamesIn(L[w], M, S)
             k2(w) == NamesIn(L[w], N, S)
             k3(w) == NamesIn(L[w], M \cup N, S)
             f1 == [w \in sites |-> k1(w)]
             f2 == [w \in sites |-> k2(w)]
             f3 == [w \in sites |-> k3(w)]
  <1>1. \A w \in sites : k1(w) \in Nat /\ k2(w) \in Nat /\ k3(w) = k1(w) + k2(w)
    <2> TAKE w \in sites
    <2>1. IsList(L[w])
      BY DEF AllStart, Starts
    <2>2. k1(w) \in Nat /\ k2(w) \in Nat
      BY <2>1, NamesNat
    <2>3. k3(w) = k1(w) + k2(w)
      BY <2>1, NamesPlus
    <2> QED
      BY <2>2, <2>3
  <1>2. /\ AllNames(sites, L, M, S) = SumFunction(f1) /\ AllNames(sites, L, N, S) = SumFunction(f2)
        /\ AllNames(sites, L, M \cup N, S) = SumFunction(f3)
    BY DEF AllNames
  <1> HIDE DEF k1, k2, k3
  <1>3. /\ f1 \in [sites -> Nat] /\ f2 \in [sites -> Nat] /\ f3 \in [sites -> Nat]
        /\ \A w \in sites : f3[w] = f1[w] + f2[w]
    BY <1>1
  <1> HIDE DEF f1, f2, f3
  <1> QED
    BY <1>2, <1>3, SumPlus, SumNat

LEMMA LateNamesPlus ==
    ASSUME NEW sites, IsFiniteSet(sites), NEW B, NEW L, AllStart(sites, B, L), NEW M, NEW N, M \cap N = {}
    PROVE  LateNames(sites, B, L, M \cup N) = LateNames(sites, B, L, M) + LateNames(sites, B, L, N)
  <1> DEFINE k1(w) == NameCount(L[w], M) - NameCount(B[w], M)
             k2(w) == NameCount(L[w], N) - NameCount(B[w], N)
             k3(w) == NameCount(L[w], M \cup N) - NameCount(B[w], M \cup N)
             f1 == [w \in sites |-> k1(w)]
             f2 == [w \in sites |-> k2(w)]
             f3 == [w \in sites |-> k3(w)]
  <1>1. ASSUME NEW w \in sites PROVE k1(w) \in Nat /\ k2(w) \in Nat /\ k3(w) = k1(w) + k2(w)
    <2>1. Starts(B[w], L[w]) /\ IsList(B[w]) /\ IsList(L[w])
      BY DEF AllStart, Starts
    <2>2. /\ NameCount(L[w], M) \in Nat /\ NameCount(B[w], M) \in Nat
          /\ NameCount(L[w], N) \in Nat /\ NameCount(B[w], N) \in Nat
          /\ NameCount(B[w], M) <= NameCount(L[w], M) /\ NameCount(B[w], N) <= NameCount(L[w], N)
      BY <2>1, NamesNat, NamesGrow
    <2>3. /\ NameCount(L[w], M \cup N) = NameCount(L[w], M) + NameCount(L[w], N)
          /\ NameCount(B[w], M \cup N) = NameCount(B[w], M) + NameCount(B[w], N)
      BY <2>1, NamesPlus
    <2> QED
      BY <2>2, <2>3
  <1>2. /\ LateNames(sites, B, L, M) = SumFunction(f1) /\ LateNames(sites, B, L, N) = SumFunction(f2)
        /\ LateNames(sites, B, L, M \cup N) = SumFunction(f3)
    BY DEF LateNames
  <1> HIDE DEF k1, k2, k3
  <1>3. /\ f1 \in [sites -> Nat] /\ f2 \in [sites -> Nat] /\ f3 \in [sites -> Nat]
        /\ \A w \in sites : f3[w] = f1[w] + f2[w]
    BY <1>1
  <1> HIDE DEF f1, f2, f3
  <1> QED
    BY <1>2, <1>3, SumPlus

LEMMA SomeDifferences ==
    ASSUME NEW a \in Nat, NEW b \in Nat, NEW c \in Nat, a <= b, b <= c
    PROVE  b - a \in Nat /\ c - a \in Nat /\ b - a <= c - a
OBVIOUS

LEMMA AllNamesGrow ==
    ASSUME NEW sites, IsFiniteSet(sites), NEW B, NEW P, NEW L, AllStart(sites, B, P), AllStart(sites, P, L), NEW N
    PROVE  /\ LateNames(sites, B, P, N) \in Nat /\ LateNames(sites, B, L, N) \in Nat
           /\ LateNames(sites, B, P, N) <= LateNames(sites, B, L, N)
           /\ LateNames(sites, B, P, N) <= Arrived(sites, B, P)
           /\ \A S : /\ AllNames(sites, P, N, S) \in Nat /\ AllNames(sites, L, N, S) \in Nat
                     /\ AllNames(sites, P, N, S) <= AllNames(sites, L, N, S)
  <1> DEFINE k1(w) == NameCount(P[w], N) - NameCount(B[w], N)
             k2(w) == NameCount(L[w], N) - NameCount(B[w], N)
             k3(w) == Len(P[w]) - Len(B[w])
             f1 == [w \in sites |-> k1(w)]
             f2 == [w \in sites |-> k2(w)]
             f3 == [w \in sites |-> k3(w)]
  <1>1. ASSUME NEW w \in sites PROVE k1(w) \in Nat /\ k2(w) \in Nat /\ k3(w) \in Nat /\ k1(w) <= k2(w) /\ k1(w) <= k3(w)
    <2>1. /\ Starts(B[w], P[w]) /\ Starts(P[w], L[w]) /\ IsList(B[w]) /\ IsList(P[w]) /\ IsList(L[w])
          /\ Len(B[w]) <= Len(P[w]) /\ Len(B[w]) \in Nat /\ Len(P[w]) \in Nat
      BY ListLen DEF AllStart, Starts
    <2>2. NameCount(L[w], N) \in Nat /\ NameCount(B[w], N) \in Nat /\ NameCount(P[w], N) \in Nat
      BY <2>1, NamesNat
    <2>3. /\ NameCount(B[w], N) <= NameCount(P[w], N) /\ NameCount(P[w], N) <= NameCount(L[w], N)
          /\ NameCount(P[w], N) - NameCount(B[w], N) <= Len(P[w]) - Len(B[w])
      BY <2>1, NamesGrow
    <2>4. /\ NameCount(P[w], N) - NameCount(B[w], N) \in Nat /\ NameCount(L[w], N) - NameCount(B[w], N) \in Nat
          /\ NameCount(P[w], N) - NameCount(B[w], N) <= NameCount(L[w], N) - NameCount(B[w], N)
      BY <2>2, <2>3, SomeDifferences
    <2>5. Len(P[w]) - Len(B[w]) \in Nat
      BY <2>1
    <2> QED
      BY <2>3, <2>4, <2>5
  <1>2. /\ LateNames(sites, B, P, N) = SumFunction(f1) /\ LateNames(sites, B, L, N) = SumFunction(f2)
        /\ Arrived(sites, B, P) = SumFunction(f3)
    BY DEF LateNames, Arrived
  <1> HIDE DEF k1, k2, k3
  <1>3. /\ f1 \in [sites -> Nat] /\ f2 \in [sites -> Nat] /\ f3 \in [sites -> Nat]
        /\ \A w \in sites : f1[w] <= f2[w] /\ f1[w] <= f3[w]
    BY <1>1
  <1> HIDE DEF f1, f2, f3
  <1>4. SumFunction(f1) \in Nat /\ SumFunction(f2) \in Nat /\ SumFunction(f1) <= SumFunction(f2)
        /\ SumFunction(f1) <= SumFunction(f3)
    BY <1>3, SumMono, SumNat
  <1>5. ASSUME NEW S
        PROVE  /\ AllNames(sites, P, N, S) \in Nat /\ AllNames(sites, L, N, S) \in Nat
               /\ AllNames(sites, P, N, S) <= AllNames(sites, L, N, S)
    <2> DEFINE j1(w) == NamesIn(P[w], N, S)
               j2(w) == NamesIn(L[w], N, S)
               g1 == [w \in sites |-> j1(w)]
               g2 == [w \in sites |-> j2(w)]
    <2>1. \A w \in sites : j1(w) \in Nat /\ j2(w) \in Nat /\ j1(w) <= j2(w)
      BY NamesNat, NamesGrow DEF AllStart, Starts
    <2>2. AllNames(sites, P, N, S) = SumFunction(g1) /\ AllNames(sites, L, N, S) = SumFunction(g2)
      BY DEF AllNames
    <2> HIDE DEF j1, j2
    <2>3. g1 \in [sites -> Nat] /\ g2 \in [sites -> Nat] /\ \A w \in sites : g1[w] <= g2[w]
      BY <2>1
    <2> HIDE DEF g1, g2
    <2> QED
      BY <2>2, <2>3, SumMono, SumNat
  <1> QED
    BY <1>2, <1>4, <1>5

\* Rows that lack no more events of some names than arrived meanwhile, and
\* rows that hold no more of them too many.
EnoughOf(sites, B, L, N, rows) ==
    /\ IsList(rows)
    /\ \A S : AllNames(sites, B, N, S) <= CountIn(rows, S) + LateNames(sites, B, L, N)
NoMoreOf(sites, B, L, N, rows) ==
    /\ IsList(rows)
    /\ \A S : CountIn(rows, S) <= AllNames(sites, L, N, S) + LateNames(sites, B, L, N)

LEMMA ReadEnd ==
    ASSUME NEW sites, IsFiniteSet(sites), NEW B, NEW P, AllStart(sites, B, P), NEW of, NEW m \in Nat,
           NEW rows, Reading(sites, B, P, of, m, rows)
    PROVE  /\ NoMoreOf(sites, B, P, {of}, rows)
           /\ (\A w \in sites : m * PageSize >= Len(Named(B[w], of)) \/ LeftOf(P[w], of, m) = 0)
                    => EnoughOf(sites, B, P, {of}, rows)
  <1> DEFINE late(w) == NameCount(P[w], {of}) - NameCount(B[w], {of})
             fl == [w \in sites |-> late(w)]
             all == \A w \in sites : m * PageSize >= Len(Named(B[w], of)) \/ LeftOf(P[w], of, m) = 0
  <1>1. \A w \in sites : Starts(B[w], P[w]) /\ IsList(B[w]) /\ IsList(P[w])
    BY DEF AllStart, Starts
  <1>2. \A w \in sites : late(w) = Len(Named(P[w], of)) - Len(Named(B[w], of))
    BY <1>1, NamesAre
  <1>3. LateNames(sites, B, P, {of}) = SumFunction(fl)
    BY DEF LateNames
  <1>4. \A w \in sites : late(w) \in Nat
    BY <1>1, <1>2, PagesEnd
  <1> HIDE DEF late
  <1>5. fl \in [sites -> Nat] /\ \A w \in sites : fl[w] = late(w)
    BY <1>4
  <1> HIDE DEF fl, all
  <1>6. ASSUME NEW S
        PROVE  /\ CountIn(rows, S) <= AllNames(sites, P, {of}, S) + LateNames(sites, B, P, {of})
               /\ all => AllNames(sites, B, {of}, S) <= CountIn(rows, S) + LateNames(sites, B, P, {of})
    <2> DEFINE k1(w) == Fewest(B[w], P[w], of, S, m)
               k2(w) == Most(B[w], P[w], of, S, m)
               k3(w) == NamesIn(B[w], {of}, S)
               k4(w) == NamesIn(P[w], {of}, S)
               f1 == [w \in sites |-> k1(w)]
               f2 == [w \in sites |-> k2(w)]
               f3 == [w \in sites |-> k3(w)]
               f4 == [w \in sites |-> k4(w)]
               g1 == [w \in sites |-> k1(w) + late(w)]
               g4 == [w \in sites |-> k4(w) + late(w)]
    <2>1. /\ FewestAll(sites, B, P, of, S, m) = SumFunction(f1)
          /\ MostAll(sites, B, P, of, S, m) = SumFunction(f2)
          /\ AllNames(sites, B, {of}, S) = SumFunction(f3)
          /\ AllNames(sites, P, {of}, S) = SumFunction(f4)
      BY DEF FewestAll, MostAll, AllNames
    <2>2. ASSUME NEW w \in sites
          PROVE  /\ k1(w) \in Nat /\ k2(w) \in Nat /\ k3(w) \in Nat /\ k4(w) \in Nat
                 /\ k2(w) <= k4(w) + late(w) /\ (all => k3(w) <= k1(w) + late(w))
      <3>1. Starts(B[w], P[w]) /\ Starts(P[w], P[w]) /\ IsList(B[w]) /\ IsList(P[w])
        BY <1>1, StartsIs
      <3>2. k1(w) \in Nat /\ k2(w) \in Nat
        BY <3>1, PageStep
      <3>3. k3(w) \in Nat /\ k4(w) \in Nat /\ k3(w) = NamedIn(B[w], of, S) /\ k4(w) = NamedIn(P[w], of, S)
        BY <3>1, NamesNat, NamesAre
      <3>4. /\ Most(B[w], P[w], of, S, m) <= NamedIn(P[w], of, S) + (Len(Named(P[w], of)) - Len(Named(B[w], of)))
            /\ LeftOf(P[w], of, m) = 0 => Fewest(B[w], P[w], of, S, m) >= NamedIn(B[w], of, S)
            /\ m * PageSize >= Len(Named(B[w], of)) =>
                   NamedIn(B[w], of, S) <= Fewest(B[w], P[w], of, S, m)
                                            + (Len(Named(P[w], of)) - Len(Named(B[w], of)))
        BY <3>1, PagesEnd
      <3>5. k2(w) <= k4(w) + late(w)
        BY <1>2, <3>3, <3>4
      <3>6. m * PageSize >= Len(Named(B[w], of)) => k3(w) <= k1(w) + late(w)
        BY <1>2, <3>3, <3>4
      <3>7. LeftOf(P[w], of, m) = 0 => k1(w) >= k3(w)
        BY <3>3, <3>4
      <3>8. all => m * PageSize >= Len(Named(B[w], of)) \/ LeftOf(P[w], of, m) = 0
        BY DEF all
      <3> HIDE DEF k1, k2, k3, k4
      <3>9. late(w) \in Nat
        BY <1>4
      <3>10. LeftOf(P[w], of, m) = 0 => k3(w) <= k1(w) + late(w)
        BY <3>2, <3>3, <3>7, <3>9
      <3> QED
        BY <3>2, <3>3, <3>5, <3>6, <3>8, <3>10
    <2> HIDE DEF k1, k2, k3, k4
    <2>3. /\ f1 \in [sites -> Nat] /\ f2 \in [sites -> Nat] /\ f3 \in [sites -> Nat] /\ f4 \in [sites -> Nat]
          /\ g1 \in [sites -> Nat] /\ g4 \in [sites -> Nat]
          /\ \A w \in sites : g1[w] = f1[w] + fl[w] /\ g4[w] = f4[w] + fl[w] /\ f2[w] <= g4[w]
          /\ all => \A w \in sites : f3[w] <= g1[w]
      BY <1>4, <1>5, <2>2
    <2> HIDE DEF f1, f2, f3, f4, g1, g4
    <2>4. SumFunction(g1) = SumFunction(f1) + SumFunction(fl)
      BY <1>5, <2>3, SumPlus
    <2>5. SumFunction(g4) = SumFunction(f4) + SumFunction(fl)
      BY <1>5, <2>3, SumPlus
    <2>6. SumFunction(f2) <= SumFunction(g4)
      BY <2>3, SumMono
    <2>7. all => SumFunction(f3) <= SumFunction(g1)
      BY <2>3, SumMono
    <2>8. SumFunction(f1) <= CountIn(rows, S) /\ CountIn(rows, S) <= SumFunction(f2) /\ CountIn(rows, S) \in Nat
      BY <2>1, CountIsNat DEF Reading
    <2>9. /\ SumFunction(f1) \in Nat /\ SumFunction(f2) \in Nat /\ SumFunction(f3) \in Nat
          /\ SumFunction(f4) \in Nat /\ SumFunction(fl) \in Nat
      BY <1>5, <2>3, SumNat
    <2>10. CountIn(rows, S) <= SumFunction(f4) + SumFunction(fl)
      BY <2>5, <2>6, <2>8, <2>9
    <2>11. all => SumFunction(f3) <= CountIn(rows, S) + SumFunction(fl)
      BY <2>4, <2>7, <2>8, <2>9
    <2> QED
      BY <1>3, <2>1, <2>10, <2>11
  <1>7. IsList(rows)
    BY DEF Reading
  <1>8. NoMoreOf(sites, B, P, {of}, rows)
    BY <1>6, <1>7 DEF NoMoreOf
  <1>9. all => EnoughOf(sites, B, P, {of}, rows)
    BY <1>6, <1>7 DEF EnoughOf
  <1> QED
    BY <1>8, <1>9 DEF all

LEMMA ReadGrows ==
    ASSUME NEW sites, IsFiniteSet(sites), NEW B, NEW P, NEW L, AllStart(sites, B, P), AllStart(sites, P, L),
           NEW N, NEW rows
    PROVE  /\ EnoughOf(sites, B, P, N, rows) => EnoughOf(sites, B, L, N, rows)
           /\ NoMoreOf(sites, B, P, N, rows) => NoMoreOf(sites, B, L, N, rows)
  <1> DEFINE p == LateNames(sites, B, P, N)
             l == LateNames(sites, B, L, N)
  <1>1. p \in Nat /\ l \in Nat /\ p <= l
    BY AllNamesGrow
  <1>2. AllStart(sites, B, B)
    BY AllStartIs
  <1>3. \A S : /\ AllNames(sites, B, N, S) \in Nat /\ AllNames(sites, P, N, S) \in Nat
               /\ AllNames(sites, L, N, S) \in Nat /\ AllNames(sites, P, N, S) <= AllNames(sites, L, N, S)
    BY <1>2, AllNamesGrow
  <1>4. \A S : IsList(rows) => CountIn(rows, S) \in Nat
    BY CountIsNat
  <1> HIDE DEF p, l
  <1>5. ASSUME EnoughOf(sites, B, P, N, rows) PROVE EnoughOf(sites, B, L, N, rows)
    <2>1. IsList(rows) /\ \A S : AllNames(sites, B, N, S) <= CountIn(rows, S) + p
      BY <1>5 DEF EnoughOf, p
    <2>2. \A S : AllNames(sites, B, N, S) <= CountIn(rows, S) + l
      BY <1>1, <1>3, <1>4, <2>1
    <2> QED
      BY <2>1, <2>2 DEF EnoughOf, l
  <1>6. ASSUME NoMoreOf(sites, B, P, N, rows) PROVE NoMoreOf(sites, B, L, N, rows)
    <2>1. IsList(rows) /\ \A S : CountIn(rows, S) <= AllNames(sites, P, N, S) + p
      BY <1>6 DEF NoMoreOf, p
    <2>2. \A S : CountIn(rows, S) <= AllNames(sites, L, N, S) + l
      BY <1>1, <1>3, <1>4, <2>1
    <2> QED
      BY <2>1, <2>2 DEF NoMoreOf, l
  <1> QED
    BY <1>5, <1>6

\* The rows of two calls together.
LEMMA ReadBoth ==
    ASSUME NEW sites, IsFiniteSet(sites), NEW B, NEW L, AllStart(sites, B, L),
           NEW M, NEW N, M \cap N = {}, NEW rows, NEW more
    PROVE  /\ EnoughOf(sites, B, L, M, rows) /\ EnoughOf(sites, B, L, N, more)
                 => EnoughOf(sites, B, L, M \cup N, rows \o more)
           /\ NoMoreOf(sites, B, L, M, rows) /\ NoMoreOf(sites, B, L, N, more)
                 => NoMoreOf(sites, B, L, M \cup N, rows \o more)
  <1> DEFINE m == LateNames(sites, B, L, M)
             n == LateNames(sites, B, L, N)
  <1>2. AllStart(sites, L, L)
    BY AllStartIs
  <1>3. m \in Nat /\ n \in Nat /\ LateNames(sites, B, L, M \cup N) = m + n
    <2>1. m \in Nat /\ n \in Nat
      BY <1>2, AllNamesGrow
    <2> QED
      BY <2>1, LateNamesPlus
  <1>4. ASSUME NEW S
        PROVE  /\ AllNames(sites, B, M, S) \in Nat /\ AllNames(sites, B, N, S) \in Nat
               /\ AllNames(sites, B, M \cup N, S) = AllNames(sites, B, M, S) + AllNames(sites, B, N, S)
    <2>1. AllStart(sites, B, B)
      BY AllStartIs
    <2> QED
      BY <2>1, AllNamesPlus
  <1>5. ASSUME NEW S
        PROVE  /\ AllNames(sites, L, M, S) \in Nat /\ AllNames(sites, L, N, S) \in Nat
               /\ AllNames(sites, L, M \cup N, S) = AllNames(sites, L, M, S) + AllNames(sites, L, N, S)
    <2>1. AllStart(sites, L, L)
      BY AllStartIs
    <2> QED
      BY <2>1, AllNamesPlus
  <1> HIDE DEF m, n
  <1>6. ASSUME IsList(rows), IsList(more)
        PROVE  /\ IsList(rows \o more)
               /\ \A S : /\ CountIn(rows, S) \in Nat /\ CountIn(more, S) \in Nat
                         /\ CountIn(rows \o more, S) = CountIn(rows, S) + CountIn(more, S)
    BY <1>6, ListConcat, CountIsNat
  <1>7. ASSUME EnoughOf(sites, B, L, M, rows), EnoughOf(sites, B, L, N, more)
        PROVE  EnoughOf(sites, B, L, M \cup N, rows \o more)
    <2>1. /\ IsList(rows) /\ \A S : AllNames(sites, B, M, S) <= CountIn(rows, S) + m
          /\ IsList(more) /\ \A S : AllNames(sites, B, N, S) <= CountIn(more, S) + n
      BY <1>7 DEF EnoughOf, m, n
    <2>2. ASSUME NEW S PROVE AllNames(sites, B, M \cup N, S) <= CountIn(rows \o more, S) + (m + n)
      <3> DEFINE a == AllNames(sites, B, M, S)
                 b == AllNames(sites, B, N, S)
                 c == CountIn(rows, S)
                 d == CountIn(more, S)
      <3>1. /\ a \in Nat /\ b \in Nat /\ c \in Nat /\ d \in Nat /\ a <= c + m /\ b <= d + n
            /\ AllNames(sites, B, M \cup N, S) = a + b /\ CountIn(rows \o more, S) = c + d
        BY <1>4, <1>6, <2>1
      <3> HIDE DEF a, b, c, d
      <3> QED
        BY <1>3, <3>1
    <2> QED
      BY <1>3, <1>6, <2>1, <2>2 DEF EnoughOf
  <1>8. ASSUME NoMoreOf(sites, B, L, M, rows), NoMoreOf(sites, B, L, N, more)
        PROVE  NoMoreOf(sites, B, L, M \cup N, rows \o more)
    <2>1. /\ IsList(rows) /\ \A S : CountIn(rows, S) <= AllNames(sites, L, M, S) + m
          /\ IsList(more) /\ \A S : CountIn(more, S) <= AllNames(sites, L, N, S) + n
      BY <1>8 DEF NoMoreOf, m, n
    <2>2. ASSUME NEW S PROVE CountIn(rows \o more, S) <= AllNames(sites, L, M \cup N, S) + (m + n)
      <3> DEFINE a == AllNames(sites, L, M, S)
                 b == AllNames(sites, L, N, S)
                 c == CountIn(rows, S)
                 d == CountIn(more, S)
      <3>1. /\ a \in Nat /\ b \in Nat /\ c \in Nat /\ d \in Nat /\ c <= a + m /\ d <= b + n
            /\ AllNames(sites, L, M \cup N, S) = a + b /\ CountIn(rows \o more, S) = c + d
        BY <1>5, <1>6, <2>1
      <3> HIDE DEF a, b, c, d
      <3> QED
        BY <1>3, <3>1
    <2> QED
      BY <1>3, <1>6, <2>1, <2>2 DEF NoMoreOf
  <1> QED
    BY <1>7, <1>8

\* The rows that a parser counts as x, put as a set.
RowTally(f, rows, S, g) == IsTally(f, {i \in DOMAIN rows : rows[i] \in S}, [i \in DOMAIN rows |-> g[rows[i]]])
Marked(rows, S, g, x, T) == \A e \in ToSet(rows) : e \in T <=> e \in S /\ g[e] = x

LEMMA RowsCounted ==
    ASSUME NEW rows, IsList(rows), NEW S, NEW g, NEW f, RowTally(f, rows, S, g),
           NEW x, NEW T, Marked(rows, S, g, x, T)
    PROVE  At(f, x) = CountIn(rows, T) /\ CountIn(rows, T) \in Nat
  <1> DEFINE D == {i \in DOMAIN rows : rows[i] \in S}
             h == [i \in DOMAIN rows |-> g[rows[i]]]
  <1>1. At(f, x) = Cardinality({i \in D : h[i] = x})
    <2> HIDE DEF D, h
    <2>1. IsTally(f, D, h)
      BY DEF D, h, RowTally
    <2> QED
      BY <2>1, TallyAt
  <1>2. {i \in D : h[i] = x} = {i \in DOMAIN rows : rows[i] \in T}
    <2>1. \A i \in DOMAIN rows : rows[i] \in ToSet(rows)
      BY DEF ToSet
    <2> QED
      BY <2>1 DEF Marked
  <1> HIDE DEF D, h
  <1> QED
    BY <1>1, <1>2, CountIsNat DEF CountIn

\* Numbers that are complete but for what arrived meanwhile.
Near(kind, sites, found, counts, full, B, L, x) ==
    /\ At(counts, x) \in Nat
    /\ At(counts, x) <= AllHits(kind, found, sites, L, x) + Slack(kind, sites, B, L)
    /\ Misses(kind, full, x)
        \/ AllHits(kind, found, sites, B, x) - Slack(kind, sites, B, L) <= At(counts, x)

LEMMA NearIsComplete ==
    ASSUME NEW sites, NEW B, NEW L, NEW kind, kind # "event-catalog", NEW found, NEW counts, NEW full,
           \A x : Near(kind, sites, found, counts, full, B, L, x)
    PROVE  Complete(kind, sites, found, counts, full, B, L) /\ \A x \in DOMAIN counts : counts[x] \in Nat
  <1>1. \A n : Capped(kind, n) = n
    BY DEF Capped
  <1>2. \A x \in DOMAIN counts : counts[x] = At(counts, x)
    BY DEF At
  <1>3. NotTooFew(kind, sites, found, counts, full, B, L)
    BY <1>1 DEF NotTooFew, Near
  <1>4. NotTooMany(kind, sites, found, counts, B, L)
    <2> SUFFICES ASSUME NEW x \in DOMAIN counts
                 PROVE  counts[x] <= Capped(kind, AllHits(kind, found, sites, L, x)) + Slack(kind, sites, B, L)
      BY DEF NotTooMany
    <2>1. At(counts, x) <= AllHits(kind, found, sites, L, x) + Slack(kind, sites, B, L)
      BY DEF Near
    <2>2. Capped(kind, AllHits(kind, found, sites, L, x)) = AllHits(kind, found, sites, L, x)
      BY <1>1
    <2> QED
      BY <1>2, <2>1, <2>2
  <1> QED
    BY <1>2, <1>3, <1>4 DEF Complete, Near

\* The events for an item, when they are those of some names in a set.
Stands(kind, found, sites, L, x, N, T) ==
    \A w \in sites : \A e \in ToSet(L[w]) : x \in Items(kind, found, e) <=> e.name \in N /\ e \in T

LEMMA HitsAreNames ==
    ASSUME NEW sites, NEW L, AllStart(sites, L, L), NEW kind, NEW found, NEW x, NEW N, NEW T,
           Stands(kind, found, sites, L, x, N, T)
    PROVE  AllHits(kind, found, sites, L, x) = AllNames(sites, L, N, T)
  <1>1. ASSUME NEW w \in sites
        PROVE  Cardinality(Hits(kind, found, L[w], x)) = NamesIn(L[w], N, T)
    <2>1. \A i \in DOMAIN L[w] : L[w][i] \in ToSet(L[w])
      BY DEF ToSet
    <2>2. Hits(kind, found, L[w], x) = {i \in DOMAIN L[w] : L[w][i].name \in N /\ L[w][i] \in T}
      BY <2>1 DEF Hits, Stands
    <2> QED
      BY <2>2 DEF NamesIn
  <1>2. [w \in sites |-> Cardinality(Hits(kind, found, L[w], x))] = [w \in sites |-> NamesIn(L[w], N, T)]
    BY <1>1
  <1> QED
    BY <1>2 DEF AllHits, AllNames

LEMMA PagesAreNear ==
    ASSUME NEW sites, IsFiniteSet(sites), NEW B, NEW L, AllStart(sites, B, L), NEW kind, kind \in Paged,
           NEW found, NEW counts, NEW full, NEW x, NEW N, NEW T,
           Stands(kind, found, sites, L, x, N, T), NEW rows, At(counts, x) = CountIn(rows, T),
           NoMoreOf(sites, B, L, N, rows), Misses(kind, full, x) \/ EnoughOf(sites, B, L, N, rows)
    PROVE  Near(kind, sites, found, counts, full, B, L, x)
  <1>1. AllStart(sites, L, L) /\ AllStart(sites, B, B)
    BY AllStartIs
  <1>2. Stands(kind, found, sites, B, x, N, T)
    <2>1. \A w \in sites : ToSet(B[w]) \subseteq ToSet(L[w])
      BY StartsIs DEF AllStart
    <2> QED
      BY <2>1 DEF Stands
  <1> DEFINE b == AllHits(kind, found, sites, B, x)
             l == AllHits(kind, found, sites, L, x)
             late == LateNames(sites, B, L, N)
             slack == Slack(kind, sites, B, L)
             n == CountIn(rows, T)
  <1>3. b = AllNames(sites, B, N, T) /\ l = AllNames(sites, L, N, T)
    BY <1>1, <1>2, HitsAreNames
  <1>4. late \in Nat /\ late <= Arrived(sites, B, L)
    BY <1>1, AllNamesGrow
  <1>5. slack = Arrived(sites, B, L) /\ slack \in Nat
    BY <1>1, ArrivedGrows DEF Slack
  <1>6. b \in Nat /\ l \in Nat
    BY <1>1, AllHitsGrow
  <1>7. n \in Nat /\ n <= l + late /\ (Misses(kind, full, x) \/ b <= n + late)
    BY <1>3, CountIsNat DEF NoMoreOf, EnoughOf
  <1> HIDE DEF b, l, late, slack, n
  <1>8. n <= l + slack /\ (Misses(kind, full, x) \/ b - slack <= n)
    BY <1>4, <1>5, <1>6, <1>7
  <1>9. At(counts, x) = n
    BY DEF n
  <1> QED
    BY <1>7, <1>8, <1>9 DEF Near, b, l, slack

LEMMA ItemsOfPages ==
    ASSUME NEW found, NEW e, NEW x
    PROVE  /\ x \in Items("sessions", found, e) <=> x = e /\ e.name = "session"
           /\ x \in Items("heatmap", found, e)
                <=> e.name = "session" /\ e.place \in found /\ x = Coord[e.place]
           /\ x \in Items("export", found, e)
                <=> x = e /\ e.name \in {"search_text"} \cup {"search_taxonomy"} /\ e.text # NoText
           /\ x \in Items("area-searches", found, e)
                <=> /\ x \in {e.place} \X {"total", "zero"} /\ e.place # Nothing
                    /\ e.name = ZeroResults \/ (e.name \in Searches /\ x[2] = "total")
  <1>1. x \in Items("sessions", found, e) <=> x = e /\ e.name = "session"
    BY DEF Items, ValueKinds, ZeroResults
  <1>2. x \in Items("heatmap", found, e) <=> e.name = "session" /\ e.place \in found /\ x = Coord[e.place]
    BY DEF Items, ValueKinds, ZeroResults
  <1>3. x \in Items("export", found, e)
          <=> x = e /\ e.name \in {"search_text"} \cup {"search_taxonomy"} /\ e.text # NoText
    BY DEF Items, ValueKinds, ZeroResults, Searches, NoText
  <1>4. x \in Items("area-searches", found, e)
          <=> /\ x \in {e.place} \X {"total", "zero"} /\ e.place # Nothing
              /\ e.name = ZeroResults \/ (e.name \in Searches /\ x[2] = "total")
    BY DEF Items, ValueKinds, ZeroResults
  <1> QED
    BY <1>1, <1>2, <1>3, <1>4

LEMMA PagedReports ==
    ASSUME NEW a, NEW found
    PROVE  /\ Report("sessions", a, found) = Sessions(Rows(a, Call("sessionPage", "session")))
           /\ Report("heatmap", a, found) = Points(Rows(a, Call("sessions", "session")), found)
           /\ Report("export", a, found) = Exported(Pivots(a, "search_text") \o Pivots(a, "search_taxonomy"))
           /\ Report("area-searches", a, found) =
                Areas(Pivots(a, "search_text") \o Pivots(a, "search_taxonomy"), Pivots(a, ZeroResults))
           /\ Report("event-catalog", a, found) = Catalog(a)
BY DEF Report, ValueKinds, ZeroResults

\* The numbers of sessions.
LEMMA SessionsAre ==
    ASSUME NEW rows, IsList(rows), NEW x
    PROVE  At(Sessions(rows), x) = CountIn(rows, {x}) /\ CountIn(rows, {x}) \in Nat
  <1> DEFINE S == ToSet(rows)
             g == [e \in ToSet(rows) |-> e]
             D == {i \in DOMAIN rows : rows[i] \in S}
  <1>1. Sessions(rows) = [y \in {rows[i] : i \in D} |-> Cardinality({i \in D : rows[i] = y})]
    BY DEF Sessions, CountRows, Tally
  <1>2. \A i \in DOMAIN rows : g[rows[i]] = rows[i]
    BY DEF ToSet
  <1>3. RowTally(Sessions(rows), rows, S, g)
    <2> HIDE DEF g
    <2>1. [i \in DOMAIN rows |-> g[rows[i]]] = [i \in DOMAIN rows |-> rows[i]]
      BY <1>2
    <2>2. IsTally(Sessions(rows), D, [i \in DOMAIN rows |-> rows[i]])
      BY <1>1 DEF IsTally
    <2>3. IsTally(Sessions(rows), D, [i \in DOMAIN rows |-> g[rows[i]]])
      BY <2>1, <2>2
    <2> QED
      BY <2>3 DEF RowTally
  <1>4. Marked(rows, S, g, x, {x})
    BY DEF Marked
  <1> HIDE DEF g, S
  <1> QED
    BY <1>3, <1>4, RowsCounted

LEMMA NoneLate ==
    ASSUME NEW sites, IsFiniteSet(sites), NEW P, AllStart(sites, P, P), NEW N
    PROVE  LateNames(sites, P, P, N) = 0
  <1> DEFINE k(w) == NameCount(P[w], N) - NameCount(P[w], N)
             f == [w \in sites |-> k(w)]
  <1>1. ASSUME NEW w \in sites PROVE k(w) = 0
    <2>1. IsList(P[w])
      BY DEF AllStart, Starts
    <2>2. NameCount(P[w], N) \in Nat
      BY <2>1, NamesNat
    <2> QED
      BY <2>2
  <1>2. LateNames(sites, P, P, N) = SumFunction(f)
    BY DEF LateNames
  <1> HIDE DEF k
  <1>3. f \in [sites -> Nat] /\ \A w \in sites : f[w] = 0
    BY <1>1
  <1> HIDE DEF f
  <1> QED
    BY <1>2, <1>3, SumZero

LEMMA SessionsComplete ==
    ASSUME NEW sites, IsFiniteSet(sites), NEW B, NEW P, NEW L, AllStart(sites, P, L),
           NEW rows, NoMoreOf(sites, P, P, {"session"}, rows), NEW found, NEW full
    PROVE  /\ Complete("sessions", sites, found, Sessions(rows), full, B, L)
           /\ \A x \in DOMAIN Sessions(rows) : Sessions(rows)[x] \in Nat
  <1> DEFINE counts == Sessions(rows)
  <1>1. ASSUME NEW x PROVE Near("sessions", sites, found, counts, full, B, L, x)
    <2>1. AllStart(sites, P, P)
      BY AllStartIs
    <2>2. Stands("sessions", found, sites, P, x, {"session"}, {x})
      BY ItemsOfPages DEF Stands
    <2>3. AllHits("sessions", found, sites, P, x) = AllNames(sites, P, {"session"}, {x})
      BY <2>1, <2>2, HitsAreNames
    <2>4. LateNames(sites, P, P, {"session"}) = 0
      BY <2>1, NoneLate
    <2>5. IsList(rows) /\ CountIn(rows, {x}) <= AllNames(sites, P, {"session"}, {x}) + LateNames(sites, P, P, {"session"})
      BY DEF NoMoreOf
    <2>6. At(counts, x) = CountIn(rows, {x}) /\ CountIn(rows, {x}) \in Nat
      BY <2>5, SessionsAre
    <2>7. /\ AllHits("sessions", found, sites, P, x) \in Nat /\ AllHits("sessions", found, sites, L, x) \in Nat
          /\ AllHits("sessions", found, sites, P, x) <= AllHits("sessions", found, sites, L, x)
      BY AllHitsGrow
    <2>8. Slack("sessions", sites, B, L) = 0 /\ Misses("sessions", full, x)
      BY DEF Slack, Misses, Paged
    <2> HIDE DEF counts
    <2>9. At(counts, x) <= AllHits("sessions", found, sites, L, x) + Slack("sessions", sites, B, L)
      BY <2>3, <2>4, <2>5, <2>6, <2>7, <2>8
    <2> QED
      BY <2>6, <2>8, <2>9 DEF Near
  <1> HIDE DEF counts
  <1>2. /\ Complete("sessions", sites, found, counts, full, B, L)
        /\ \A x \in DOMAIN counts : counts[x] \in Nat
    <2>1. "sessions" # "event-catalog"
      OBVIOUS
    <2> QED
      BY <1>1, <2>1, NearIsComplete
  <1> QED
    BY <1>2 DEF counts

\* The numbers of a heatmap.
LEMMA HeatmapComplete ==
    ASSUME NEW sites, IsFiniteSet(sites), NEW B, NEW L, AllStart(sites, B, L), NEW found, NEW full,
           NEW rows, NoMoreOf(sites, B, L, {"session"}, rows), full \/ EnoughOf(sites, B, L, {"session"}, rows)
    PROVE  /\ Complete("heatmap", sites, found, Points(rows, found), full, B, L)
           /\ \A x \in DOMAIN Points(rows, found) : Points(rows, found)[x] \in Nat
  <1> DEFINE counts == Points(rows, found)
             S == {e \in ToSet(rows) : e.place \in found}
             g == [e \in ToSet(rows) |-> Coord[e.place]]
             D == {i \in DOMAIN rows : rows[i] \in S}
             U == ToSet(rows) \cup UNION {ToSet(L[w]) : w \in sites}
  <1>1. counts = [y \in {Coord[rows[i].place] : i \in D} |-> Cardinality({i \in D : Coord[rows[i].place] = y})]
    BY DEF Points, CountRows, Tally
  <1>2. \A i \in DOMAIN rows : g[rows[i]] = Coord[rows[i].place]
    BY DEF ToSet
  <1>3. RowTally(counts, rows, S, g)
    <2> HIDE DEF g, counts
    <2>1. [i \in DOMAIN rows |-> g[rows[i]]] = [i \in DOMAIN rows |-> Coord[rows[i].place]]
      BY <1>2
    <2>2. IsTally(counts, D, [i \in DOMAIN rows |-> Coord[rows[i].place]])
      BY <1>1 DEF IsTally
    <2>3. IsTally(counts, D, [i \in DOMAIN rows |-> g[rows[i]]])
      BY <2>1, <2>2
    <2> QED
      BY <2>3 DEF RowTally
  <1>4. IsList(rows)
    BY DEF NoMoreOf
  <1>5. ASSUME NEW x PROVE Near("heatmap", sites, found, counts, full, B, L, x)
    <2> DEFINE T == {e \in U : e.place \in found /\ Coord[e.place] = x}
    <2>1. Marked(rows, S, g, x, T)
      BY DEF Marked
    <2>2. Stands("heatmap", found, sites, L, x, {"session"}, T)
      <3>1. \A w \in sites : ToSet(L[w]) \subseteq U
        OBVIOUS
      <3>2. \A e : x \in Items("heatmap", found, e) <=> e.name = "session" /\ e.place \in found /\ x = Coord[e.place]
        BY ItemsOfPages
      <3> HIDE DEF U
      <3> QED
        BY <3>1, <3>2 DEF Stands
    <2>3. Misses("heatmap", full, x) \/ EnoughOf(sites, B, L, {"session"}, rows)
      BY DEF Misses
    <2> HIDE DEF T, g, S, counts
    <2>4. At(counts, x) = CountIn(rows, T)
      BY <1>3, <1>4, <2>1, RowsCounted
    <2>5. "heatmap" \in Paged
      BY DEF Paged
    <2> QED
      BY <2>2, <2>3, <2>4, <2>5, PagesAreNear
  <1> HIDE DEF counts
  <1>6. "heatmap" # "event-catalog"
    OBVIOUS
  <1>7. /\ Complete("heatmap", sites, found, counts, full, B, L)
        /\ \A x \in DOMAIN counts : counts[x] \in Nat
    BY <1>5, <1>6, NearIsComplete
  <1> QED
    BY <1>7 DEF counts

\* The numbers of an export.
LEMMA ExportComplete ==
    ASSUME NEW sites, IsFiniteSet(sites), NEW B, NEW L, AllStart(sites, B, L), NEW found, NEW full,
           NEW N, N = {"search_text"} \cup {"search_taxonomy"},
           NEW rows, NoMoreOf(sites, B, L, N, rows), EnoughOf(sites, B, L, N, rows)
    PROVE  /\ Complete("export", sites, found, Exported(rows), full, B, L)
           /\ \A x \in DOMAIN Exported(rows) : Exported(rows)[x] \in Nat
  <1> DEFINE counts == Exported(rows)
             S == {e \in ToSet(rows) : e.text # NoText}
             g == [e \in ToSet(rows) |-> e]
             D == {i \in DOMAIN rows : rows[i] \in S}
             U == ToSet(rows) \cup UNION {ToSet(L[w]) : w \in sites}
  <1>1. counts = [y \in {rows[i] : i \in D} |-> Cardinality({i \in D : rows[i] = y})]
    BY DEF Exported, CountRows, Tally, Exportable, NoText
  <1>2. \A i \in DOMAIN rows : g[rows[i]] = rows[i]
    BY DEF ToSet
  <1>3. RowTally(counts, rows, S, g)
    <2> HIDE DEF g, counts
    <2>1. [i \in DOMAIN rows |-> g[rows[i]]] = [i \in DOMAIN rows |-> rows[i]]
      BY <1>2
    <2>2. IsTally(counts, D, [i \in DOMAIN rows |-> rows[i]])
      BY <1>1 DEF IsTally
    <2>3. IsTally(counts, D, [i \in DOMAIN rows |-> g[rows[i]]])
      BY <2>1, <2>2
    <2> QED
      BY <2>3 DEF RowTally
  <1>4. IsList(rows)
    BY DEF NoMoreOf
  <1>5. ASSUME NEW x PROVE Near("export", sites, found, counts, full, B, L, x)
    <2> DEFINE T == {e \in U : e.text # NoText /\ e = x}
    <2>1. Marked(rows, S, g, x, T)
      BY DEF Marked
    <2>2. Stands("export", found, sites, L, x, N, T)
      <3>1. \A w \in sites : ToSet(L[w]) \subseteq U
        OBVIOUS
      <3>2. \A e : x \in Items("export", found, e) <=> x = e /\ e.name \in N /\ e.text # NoText
        BY ItemsOfPages
      <3> HIDE DEF U
      <3> QED
        BY <3>1, <3>2 DEF Stands
    <2> HIDE DEF T, g, S, counts
    <2>4. At(counts, x) = CountIn(rows, T)
      BY <1>3, <1>4, <2>1, RowsCounted
    <2>5. "export" \in Paged
      BY DEF Paged
    <2> QED
      BY <2>2, <2>4, <2>5, PagesAreNear
  <1> HIDE DEF counts
  <1>6. "export" # "event-catalog"
    OBVIOUS
  <1>7. /\ Complete("export", sites, found, counts, full, B, L)
        /\ \A x \in DOMAIN counts : counts[x] \in Nat
    BY <1>5, <1>6, NearIsComplete
  <1> QED
    BY <1>7 DEF counts

\* The numbers of each area.
ByArea(rows) == CountRows(rows, {e \in ToSet(rows) : e.place # Nothing}, LAMBDA e : e.place)
InArea(rows, p, T) == \A e \in ToSet(rows) : e \in T <=> e.place # Nothing /\ e.place = p

LEMMA ByAreaAt ==
    ASSUME NEW rows, IsList(rows), NEW p, NEW T, InArea(rows, p, T)
    PROVE  At(ByArea(rows), p) = CountIn(rows, T) /\ CountIn(rows, T) \in Nat
  <1> DEFINE counts == ByArea(rows)
             S == {e \in ToSet(rows) : e.place # Nothing}
             g == [e \in ToSet(rows) |-> e.place]
             D == {i \in DOMAIN rows : rows[i] \in S}
  <1>1. counts = [y \in {rows[i].place : i \in D} |-> Cardinality({i \in D : rows[i].place = y})]
    BY DEF ByArea, CountRows, Tally
  <1>2. \A i \in DOMAIN rows : g[rows[i]] = rows[i].place
    BY DEF ToSet
  <1>3. RowTally(counts, rows, S, g)
    <2> HIDE DEF g, counts
    <2>1. [i \in DOMAIN rows |-> g[rows[i]]] = [i \in DOMAIN rows |-> rows[i].place]
      BY <1>2
    <2>2. IsTally(counts, D, [i \in DOMAIN rows |-> rows[i].place])
      BY <1>1 DEF IsTally
    <2>3. IsTally(counts, D, [i \in DOMAIN rows |-> g[rows[i]]])
      BY <2>1, <2>2
    <2> QED
      BY <2>3 DEF RowTally
  <1>4. Marked(rows, S, g, p, T)
    BY DEF Marked, InArea
  <1> HIDE DEF g, S, counts
  <1>5. At(counts, p) = CountIn(rows, T) /\ CountIn(rows, T) \in Nat
    BY <1>3, <1>4, RowsCounted
  <1> QED
    BY <1>5 DEF counts

LEMMA AreasAt ==
    ASSUME NEW rows, IsList(rows), NEW zero, IsList(zero), NEW p, NEW T, InArea(rows \o zero, p, T)
    PROVE  /\ At(Areas(rows, zero), <<p, "total">>) = CountIn(rows \o zero, T)
           /\ At(Areas(rows, zero), <<p, "zero">>) = CountIn(zero, T)
  <1> DEFINE all == ByArea(rows \o zero)
             counts == Areas(rows, zero)
  <1>1. counts = [x \in (DOMAIN all) \X {"total", "zero"} |->
                    IF x[2] = "total" THEN all[x[1]] ELSE At(ByArea(zero), x[1])]
    BY DEF Areas, ByArea
  <1>2. /\ IsList(rows \o zero) /\ ToSet(zero) \subseteq ToSet(rows \o zero)
        /\ CountIn(rows \o zero, T) = CountIn(rows, T) + CountIn(zero, T)
        /\ CountIn(rows, T) \in Nat /\ CountIn(zero, T) \in Nat
    BY ListConcat, CountIsNat
  <1>3. InArea(zero, p, T)
    BY <1>2 DEF InArea
  <1>4. At(all, p) = CountIn(rows \o zero, T)
    BY <1>2, ByAreaAt
  <1>5. At(ByArea(zero), p) = CountIn(zero, T)
    BY <1>3, ByAreaAt
  <1> HIDE DEF all, counts
  <1>6. DOMAIN counts = (DOMAIN all) \X {"total", "zero"}
    BY <1>1
  <1>7. CASE p \in DOMAIN all
    <2>1. <<p, "total">> \in DOMAIN counts /\ <<p, "zero">> \in DOMAIN counts
      BY <1>6, <1>7
    <2>2. counts[<<p, "total">>] = all[p] /\ counts[<<p, "zero">>] = At(ByArea(zero), p)
      <3>1. <<p, "total">>[1] = p /\ <<p, "total">>[2] = "total" /\ <<p, "zero">>[1] = p /\ <<p, "zero">>[2] = "zero"
        OBVIOUS
      <3> QED
        BY <1>1, <1>6, <2>1, <3>1
    <2>3. At(counts, <<p, "total">>) = all[p] /\ At(counts, <<p, "zero">>) = At(ByArea(zero), p) /\ At(all, p) = all[p]
      BY <1>7, <2>1, <2>2 DEF At
    <2> QED
      BY <1>4, <1>5, <2>3 DEF counts
  <1>8. CASE p \notin DOMAIN all
    <2>1. <<p, "total">> \notin DOMAIN counts /\ <<p, "zero">> \notin DOMAIN counts
      BY <1>6, <1>8
    <2>2. At(counts, <<p, "total">>) = 0 /\ At(counts, <<p, "zero">>) = 0 /\ At(all, p) = 0
      BY <1>8, <2>1 DEF At
    <2>3. CountIn(zero, T) = 0
      BY <1>2, <1>4, <2>2
    <2> QED
      BY <1>4, <2>2, <2>3 DEF counts
  <1> QED
    BY <1>7, <1>8

LEMMA AreasComplete ==
    ASSUME NEW sites, IsFiniteSet(sites), NEW B, NEW L, AllStart(sites, B, L), NEW found, NEW full,
           NEW N, N = ({"search_text"} \cup {"search_taxonomy"}) \cup {ZeroResults},
           NEW rows, NEW zero, IsList(rows), IsList(zero),
           NoMoreOf(sites, B, L, N, rows \o zero), EnoughOf(sites, B, L, N, rows \o zero),
           NoMoreOf(sites, B, L, {ZeroResults}, zero), EnoughOf(sites, B, L, {ZeroResults}, zero)
    PROVE  /\ Complete("area-searches", sites, found, Areas(rows, zero), full, B, L)
           /\ \A x \in DOMAIN Areas(rows, zero) : Areas(rows, zero)[x] \in Nat
  <1> DEFINE counts == Areas(rows, zero)
             U == ToSet(rows \o zero) \cup UNION {ToSet(L[w]) : w \in sites}
             T(p) == {e \in U : e.place # Nothing /\ e.place = p}
  <1>1. "area-searches" \in Paged /\ "area-searches" # "event-catalog"
    BY DEF Paged
  <1>2. ASSUME NEW p
        PROVE  /\ Near("area-searches", sites, found, counts, full, B, L, <<p, "total">>)
               /\ Near("area-searches", sites, found, counts, full, B, L, <<p, "zero">>)
    <2>1. InArea(rows \o zero, p, T(p))
      BY DEF InArea
    <2>2. \A w \in sites : \A e \in ToSet(L[w]) : e \in T(p) <=> e.place # Nothing /\ e.place = p
      OBVIOUS
    <2>3. Stands("area-searches", found, sites, L, <<p, "total">>, N, T(p))
      <3>1. \A e : <<p, "total">> \in Items("area-searches", found, e)
                     <=> p = e.place /\ e.place # Nothing /\ e.name \in N
        <4> TAKE e
        <4>1. <<p, "total">> \in {e.place} \X {"total", "zero"} <=> p = e.place
          OBVIOUS
        <4>2. <<p, "total">>[2] = "total"
          OBVIOUS
        <4>3. e.name \in N <=> e.name = ZeroResults \/ e.name \in Searches
          BY DEF Searches
        <4> QED
          BY <4>1, <4>2, <4>3, ItemsOfPages
      <3> HIDE DEF T
      <3> QED
        BY <2>2, <3>1 DEF Stands
    <2>4. Stands("area-searches", found, sites, L, <<p, "zero">>, {ZeroResults}, T(p))
      <3>1. \A e : <<p, "zero">> \in Items("area-searches", found, e)
                     <=> p = e.place /\ e.place # Nothing /\ e.name \in {ZeroResults}
        <4> TAKE e
        <4>1. <<p, "zero">> \in {e.place} \X {"total", "zero"} <=> p = e.place
          OBVIOUS
        <4>2. <<p, "zero">>[2] # "total"
          OBVIOUS
        <4> QED
          BY <4>1, <4>2, ItemsOfPages
      <3> HIDE DEF T
      <3> QED
        BY <2>2, <3>1 DEF Stands
    <2> HIDE DEF T, counts
    <2>5. At(counts, <<p, "total">>) = CountIn(rows \o zero, T(p)) /\ At(counts, <<p, "zero">>) = CountIn(zero, T(p))
      BY <2>1, AreasAt DEF counts
    <2>6. Near("area-searches", sites, found, counts, full, B, L, <<p, "total">>)
      BY <1>1, <2>3, <2>5, PagesAreNear
    <2>7. Near("area-searches", sites, found, counts, full, B, L, <<p, "zero">>)
      BY <1>1, <2>4, <2>5, PagesAreNear
    <2> QED
      BY <2>6, <2>7
  <1>3. ASSUME NEW x, \A p : x # <<p, "total">> /\ x # <<p, "zero">>
        PROVE  Near("area-searches", sites, found, counts, full, B, L, x)
    <2>1. \A e : x \notin Items("area-searches", found, e)
      <3> TAKE e
      <3>1. \A p : x \in {p} \X {"total", "zero"} => x = <<p, "total">> \/ x = <<p, "zero">>
        OBVIOUS
      <3> QED
        BY <1>3, <3>1, ItemsOfPages
    <2>2. At(counts, x) = 0
      <3>1. DOMAIN counts = (DOMAIN ByArea(rows \o zero)) \X {"total", "zero"}
        BY DEF Areas, ByArea
      <3>2. x \notin DOMAIN counts
        BY <1>3, <3>1
      <3> QED
        BY <3>2 DEF At
    <2>3. AllHits("area-searches", found, sites, B, x) = 0 /\ AllHits("area-searches", found, sites, L, x) = 0
      BY <2>1, NoHits
    <2>4. Slack("area-searches", sites, B, L) \in Nat
      <3>1. AllStart(sites, L, L)
        BY AllStartIs
      <3> QED
        BY <3>1, ArrivedGrows DEF Slack
    <2> HIDE DEF counts
    <2> QED
      BY <2>2, <2>3, <2>4 DEF Near
  <1> HIDE DEF counts
  <1>4. \A x : Near("area-searches", sites, found, counts, full, B, L, x)
    BY <1>2, <1>3
  <1>5. /\ Complete("area-searches", sites, found, counts, full, B, L)
        /\ \A x \in DOMAIN counts : counts[x] \in Nat
    BY <1>1, <1>4, NearIsComplete
  <1> QED
    BY <1>5 DEF counts

\* The catalogue lists what has been logged.
CatalogRead(sites, B, L, a) ==
    /\ \A w \in sites : \A e \in ToSet(B[w]) : e.name \notin {"view", "session"} => e.name \in DOMAIN Body(a, "series")
    /\ \A n \in DOMAIN Body(a, "series") :
          /\ n \notin {"view", "session"} /\ \E w \in sites : \E e \in ToSet(L[w]) : e.name = n
          /\ \A e \in ToSet(Rows(a, Call("keys", n))) : e.name = n /\ \E w \in sites : e \in ToSet(L[w])

LEMMA HitOnce ==
    ASSUME NEW sites, IsFiniteSet(sites), NEW L, AllStart(sites, L, L), NEW kind, NEW found, NEW x,
           NEW w \in sites, NEW e \in ToSet(L[w]), x \in Items(kind, found, e)
    PROVE  AllHits(kind, found, sites, L, x) \in Nat /\ AllHits(kind, found, sites, L, x) >= 1
  <1> DEFINE k(v) == Cardinality(Hits(kind, found, L[v], x))
             f == [v \in sites |-> k(v)]
  <1>1. \A v \in sites : k(v) \in Nat
    BY HitsGrow DEF AllStart
  <1>2. PICK i \in DOMAIN L[w] : L[w][i] = e
    BY DEF ToSet
  <1>3. i \in Hits(kind, found, L[w], x)
    BY <1>2 DEF Hits
  <1>4. k(w) # 0
    <2>1. Hits(kind, found, L[w], x) \subseteq DOMAIN L[w] /\ IsList(L[w])
      BY DEF Hits, AllStart, Starts
    <2>2. IsFiniteSet(Hits(kind, found, L[w], x))
      BY <2>1, PositionsFinite
    <2> QED
      BY <1>3, <2>2, FS_EmptySet
  <1>5. AllHits(kind, found, sites, L, x) = SumFunction(f)
    BY DEF AllHits
  <1> HIDE DEF k
  <1>6. f \in [sites -> Nat] /\ f[w] # 0 /\ f[w] \in Nat
    BY <1>1, <1>4
  <1> HIDE DEF f
  <1>7. f[w] <= SumFunction(f) /\ SumFunction(f) \in Nat
    BY <1>6, SumAtLeast, SumNat
  <1> QED
    BY <1>5, <1>6, <1>7

LEMMA ItemsOfCatalog ==
    ASSUME NEW found, NEW e, NEW x
    PROVE  x \in Items("event-catalog", found, e)
             <=> e.name \notin {"view", "session"} /\ (x = <<e.name>> \/ x = <<e.name, e.text>>)
BY DEF Items, ValueKinds, ZeroResults

LEMMA CatalogComplete ==
    ASSUME NEW sites, IsFiniteSet(sites), NEW B, NEW L, AllStart(sites, B, L), NEW found, NEW full,
           NEW a, CatalogRead(sites, B, L, a)
    PROVE  /\ Complete("event-catalog", sites, found, Catalog(a), full, B, L)
           /\ \A x \in DOMAIN Catalog(a) : Catalog(a)[x] \in Nat
  <1> DEFINE counts == Catalog(a)
             names == DOMAIN Body(a, "series")
             R(n) == Rows(a, Call("keys", n))
  <1>1. /\ \A x \in DOMAIN counts : counts[x] = 1
        /\ \A x : x \in DOMAIN counts
                    <=> \/ \E n \in names : x = <<n>>
                        \/ \E n \in names : \E e \in ToSet(R(n)) : x = <<e.name, e.text>>
    <2>1. counts = [x \in {<<n>> : n \in names}
                          \cup {<<e.name, e.text>> : e \in UNION {ToSet(s) : s \in {R(n) : n \in names}}} |-> 1]
      BY DEF Catalog
    <2> HIDE DEF names, R, counts
    <2> QED
      BY <2>1
  <1>2. AllStart(sites, B, B) /\ AllStart(sites, L, L)
    BY AllStartIs
  <1>3. \A n : n \in Nat /\ n >= 1 => Capped("event-catalog", n) = 1
    BY DEF Capped
  <1>4. Slack("event-catalog", sites, B, L) = 0
    BY DEF Slack, Paged
  <1>5. ASSUME NEW x \in DOMAIN counts
        PROVE  counts[x] <= Capped("event-catalog", AllHits("event-catalog", found, sites, L, x))
                                + Slack("event-catalog", sites, B, L)
    <2>1. \E w \in sites : \E e \in ToSet(L[w]) : x \in Items("event-catalog", found, e)
      <3>1. CASE \E n \in names : x = <<n>>
        BY <3>1, ItemsOfCatalog DEF CatalogRead
      <3>2. CASE \E n \in names : \E e \in ToSet(R(n)) : x = <<e.name, e.text>>
        BY <3>2, ItemsOfCatalog DEF CatalogRead
      <3> QED
        BY <1>1, <3>1, <3>2
    <2>2. /\ AllHits("event-catalog", found, sites, L, x) \in Nat
          /\ AllHits("event-catalog", found, sites, L, x) >= 1
      BY <1>2, <2>1, HitOnce
    <2>3. Capped("event-catalog", AllHits("event-catalog", found, sites, L, x)) = 1
      BY <1>3, <2>2
    <2> QED
      BY <1>1, <1>4, <2>3
  <1>6. ASSUME NEW w \in sites, NEW e \in ToSet(B[w]), NEW x \in Items("event-catalog", found, e),
               ~Misses("event-catalog", full, x)
        PROVE  Capped("event-catalog", AllHits("event-catalog", found, sites, B, x))
                    - Slack("event-catalog", sites, B, L) <= At(counts, x)
    <2>1. x = <<e.name>> /\ e.name \notin {"view", "session"}
      <3>1. Len(<<e.name, e.text>>) = 2
        OBVIOUS
      <3>2. Len(x) # 2
        BY <1>6 DEF Misses
      <3> QED
        BY <3>1, <3>2, ItemsOfCatalog
    <2>2. e.name \in names
      BY <2>1 DEF CatalogRead
    <2>3. At(counts, x) = 1
      BY <1>1, <2>1, <2>2 DEF At
    <2>4. /\ AllHits("event-catalog", found, sites, B, x) \in Nat
          /\ AllHits("event-catalog", found, sites, B, x) >= 1
      BY <1>2, HitOnce
    <2>5. Capped("event-catalog", AllHits("event-catalog", found, sites, B, x)) = 1
      BY <1>3, <2>4
    <2> QED
      BY <1>4, <2>3, <2>5
  <1> HIDE DEF counts
  <1>7. NotTooFew("event-catalog", sites, found, counts, full, B, L)
    BY <1>6 DEF NotTooFew
  <1>8. NotTooMany("event-catalog", sites, found, counts, B, L)
    BY <1>5 DEF NotTooMany
  <1>9. \A x \in DOMAIN counts : counts[x] \in Nat
    BY <1>1
  <1> QED
    BY <1>7, <1>8, <1>9 DEF Complete, counts

-----------------------------------------------------------------------------
(* How far a report has come: each website had logged last when the page   *)
(* before this one was read.                                               *)

OneStage ==
    {"stats", "pageviews", "resource-metrics", "searches", "metrics", "event-values", "sessions"}
    \cup ValueKinds
Heat == Call("sessions", "session")

\* The events that an export, or the searches of areas, are read of in turn.
Order(k) ==
    IF k = "export" THEN <<"search_text", "search_taxonomy">>
    ELSE <<"search_text", "search_taxonomy", ZeroResults>>
Left(k, i) ==
    IF i = 1 THEN Plan(k) ELSE IF i = 2 THEN Tail(Plan(k)) ELSE Tail(Tail(Plan(k)))

PivotsReached(k, i, sites, B, last, pg, tot, a) ==
    /\ \A j \in DOMAIN Order(k) :
          /\ RowsFit(a, Call("pivot", Order(k)[j]))
          /\ j < i => /\ EnoughOf(sites, B, last, {Order(k)[j]}, Pivots(a, Order(k)[j]))
                      /\ NoMoreOf(sites, B, last, {Order(k)[j]}, Pivots(a, Order(k)[j]))
          /\ j > i => Pivots(a, Order(k)[j]) = <<>>
    /\ Reading(sites, B, last, Order(k)[i], pg - 1, Pivots(a, Order(k)[i]))
    /\ pg > 1 => tot \in Nat /\ \A w \in sites : tot * PageSize >= Len(Named(B[w], Order(k)[i]))

OnlySeries(a, s) ==
    /\ s \in ToSet(a) /\ s.call.ep = "series"
    /\ \A i \in ToSet(a) : i.call.ep = "series" => i = s

KeysReached(sites, B, last, st, a) ==
    /\ IsList(st)
    /\ \A i \in DOMAIN st : \E n \in DOMAIN Body(a, "series") : st[i] = {Call("keys", n)}
    /\ \E s : OnlySeries(a, s)
    /\ a # <<>> /\ \A n : RowsFit(a, Call("keys", n))
    /\ CatalogRead(sites, B, last, a)

Reached(k, sites, B, last, st, pg, tot, a) ==
    /\ k \in OneStage => st = Plan(k) /\ pg = 1 /\ a = <<>>
    /\ k = "heatmap" => /\ st = Plan(k) /\ RowsFit(a, Heat)
                        /\ Reading(sites, B, last, "session", pg - 1, Rows(a, Heat))
    /\ k \in {"export", "area-searches"} =>
          \E i \in DOMAIN Order(k) : st = Left(k, i) /\ PivotsReached(k, i, sites, B, last, pg, tot, a)
    /\ k = "event-catalog" =>
          pg = 1 /\ ((st = Plan(k) /\ a = <<>>) \/ KeysReached(sites, B, last, st, a))

Reaches(k, sites, B, L, st, pg, tot, a) ==
    \E last : AllStart(sites, B, last) /\ AllStart(sites, last, L) /\ Reached(k, sites, B, last, st, pg, tot, a)

\* The answers that have come in for this page.
Gets(got, c, sites, last, L, p) ==
    /\ DOMAIN got = sites /\ got = [w \in sites |-> got[w]]
    /\ \A w \in sites : got[w] # Nothing =>
          \E P : Starts(last[w], P) /\ Starts(P, L[w]) /\ got[w] = Response(c, P, p, Size(c))

WorkFits(k, sites, B, st, pg, tot, a, T, L) ==
    /\ k \in ReportKinds /\ sites \subseteq Websites /\ pg \in Nat \ {0} /\ DOMAIN T = Head(st)
    /\ \E last : /\ AllStart(sites, B, last) /\ AllStart(sites, last, L)
                 /\ Reached(k, sites, B, last, st, pg, tot, a)
                 /\ \A c \in DOMAIN T : Gets(T[c].got, c, sites, last, L, pg)

LEMMA FreshWork ==
    ASSUME NEW k \in ReportKinds, NEW sites, sites \subseteq Websites, NEW pg \in Nat \ {0},
           NEW B, NEW L, NEW st, NEW tot, NEW a, Reaches(k, sites, B, L, st, pg, tot, a),
           NEW calls, calls = Head(st)
    PROVE  WorkFits(k, sites, B, st, pg, tot, a, NewTasks(calls, sites), L)
  <1>1. PICK last : AllStart(sites, B, last) /\ AllStart(sites, last, L) /\ Reached(k, sites, B, last, st, pg, tot, a)
    BY DEF Reaches
  <1> DEFINE T == NewTasks(calls, sites)
             none == [w \in sites |-> Nothing]
  <1>2. DOMAIN T = calls /\ \A c \in calls : T[c].got = none
    BY DEF NewTasks
  <1>3. ASSUME NEW c \in calls PROVE Gets(none, c, sites, last, L, pg)
    BY DEF Gets
  <1> HIDE DEF T, none
  <1>4. WorkFits(k, sites, B, st, pg, tot, a, T, L)
    BY <1>1, <1>2, <1>3 DEF WorkFits
  <1> QED
    BY <1>4 DEF T

LEMMA SitesFinite == ASSUME NEW sites, sites \subseteq Websites PROVE IsFiniteSet(sites)
BY UmamiAssumption, FS_Subset

\* All websites have answered.
AllIn(T, sites) == \A c \in DOMAIN T : \A w \in sites : T[c].got[w] # Nothing
BodyOf(T) == [c \in DOMAIN T |-> Aggregate(c, T[c].got)]

LEMMA AllAnswered ==
    ASSUME NEW c, NEW got, NEW sites, NEW last, NEW L, NEW p, Gets(got, c, sites, last, L, p),
           \A w \in sites : got[w] # Nothing
    PROVE  Answers(got, c, sites, last, L, p)
BY DEF Gets, Answers

LEMMA AnswersSince ==
    ASSUME NEW c, NEW rs, NEW sites, NEW B, NEW last, NEW L, NEW p, AllStart(sites, B, last),
           Answers(rs, c, sites, last, L, p)
    PROVE  Answers(rs, c, sites, B, L, p)
BY StartsIs DEF Answers, AllStart

\* The reports of one stage.
LEMMA OneStageEnds ==
    ASSUME NEW k \in OneStage, NEW sites, sites \subseteq Websites, NEW B, NEW L, AllStart(sites, B, L),
           NEW calls, Plan(k) = <<calls>>, IsFiniteSet(calls), NEW body, NEW found, NEW full,
           Stage(body, calls, sites, B, L)
    PROVE  LET counts == Report(k, Taken(body), found) IN
           Complete(k, sites, found, counts, full, B, L) /\ \A x \in DOMAIN counts : counts[x] \in Nat
  <1> DEFINE counts == Report(k, Taken(body), found)
  <1>1. IsFiniteSet(sites)
    BY SitesFinite
  <1>2. CASE k # "sessions"
    <2>1. k \notin Paged /\ k # "event-catalog"
      BY DEF OneStage, Paged, ValueKinds, ZeroResults
    <2>2. Within(k, sites, found, counts, B, L)
      <3>1. CASE k = "stats"
        <4>1. calls = {Call("stats", "view")}
          BY <3>1, PlansAre
        <4> QED
          BY <1>1, <3>1, <4>1, StatsWithin
      <3>2. CASE k = "metrics"
        BY <1>1, <3>2, MetricsWithin
      <3>3. CASE k \in {"pageviews", "resource-metrics", "searches", "event-values"} \cup ValueKinds
        BY <1>1, <3>3, OneCallWithin
      <3> QED
        BY <1>2, <3>1, <3>2, <3>3 DEF OneStage
    <2> HIDE DEF counts
    <2>3. Complete(k, sites, found, counts, full, B, L) /\ \A x \in DOMAIN counts : counts[x] \in Nat
      BY <1>1, <2>1, <2>2, WithinIsComplete
    <2> QED
      BY <2>3 DEF counts
  <1>3. CASE k = "sessions"
    <2> DEFINE c == Call("sessionPage", "session")
               x == [call |-> c, body |-> body[c]]
    <2>1. calls = {c}
      BY <1>3, PlansAre
    <2>2. c.ep = "sessionPage" /\ c.of = "session" /\ Size(c) = PageSize
      BY DEF Call, Size
    <2> HIDE DEF c
    <2>3. PICK rs : Answers(rs, c, sites, B, L, 1) /\ body[c] = Aggregate(c, rs)
      BY <2>1 DEF Stage
    <2>4. PICK P : AllStart(sites, B, P) /\ AllStart(sites, P, L) /\ rs = Responses(c, sites, P, 1)
      BY <2>3, AnswersAre
    <2>5. \A w \in sites : IsList(P[w])
      BY <2>4 DEF AllStart, Starts
    <2>6. IsList(body[c].data) /\ \A S : CountIn(body[c].data, S) = PageAll(sites, P, "session", S, 1, PageSize)
      <3>1. c.ep \in Paging /\ 1 \in Nat \ {0}
        BY <2>2 DEF Paging
      <3>2. BringsPage(Aggregate(c, rs).data, sites, P, c.of, 1, Size(c))
        BY <1>1, <2>4, <2>5, <3>1, PagedAnswer
      <3> QED
        BY <2>2, <2>3, <3>2 DEF BringsPage
    <2>7. Taken(body) = <<x>>
      <3>1. {[call |-> d, body |-> body[d]] : d \in DOMAIN body} = {x}
        BY <2>1 DEF Stage
      <3> HIDE DEF x
      <3> QED
        BY <3>1, SetOfOne DEF Taken
    <2>8. Rows(Taken(body), c) = <<>> \o body[c].data
      <3>1. x.call = c /\ x.body.data = body[c].data
        OBVIOUS
      <3> HIDE DEF x
      <3>2. RowsFit(<<>>, c) /\ Append(<<>>, x) = <<x>> /\ Rows(<<>>, c) = <<>>
        BY SmallLists, RowsAre DEF RowsFit
      <3>3. x.call = c => IsList(x.body.data)
        BY <2>6, <3>1
      <3>4. Rows(Append(<<>>, x), c) = IF x.call = c THEN Rows(<<>>, c) \o x.body.data ELSE Rows(<<>>, c)
        BY <3>2, <3>3, RowsGrow
      <3> QED
        BY <2>7, <3>1, <3>2, <3>4
    <2>9. Reading(sites, P, P, "session", 1, <<>> \o body[c].data)
      <3>1. Reading(sites, P, P, "session", 0, <<>>)
        BY <1>1, <2>5, NotYetRead
      <3>2. AllStart(sites, P, P) /\ 0 \in Nat /\ 0 + 1 = 1
        BY <2>4, AllStartIs
      <3>3. \A S : CountIn(body[c].data, S) = PageAll(sites, P, "session", S, 0 + 1, PageSize)
        BY <2>6, <3>2
      <3>4. Reading(sites, P, P, "session", 0 + 1, <<>> \o body[c].data)
        BY <1>1, <2>6, <3>1, <3>2, <3>3, ReadOn
      <3> QED
        BY <3>2, <3>4
    <2>10. NoMoreOf(sites, P, P, {"session"}, Rows(Taken(body), c))
      <3>1. AllStart(sites, P, P) /\ 1 \in Nat
        BY <2>4, AllStartIs
      <3> QED
        BY <1>1, <2>8, <2>9, <3>1, ReadEnd
    <2>11. counts = Sessions(Rows(Taken(body), c))
      BY <1>3, PagedReports DEF c
    <2> HIDE DEF counts
    <2>12. Complete(k, sites, found, counts, full, B, L) /\ \A y \in DOMAIN counts : counts[y] \in Nat
      BY <1>1, <1>3, <2>4, <2>10, <2>11, SessionsComplete
    <2> QED
      BY <2>12 DEF counts
  <1> QED
    BY <1>2, <1>3

-----------------------------------------------------------------------------
(* What a page that has been read adds.                                    *)

LEMMA TakenOne ==
    ASSUME NEW c, NEW body, DOMAIN body = {c}, NEW a, IsList(a)
    PROVE  a \o Taken(body) = Append(a, [call |-> c, body |-> body[c]])
  <1> DEFINE x == [call |-> c, body |-> body[c]]
  <1>1. Taken(body) = <<x>>
    <2>1. {[call |-> d, body |-> body[d]] : d \in DOMAIN body} = {x}
      OBVIOUS
    <2> QED
      BY <2>1, SetOfOne DEF Taken
  <1>2. a \in Seq(ToSet(a) \cup {x})
    BY DEF IsList
  <1>3. a \o <<x>> = Append(a, x)
    BY <1>2
  <1> QED
    BY <1>1, <1>3

LEMMA TakeRows ==
    ASSUME NEW c, NEW body, DOMAIN body = {c}, NEW a, RowsFit(a, c), IsList(body[c].data)
    PROVE  /\ RowsFit(a \o Taken(body), c)
           /\ Rows(a \o Taken(body), c) = Rows(a, c) \o body[c].data
  <1> DEFINE x == [call |-> c, body |-> body[c]]
  <1>0. IsList(a)
    BY DEF RowsFit
  <1>1. a \o Taken(body) = Append(a, x)
    BY <1>0, TakenOne
  <1>2. x.call = c /\ x.body = body[c]
    OBVIOUS
  <1> HIDE DEF x
  <1>3. x.call = c => IsList(x.body.data)
    BY <1>2
  <1>4. /\ RowsFit(Append(a, x), c)
        /\ Rows(Append(a, x), c) = IF x.call = c THEN Rows(a, c) \o x.body.data ELSE Rows(a, c)
    BY <1>3, RowsGrow
  <1> QED
    BY <1>1, <1>2, <1>4

LEMMA KeepRows ==
    ASSUME NEW c, NEW body, DOMAIN body = {c}, NEW a, NEW d, RowsFit(a, d), d # c
    PROVE  RowsFit(a \o Taken(body), d) /\ Rows(a \o Taken(body), d) = Rows(a, d)
  <1> DEFINE x == [call |-> c, body |-> body[c]]
  <1>0. IsList(a)
    BY DEF RowsFit
  <1>1. a \o Taken(body) = Append(a, x)
    BY <1>0, TakenOne
  <1>2. x.call # d
    OBVIOUS
  <1> HIDE DEF x
  <1>3. x.call = d => IsList(x.body.data)
    BY <1>2
  <1>4. /\ RowsFit(Append(a, x), d)
        /\ Rows(Append(a, x), d) = IF x.call = d THEN Rows(a, d) \o x.body.data ELSE Rows(a, d)
    BY <1>3, RowsGrow
  <1> QED
    BY <1>1, <1>2, <1>4

\* An empty page is beyond the last row.
LEMMA NoneLeft ==
    ASSUME NEW rows, IsList(rows), NEW p \in Nat \ {0}, ToSet(PageOf(rows, p, PageSize)) = {}
    PROVE  Unread(Len(rows), p, PageSize) = 0
  <1> DEFINE N == Len(rows)
             hi == Unread(N, p - 1, PageSize)
             lo == Unread(N, p, PageSize)
             part == PageOf(rows, p, PageSize)
  <1>1. PageSize \in Nat \ {0} /\ N \in Nat
    BY UmamiAssumption, ListLen
  <1>2. IsList(part) /\ Len(part) = hi - lo /\ hi \in Nat /\ lo \in Nat
    BY <1>1, PageCounts
  <1>3. hi = lo
    <2>1. Len(part) \in Nat /\ DOMAIN part = 1..Len(part)
      BY <1>2, ListLen
    <2>2. DOMAIN part = {}
      BY DEF ToSet
    <2>3. Len(part) = 0
      BY <2>1, <2>2
    <2> HIDE DEF hi, lo, part
    <2> QED
      BY <1>2, <2>3
  <1>4. (p - 1) * PageSize + PageSize = p * PageSize /\ (p - 1) * PageSize \in Nat
    BY <1>1
  <1> DEFINE s == (p - 1) * PageSize
             t == p * PageSize
  <1>5. hi = (IF N > s THEN N - s ELSE 0) /\ lo = (IF N > t THEN N - t ELSE 0)
    BY DEF Unread
  <1> HIDE DEF N, hi, lo, s, t
  <1>6. s + PageSize = t /\ s \in Nat /\ t \in Nat
    <2>1. s + PageSize = t /\ s \in Nat
      BY <1>4 DEF s, t
    <2> QED
      BY <1>1, <2>1
  <1>7. lo = 0
    <2>1. CASE N > t
      <3>1. hi = N - s /\ lo = N - t
        BY <1>1, <1>5, <1>6, <2>1
      <3>2. N - s = N - t
        BY <1>3, <3>1
      <3> QED
        BY <1>1, <1>6, <3>2
    <2>2. CASE ~(N > t)
      BY <1>5, <2>2
    <2> QED
      BY <2>1, <2>2
  <1> QED
    BY <1>7 DEF lo, N

\* A page of one event, of all websites: they had logged Q when it was read.
PageIn(sites, B, Q, of, pg, rows, new, count) ==
    /\ Reading(sites, B, Q, of, pg, rows \o new) /\ IsList(new)
    /\ count \in Nat /\ \A w \in sites : count >= Len(Named(Q[w], of))
    /\ new = <<>> => \A w \in sites : LeftOf(Q[w], of, pg) = 0

LEMMA PageRead ==
    ASSUME NEW sites, sites \subseteq Websites, NEW B, NEW last, NEW L,
           AllStart(sites, B, last), AllStart(sites, last, L), NEW pg \in Nat \ {0},
           NEW c, c.ep \in Paging, Size(c) = PageSize, NEW got, Gets(got, c, sites, last, L, pg),
           \A w \in sites : got[w] # Nothing,
           NEW rows, Reading(sites, B, last, c.of, pg - 1, rows)
    PROVE  \E Q : /\ AllStart(sites, B, Q) /\ AllStart(sites, Q, L) /\ AllStart(sites, last, Q)
                  /\ PageIn(sites, B, Q, c.of, pg, rows, Aggregate(c, got).data, Aggregate(c, got).count)
  <1> DEFINE new == Aggregate(c, got).data
             count == Aggregate(c, got).count
  <1>1. Answers(got, c, sites, last, L, pg)
    BY AllAnswered
  <1>2. PICK Q : AllStart(sites, last, Q) /\ AllStart(sites, Q, L) /\ got = Responses(c, sites, Q, pg)
    BY <1>1, AnswersAre
  <1>3. AllStart(sites, B, Q) /\ AllStart(sites, Q, Q) /\ IsFiniteSet(sites)
    BY <1>2, AllStartIs, SitesFinite
  <1>4. \A w \in sites : IsList(Q[w])
    BY <1>3 DEF AllStart, Starts
  <1>5. /\ BringsPage(new, sites, Q, c.of, pg, Size(c))
        /\ count = SumFunction([w \in sites |-> Len(Named(Q[w], c.of))])
        /\ ToSet(new) = UNION {ToSet(PageOf(Named(Q[w], c.of), pg, Size(c))) : w \in sites}
    <2>1. BringsPage(new, sites, Q, c.of, pg, Size(c))
      BY <1>2, <1>3, <1>4, PagedAnswer
    <2>2. count = SumFunction([w \in sites |-> Len(Named(Q[w], c.of))])
      BY <1>2, <1>3, <1>4, PagedAnswer
    <2>3. ToSet(new) = UNION {ToSet(PageOf(Named(Q[w], c.of), pg, Size(c))) : w \in sites}
      BY <1>2, <1>3, <1>4, PagedAnswer
    <2> QED
      BY <2>1, <2>2, <2>3
  <1> DEFINE len(w) == Len(Named(Q[w], c.of))
             f == [w \in sites |-> len(w)]
  <1>6. \A w \in sites : IsList(Named(Q[w], c.of)) /\ len(w) \in Nat
    BY <1>4, NamedIs, ListLen
  <1>7. new = <<>> => \A w \in sites : LeftOf(Q[w], c.of, pg) = 0
    <2> SUFFICES ASSUME new = <<>>, NEW w \in sites PROVE LeftOf(Q[w], c.of, pg) = 0
      OBVIOUS
    <2>1. ToSet(new) = {}
      BY DEF ToSet
    <2>2. ToSet(PageOf(Named(Q[w], c.of), pg, PageSize)) = {}
      BY <1>5, <2>1
    <2> QED
      BY <1>6, <2>2, NoneLeft DEF LeftOf
  <1>8. count = SumFunction(f)
    BY <1>5
  <1> HIDE DEF len, new, count
  <1>9. f \in [sites -> Nat]
    BY <1>6
  <1>10. \A w \in sites : f[w] = len(w)
    OBVIOUS
  <1> HIDE DEF f
  <1>11. count \in Nat /\ \A w \in sites : count >= len(w)
    <2>1. count \in Nat
      BY <1>3, <1>8, <1>9, SumNat
    <2>2. ASSUME NEW w \in sites PROVE count >= len(w)
      <3>1. f[w] <= SumFunction(f)
        BY <1>3, <1>9, SumAtLeast
      <3> QED
        BY <1>6, <1>8, <1>10, <2>1, <3>1
    <2> QED
      BY <2>1, <2>2
  <1>12. Reading(sites, B, Q, c.of, pg, rows \o new)
    <2>1. pg - 1 \in Nat /\ (pg - 1) + 1 = pg /\ IsList(new)
      BY <1>5 DEF BringsPage
    <2>2. \A S : CountIn(new, S) = PageAll(sites, Q, c.of, S, (pg - 1) + 1, PageSize)
      BY <1>5, <2>1 DEF BringsPage
    <2>3. Reading(sites, B, Q, c.of, (pg - 1) + 1, rows \o new)
      BY <1>2, <1>3, <2>1, <2>2, ReadOn
    <2> QED
      BY <2>1, <2>3
  <1>13. IsList(new)
    BY <1>5 DEF BringsPage
  <1>14. PageIn(sites, B, Q, c.of, pg, rows, new, count)
    BY <1>7, <1>11, <1>12, <1>13 DEF PageIn, len
  <1> QED
    BY <1>2, <1>3, <1>14 DEF new, count

-----------------------------------------------------------------------------
(* What follows a page: another one, the next stage, or the report.        *)

PagesOf(pg, tot, b) ==
    IF pg > 1 THEN tot
    ELSE IF b.count <= PageSize THEN 1 ELSE (b.count + PageSize - 1) \div PageSize
MoreOf(c, pg, tot, b) ==
    \/ c.ep = "pivot" /\ pg < PagesOf(pg, tot, b)
    \/ c.ep = "sessions" /\ b.data # <<>> /\ pg < MaxPages
RestOf(k, st, b, a) ==
    LET names == SetToSeq(DOMAIN b \ {NoText})
    IN IF k = "event-catalog" /\ a = <<>>
       THEN [i \in DOMAIN names |-> {Call("keys", names[i])}]
       ELSE Tail(st)

Rightly(k, sites, found, counts, full, B, L) ==
    Complete(k, sites, found, counts, full, B, L) /\ \A x \in DOMAIN counts : counts[x] \in Nat
Ends(k, sites, full, B, L, a) ==
    \A found : Rightly(k, sites, found, Report(k, a, found), full, B, L)
Follows(k, sites, B, L, st, pg, more, n, rest, a) ==
    /\ more => Reaches(k, sites, B, L, st, pg + 1, n, a)
    /\ ~more /\ rest # <<>> => Reaches(k, sites, B, L, rest, 1, 0, a)
    /\ ~more /\ rest = <<>> => Ends(k, sites, pg >= MaxPages, B, L, a)
GoesOn(k, sites, B, L, st, pg, tot, a, T) ==
    LET c == CHOOSE c \in DOMAIN T : TRUE
        b == BodyOf(T)[c]
    IN Follows(k, sites, B, L, st, pg, MoreOf(c, pg, tot, b), PagesOf(pg, tot, b),
               RestOf(k, st, b, a), a \o Taken(BodyOf(T)))

LEMMA OneTask ==
    ASSUME NEW T, NEW c, DOMAIN T = {c}
    PROVE  /\ (CHOOSE d \in DOMAIN T : TRUE) = c
           /\ DOMAIN BodyOf(T) = {c} /\ BodyOf(T)[c] = Aggregate(c, T[c].got)
BY DEF BodyOf

LEMMA OnePlan ==
    \A x : Head(<<x>>) = x /\ Tail(<<x>>) = <<>>
  <1> TAKE x
  <1>1. <<x>> \in Seq({x}) /\ Len(<<x>>) = 1
    OBVIOUS
  <1> QED
    BY <1>1

LEMMA HeatmapGoes ==
    ASSUME NEW k, k = "heatmap", NEW sites, NEW B, NEW L, NEW st, NEW pg, NEW tot, NEW a, NEW T,
           WorkFits(k, sites, B, st, pg, tot, a, T, L), AllIn(T, sites)
    PROVE  GoesOn(k, sites, B, L, st, pg, tot, a, T)
  <1> DEFINE body == BodyOf(T)
             b == Aggregate(Heat, T[Heat].got)
             rows == Rows(a, Heat)
             a2 == a \o Taken(body)
  <1>1. PICK last : /\ AllStart(sites, B, last) /\ AllStart(sites, last, L)
                    /\ Reached(k, sites, B, last, st, pg, tot, a)
                    /\ \A c \in DOMAIN T : Gets(T[c].got, c, sites, last, L, pg)
    BY DEF WorkFits
  <1>2. sites \subseteq Websites /\ pg \in Nat \ {0} /\ DOMAIN T = Head(st)
    BY DEF WorkFits
  <1>3. st = <<{Heat}>> /\ RowsFit(a, Heat) /\ Reading(sites, B, last, "session", pg - 1, rows)
    BY <1>1, PlansAre DEF Reached, Heat
  <1>4. DOMAIN T = {Heat} /\ Tail(st) = <<>>
    BY <1>2, <1>3, OnePlan
  <1>5. Heat.ep = "sessions" /\ Heat.of = "session" /\ Size(Heat) = PageSize /\ Heat.ep \in Paging
    BY DEF Heat, Call, Size, Paging
  <1>6. PICK Q : /\ AllStart(sites, B, Q) /\ AllStart(sites, Q, L) /\ AllStart(sites, last, Q)
                 /\ PageIn(sites, B, Q, Heat.of, pg, rows, b.data, b.count)
    <2>1. Gets(T[Heat].got, Heat, sites, last, L, pg) /\ \A w \in sites : T[Heat].got[w] # Nothing
      BY <1>1, <1>4 DEF AllIn
    <2>2. Reading(sites, B, last, Heat.of, pg - 1, rows)
      BY <1>3, <1>5
    <2> HIDE DEF b, rows
    <2> QED
      BY <1>1, <1>2, <1>5, <2>1, <2>2, PageRead DEF b
  <1>7. DOMAIN body = {Heat} /\ body[Heat] = b /\ (CHOOSE d \in DOMAIN T : TRUE) = Heat
    BY <1>4, OneTask
  <1> HIDE DEF body, b, rows
  <1>8. RowsFit(a2, Heat) /\ Rows(a2, Heat) = rows \o b.data
    <2>1. IsList(body[Heat].data)
      BY <1>6, <1>7 DEF PageIn
    <2>2. /\ RowsFit(a \o Taken(body), Heat)
          /\ Rows(a \o Taken(body), Heat) = Rows(a, Heat) \o body[Heat].data
      BY <1>3, <1>7, <2>1, TakeRows
    <2> QED
      BY <1>7, <2>2 DEF rows
  <1> HIDE DEF a2
  <1>9. Reading(sites, B, Q, "session", pg, Rows(a2, Heat))
    BY <1>5, <1>6, <1>8 DEF PageIn
  <1>10. ASSUME NEW n PROVE Reaches(k, sites, B, L, st, pg + 1, n, a2)
    <2>1. Reading(sites, B, Q, "session", (pg + 1) - 1, Rows(a2, Heat))
      <3>1. (pg + 1) - 1 = pg
        BY <1>2
      <3> QED
        BY <1>9, <3>1
    <2>2. k \notin OneStage /\ k \notin {"export", "area-searches"} /\ k # "event-catalog"
      BY DEF OneStage, ValueKinds, ZeroResults
    <2>3. st = Plan(k)
      BY <1>1 DEF Reached
    <2>4. Reached(k, sites, B, Q, st, pg + 1, n, a2)
      BY <1>8, <2>1, <2>2, <2>3 DEF Reached
    <2> QED
      BY <1>6, <2>4 DEF Reaches
  <1>11. ASSUME NEW n, ~MoreOf(Heat, pg, n, b) PROVE Ends(k, sites, pg >= MaxPages, B, L, a2)
    <2>1. b.data = <<>> \/ pg >= MaxPages
      BY <1>2, <1>5, <1>11, UmamiAssumption DEF MoreOf
    <2>2. IsFiniteSet(sites) /\ pg \in Nat /\ AllStart(sites, B, L)
      BY <1>2, <1>6, SitesFinite, AllStartIs
    <2>3. NoMoreOf(sites, B, L, {"session"}, Rows(a2, Heat))
      <3>1. NoMoreOf(sites, B, Q, {"session"}, Rows(a2, Heat))
        BY <1>6, <1>9, <2>2, ReadEnd
      <3> QED
        BY <1>6, <2>2, <3>1, ReadGrows
    <2>4. pg >= MaxPages \/ EnoughOf(sites, B, L, {"session"}, Rows(a2, Heat))
      <3>1. CASE b.data = <<>>
        <4>1. \A w \in sites : LeftOf(Q[w], "session", pg) = 0
          BY <1>5, <1>6, <3>1 DEF PageIn
        <4>2. EnoughOf(sites, B, Q, {"session"}, Rows(a2, Heat))
          BY <1>6, <1>9, <2>2, <4>1, ReadEnd
        <4> QED
          BY <1>6, <2>2, <4>2, ReadGrows
      <3> QED
        BY <2>1, <3>1
    <2>5. ASSUME NEW found PROVE Rightly(k, sites, found, Report(k, a2, found), pg >= MaxPages, B, L)
      <3>1. Report(k, a2, found) = Points(Rows(a2, Heat), found)
        BY PagedReports DEF Heat
      <3> DEFINE counts == Points(Rows(a2, Heat), found)
      <3>2. Complete(k, sites, found, counts, pg >= MaxPages, B, L) /\ \A x \in DOMAIN counts : counts[x] \in Nat
        BY <2>2, <2>3, <2>4, HeatmapComplete
      <3> HIDE DEF counts
      <3>3. Rightly(k, sites, found, counts, pg >= MaxPages, B, L)
        BY <3>2 DEF Rightly
      <3> QED
        BY <3>1, <3>3 DEF counts
    <2> QED
      BY <2>5 DEF Ends
  <1>12. RestOf(k, st, b, a) = <<>>
    BY <1>4 DEF RestOf
  <1>13. Follows(k, sites, B, L, st, pg, MoreOf(Heat, pg, tot, b), PagesOf(pg, tot, b), RestOf(k, st, b, a), a2)
    BY <1>10, <1>11, <1>12 DEF Follows
  <1> QED
    BY <1>7, <1>13 DEF GoesOn, a2, body

LEMMA OnePlans ==
    ASSUME NEW k \in OneStage
    PROVE  \E calls : /\ Plan(k) = <<calls>> /\ IsFiniteSet(calls) /\ calls # {}
                      /\ \A c \in calls : c.ep \notin {"pivot", "sessions"}
  <1>1. \A x : IsFiniteSet({x}) /\ {x} # {}
    BY FS_Singleton
  <1>2. ASSUME NEW ep, NEW of, ep \notin {"pivot", "sessions"}, Plan(k) = <<{Call(ep, of)}>>
        PROVE  \E calls : /\ Plan(k) = <<calls>> /\ IsFiniteSet(calls) /\ calls # {}
                          /\ \A c \in calls : c.ep \notin {"pivot", "sessions"}
    <2>1. \A c \in {Call(ep, of)} : c.ep \notin {"pivot", "sessions"}
      BY <1>2 DEF Call
    <2> QED
      BY <1>1, <1>2, <2>1
  <1>3. CASE k = "metrics"
    <2> DEFINE x == Call("path", "view")
               y == Call("query", "view")
               z == Call("series", Nothing)
    <2>1. x.ep = "path" /\ y.ep = "query" /\ z.ep = "series"
      BY DEF Call
    <2>2. Plan(k) = <<{x, y, z}>>
      BY <1>3, PlansAre
    <2> HIDE DEF x, y, z
    <2>3. IsFiniteSet({x, y, z})
      <3>1. IsFiniteSet({x} \cup {y}) /\ IsFiniteSet(({x} \cup {y}) \cup {z})
        BY <1>1, FS_Union
      <3>2. ({x} \cup {y}) \cup {z} = {x, y, z}
        OBVIOUS
      <3> QED
        BY <3>1, <3>2
    <2>4. \A c \in {x, y, z} : c.ep \notin {"pivot", "sessions"}
      BY <2>1
    <2> QED
      BY <2>2, <2>3, <2>4
  <1>4. CASE k = "stats"
    BY <1>2, <1>4, PlansAre
  <1>5. CASE k = "pageviews"
    BY <1>2, <1>5, PlansAre
  <1>6. CASE k = "resource-metrics"
    BY <1>2, <1>6, PlansAre
  <1>7. CASE k = "searches"
    BY <1>2, <1>7, PlansAre
  <1>8. CASE k \in ValueKinds
    BY <1>2, <1>8, PlansAre
  <1>9. CASE k = "event-values"
    BY <1>2, <1>9, PlansAre
  <1>10. CASE k = "sessions"
    BY <1>2, <1>10, PlansAre
  <1> QED
    BY <1>3, <1>4, <1>5, <1>6, <1>7, <1>8, <1>9, <1>10 DEF OneStage

LEMMA OneStageGoes ==
    ASSUME NEW k \in OneStage, NEW sites, NEW B, NEW L, NEW st, NEW pg, NEW tot, NEW a, NEW T,
           WorkFits(k, sites, B, st, pg, tot, a, T, L), AllIn(T, sites)
    PROVE  GoesOn(k, sites, B, L, st, pg, tot, a, T)
  <1> DEFINE body == BodyOf(T)
             c == CHOOSE c \in DOMAIN T : TRUE
             a2 == a \o Taken(body)
  <1>1. PICK last : /\ AllStart(sites, B, last) /\ AllStart(sites, last, L)
                    /\ Reached(k, sites, B, last, st, pg, tot, a)
                    /\ \A d \in DOMAIN T : Gets(T[d].got, d, sites, last, L, pg)
    BY DEF WorkFits
  <1>2. sites \subseteq Websites /\ DOMAIN T = Head(st)
    BY DEF WorkFits
  <1>3. st = Plan(k) /\ pg = 1 /\ a = <<>> /\ k # "event-catalog"
    <2>1. k # "event-catalog"
      BY DEF OneStage, ValueKinds, ZeroResults
    <2> QED
      BY <1>1, <2>1 DEF Reached
  <1>4. PICK calls : /\ Plan(k) = <<calls>> /\ IsFiniteSet(calls) /\ calls # {}
                     /\ \A d \in calls : d.ep \notin {"pivot", "sessions"}
    BY OnePlans
  <1>5. DOMAIN T = calls /\ Tail(st) = <<>>
    BY <1>2, <1>3, <1>4, OnePlan
  <1>6. DOMAIN body = calls /\ \A d \in calls : body[d] = Aggregate(d, T[d].got)
    BY <1>5 DEF BodyOf
  <1>7. c \in calls
    BY <1>4, <1>5
  <1>8. Stage(body, calls, sites, B, L)
    <2>1. ASSUME NEW d \in calls PROVE \E rs : Answers(rs, d, sites, B, L, 1) /\ body[d] = Aggregate(d, rs)
      <3>1. Gets(T[d].got, d, sites, last, L, 1) /\ \A w \in sites : T[d].got[w] # Nothing
        BY <1>1, <1>3, <1>5 DEF AllIn
      <3>2. Answers(T[d].got, d, sites, last, L, 1)
        BY <3>1, AllAnswered
      <3>3. Answers(T[d].got, d, sites, B, L, 1)
        BY <1>1, <3>2, AnswersSince
      <3> QED
        BY <1>6, <3>3
    <2> HIDE DEF body
    <2> QED
      BY <1>4, <1>6, <2>1 DEF Stage
  <1> HIDE DEF body, c
  <1>9. a2 = Taken(body)
    BY <1>3, <1>4, <1>6, TakenIs
  <1> HIDE DEF a2
  <1>10. Ends(k, sites, pg >= MaxPages, B, L, a2)
    <2>1. AllStart(sites, B, L)
      BY <1>1, AllStartIs
    <2>2. ASSUME NEW found PROVE Rightly(k, sites, found, Report(k, a2, found), pg >= MaxPages, B, L)
      <3> DEFINE full == pg >= MaxPages
                 counts == Report(k, Taken(body), found)
      <3> HIDE DEF full
      <3>1. Complete(k, sites, found, counts, full, B, L) /\ \A x \in DOMAIN counts : counts[x] \in Nat
        BY <1>2, <1>4, <1>8, <2>1, OneStageEnds
      <3> HIDE DEF counts
      <3>2. Rightly(k, sites, found, counts, full, B, L)
        BY <3>1 DEF Rightly
      <3> QED
        BY <1>9, <3>2 DEF counts, full
    <2> QED
      BY <2>2 DEF Ends
  <1>11. RestOf(k, st, body[c], a) = <<>>
    BY <1>3, <1>5 DEF RestOf
  <1>12. ~MoreOf(c, pg, tot, body[c])
    BY <1>4, <1>7 DEF MoreOf
  <1>13. Follows(k, sites, B, L, st, pg, MoreOf(c, pg, tot, body[c]), PagesOf(pg, tot, body[c]),
                 RestOf(k, st, body[c], a), a2)
    BY <1>10, <1>11, <1>12 DEF Follows
  <1> QED
    BY <1>13 DEF GoesOn, a2, body, c

-----------------------------------------------------------------------------
(* The reports that read several events, one after the other.              *)

LEMMA TwoThreeLists ==
    \A x, y, z : /\ Head(<<x, y>>) = x /\ Tail(<<x, y>>) = <<y>>
                 /\ Head(<<x, y, z>>) = x /\ Tail(<<x, y, z>>) = <<y, z>>
  <1> TAKE x, y, z
  <1>1. <<x, y>> \in Seq({x, y, z}) /\ <<x, y, z>> \in Seq({x, y, z}) /\ <<y, z>> \in Seq({x, y, z})
    OBVIOUS
  <1> QED
    BY <1>1

LEMMA LeftIs ==
    ASSUME NEW k \in {"export", "area-searches"}
    PROVE  /\ Order(k)[1] = "search_text" /\ Order(k)[2] = "search_taxonomy"
           /\ k = "export" => DOMAIN Order(k) = {1, 2}
           /\ k = "area-searches" => DOMAIN Order(k) = {1, 2, 3} /\ Order(k)[3] = ZeroResults
           /\ \A i, j \in DOMAIN Order(k) : Order(k)[i] = Order(k)[j] => i = j
           /\ Left(k, 1) = Plan(k)
           /\ \A i \in DOMAIN Order(k) :
                 /\ Left(k, i) # <<>> /\ Head(Left(k, i)) = {Call("pivot", Order(k)[i])}
                 /\ i + 1 \in DOMAIN Order(k) => Tail(Left(k, i)) = Left(k, i + 1)
                 /\ i + 1 \notin DOMAIN Order(k) => Tail(Left(k, i)) = <<>>
  <1> DEFINE x == {Call("pivot", "search_text")}
             y == {Call("pivot", "search_taxonomy")}
             z == {Call("pivot", ZeroResults)}
  <1>1. CASE k = "export"
    <2>1. Plan(k) = <<x, y>> /\ Order(k) = <<"search_text", "search_taxonomy">>
      BY <1>1, PlansAre DEF Order
    <2>2. DOMAIN Order(k) = {1, 2} /\ Order(k)[1] = "search_text" /\ Order(k)[2] = "search_taxonomy"
      BY <2>1
    <2>3. x = {Call("pivot", Order(k)[1])} /\ y = {Call("pivot", Order(k)[2])}
      BY <2>2
    <2> HIDE DEF x, y
    <2>4. Left(k, 1) = <<x, y>> /\ Left(k, 2) = <<y>>
      BY <2>1, TwoThreeLists DEF Left
    <2>5. Head(Left(k, 1)) = x /\ Tail(Left(k, 1)) = Left(k, 2) /\ Head(Left(k, 2)) = y /\ Tail(Left(k, 2)) = <<>>
      BY <2>4, TwoThreeLists, OnePlan
    <2>6. Left(k, 1) # <<>> /\ Left(k, 2) # <<>>
      BY <2>4
    <2>7. Left(k, 1) = Plan(k)
      BY DEF Left
    <2>8. \A i, j \in DOMAIN Order(k) : Order(k)[i] = Order(k)[j] => i = j
      BY <2>2
    <2>9. ASSUME NEW i \in DOMAIN Order(k)
          PROVE  /\ Left(k, i) # <<>> /\ Head(Left(k, i)) = {Call("pivot", Order(k)[i])}
                 /\ i + 1 \in DOMAIN Order(k) => Tail(Left(k, i)) = Left(k, i + 1)
                 /\ i + 1 \notin DOMAIN Order(k) => Tail(Left(k, i)) = <<>>
      <3>1. CASE i = 1
        BY <2>2, <2>3, <2>5, <2>6, <3>1
      <3>2. CASE i = 2
        BY <2>2, <2>3, <2>5, <2>6, <3>2
      <3> QED
        BY <2>2, <3>1, <3>2
    <2> QED
      BY <1>1, <2>2, <2>7, <2>8, <2>9
  <1>2. CASE k = "area-searches"
    <2>1. Plan(k) = <<x, y, z>> /\ Order(k) = <<"search_text", "search_taxonomy", ZeroResults>>
      BY <1>2, PlansAre DEF Order
    <2>2. /\ DOMAIN Order(k) = {1, 2, 3} /\ Order(k)[1] = "search_text" /\ Order(k)[2] = "search_taxonomy"
          /\ Order(k)[3] = ZeroResults
      BY <2>1
    <2>3. /\ x = {Call("pivot", Order(k)[1])} /\ y = {Call("pivot", Order(k)[2])}
          /\ z = {Call("pivot", Order(k)[3])}
      BY <2>2
    <2> HIDE DEF x, y, z
    <2>4. Left(k, 1) = <<x, y, z>> /\ Left(k, 2) = <<y, z>> /\ Left(k, 3) = <<z>>
      BY <2>1, TwoThreeLists DEF Left
    <2>5. /\ Head(Left(k, 1)) = x /\ Tail(Left(k, 1)) = Left(k, 2) /\ Head(Left(k, 2)) = y
          /\ Tail(Left(k, 2)) = Left(k, 3) /\ Head(Left(k, 3)) = z /\ Tail(Left(k, 3)) = <<>>
      <3>1. Head(<<x, y, z>>) = x /\ Tail(<<x, y, z>>) = <<y, z>>
        BY TwoThreeLists
      <3>2. Head(<<y, z>>) = y /\ Tail(<<y, z>>) = <<z>>
        BY TwoThreeLists
      <3>3. Head(<<z>>) = z /\ Tail(<<z>>) = <<>>
        BY OnePlan
      <3> QED
        BY <2>4, <3>1, <3>2, <3>3
    <2>6. Left(k, 1) # <<>> /\ Left(k, 2) # <<>> /\ Left(k, 3) # <<>>
      BY <2>4
    <2>7. Left(k, 1) = Plan(k)
      BY DEF Left
    <2>8. \A i, j \in DOMAIN Order(k) : Order(k)[i] = Order(k)[j] => i = j
      BY <2>2 DEF ZeroResults
    <2>9. ASSUME NEW i \in DOMAIN Order(k)
          PROVE  /\ Left(k, i) # <<>> /\ Head(Left(k, i)) = {Call("pivot", Order(k)[i])}
                 /\ i + 1 \in DOMAIN Order(k) => Tail(Left(k, i)) = Left(k, i + 1)
                 /\ i + 1 \notin DOMAIN Order(k) => Tail(Left(k, i)) = <<>>
      <3>1. CASE i = 1
        BY <2>2, <2>3, <2>5, <2>6, <3>1
      <3>2. CASE i = 2
        BY <2>2, <2>3, <2>5, <2>6, <3>2
      <3>3. CASE i = 3
        BY <2>2, <2>3, <2>5, <2>6, <3>3
      <3> QED
        BY <2>2, <3>1, <3>2, <3>3
    <2> QED
      BY <1>2, <2>2, <2>7, <2>8, <2>9
  <1> QED
    BY <1>1, <1>2

\* All the pages there are for as many rows as Umami counted.
LEMMA PagesSuffice ==
    ASSUME NEW b, b.count \in Nat, NEW n, n = PagesOf(1, 0, b)
    PROVE  n \in Nat /\ n * PageSize >= b.count
  <1> DEFINE c == b.count
             s == PageSize
             q == (c + s - 1) \div s
  <1>1. c \in Nat /\ s \in Nat \ {0}
    BY UmamiAssumption
  <1>2. n = IF c <= s THEN 1 ELSE q
    BY DEF PagesOf
  <1> HIDE DEF c, s
  <1>3. q \in Nat /\ q * s >= c
    BY <1>1
  <1> HIDE DEF q
  <1>4. n \in Nat /\ n * s >= c
    BY <1>1, <1>2, <1>3
  <1> QED
    BY <1>4 DEF c, s

\* Before the first page of an event, whatever has been logged meanwhile.
LEMMA NothingRead ==
    ASSUME NEW sites, IsFiniteSet(sites), NEW B, NEW Q, AllStart(sites, B, Q), NEW of
    PROVE  Reading(sites, B, Q, of, 0, <<>>)
  <1>1. ASSUME NEW S, NEW w \in sites
        PROVE  Fewest(B[w], Q[w], of, S, 0) = 0 /\ Most(B[w], Q[w], of, S, 0) \in Nat
    <2> DEFINE b == Len(Named(B[w], of))
               n == Len(Named(Q[w], of))
    <2>1. Starts(B[w], Q[w])
      BY DEF AllStart
    <2>2. b \in Nat /\ n \in Nat /\ b <= n
      BY <2>1, NamedGrows
    <2>3. LeftOf(Q[w], of, 0) = n
      BY <2>2, UnreadIs, UmamiAssumption DEF LeftOf
    <2> HIDE DEF b, n
    <2>4. Least(LeftOf(Q[w], of, 0), b) = b
      BY <2>2, <2>3 DEF Least
    <2> DEFINE x == CountUpto(Named(Q[w], of), S, b)
               y == CountUpto(Named(Q[w], of), S, n)
    <2>5. x \in Nat /\ y \in Nat
      BY <2>2, CountGrows
    <2>6. Fewest(B[w], Q[w], of, S, 0) = x - x
      BY <2>4 DEF Fewest, b
    <2>7. Most(B[w], Q[w], of, S, 0) = y - y + (n - b)
      BY <2>3 DEF Most, b, n
    <2> HIDE DEF x, y
    <2> QED
      BY <2>2, <2>5, <2>6, <2>7
  <1>2. ASSUME NEW S
        PROVE  FewestAll(sites, B, Q, of, S, 0) = 0 /\ MostAll(sites, B, Q, of, S, 0) \in Nat
    <2> DEFINE k(w) == Fewest(B[w], Q[w], of, S, 0)
               m(w) == Most(B[w], Q[w], of, S, 0)
               f == [w \in sites |-> k(w)]
               g == [w \in sites |-> m(w)]
    <2>1. \A w \in sites : k(w) = 0 /\ m(w) \in Nat
      BY <1>1
    <2>2. FewestAll(sites, B, Q, of, S, 0) = SumFunction(f) /\ MostAll(sites, B, Q, of, S, 0) = SumFunction(g)
      BY DEF FewestAll, MostAll
    <2> HIDE DEF k, m
    <2>3. f \in [sites -> Nat] /\ g \in [sites -> Nat] /\ \A w \in sites : f[w] = 0
      BY <2>1
    <2> HIDE DEF f, g
    <2>4. SumFunction(f) = 0 /\ SumFunction(g) \in Nat
      BY <2>3, SumZero, SumNat
    <2> QED
      BY <2>2, <2>4
  <1>3. IsList(<<>>) /\ \A S : CountIn(<<>>, S) = 0
    BY SmallLists
  <1>4. ASSUME NEW S
        PROVE  /\ FewestAll(sites, B, Q, of, S, 0) <= CountIn(<<>>, S)
               /\ CountIn(<<>>, S) <= MostAll(sites, B, Q, of, S, 0)
    BY <1>2, <1>3
  <1> QED
    BY <1>3, <1>4 DEF Reading

\* All events have been read.
PivotsRead(k, sites, B, L, a) ==
    \A j \in DOMAIN Order(k) : /\ EnoughOf(sites, B, L, {Order(k)[j]}, Pivots(a, Order(k)[j]))
                               /\ NoMoreOf(sites, B, L, {Order(k)[j]}, Pivots(a, Order(k)[j]))

LEMMA PivotsEnd ==
    ASSUME NEW k \in {"export", "area-searches"}, NEW sites, IsFiniteSet(sites), NEW B, NEW L,
           AllStart(sites, B, L), NEW a, PivotsRead(k, sites, B, L, a), NEW full
    PROVE  Ends(k, sites, full, B, L, a)
  <1> DEFINE rows == Pivots(a, "search_text")
             more == Pivots(a, "search_taxonomy")
             zero == Pivots(a, ZeroResults)
             M == {"search_text"}
             N == {"search_taxonomy"}
  <1>1. 1 \in DOMAIN Order(k) /\ 2 \in DOMAIN Order(k)
    BY LeftIs
  <1>2. /\ EnoughOf(sites, B, L, M, rows) /\ NoMoreOf(sites, B, L, M, rows)
        /\ EnoughOf(sites, B, L, N, more) /\ NoMoreOf(sites, B, L, N, more)
    BY <1>1, LeftIs DEF PivotsRead
  <1>3. M \cap N = {} /\ (M \cup N) \cap {ZeroResults} = {}
    BY DEF ZeroResults
  <1> HIDE DEF rows, more, zero
  <1>4. EnoughOf(sites, B, L, M \cup N, rows \o more)
    BY <1>2, <1>3, ReadBoth
  <1>5. NoMoreOf(sites, B, L, M \cup N, rows \o more)
    BY <1>2, <1>3, ReadBoth
  <1>6. CASE k = "export"
    <2>1. ASSUME NEW found PROVE Rightly(k, sites, found, Report(k, a, found), full, B, L)
      <3> DEFINE counts == Exported(rows \o more)
      <3>1. Report(k, a, found) = counts
        BY <1>6, PagedReports DEF rows, more
      <3>2. Complete(k, sites, found, counts, full, B, L) /\ \A x \in DOMAIN counts : counts[x] \in Nat
        BY <1>4, <1>5, <1>6, ExportComplete
      <3> HIDE DEF counts
      <3> QED
        BY <3>1, <3>2 DEF Rightly
    <2> QED
      BY <2>1 DEF Ends
  <1>7. CASE k = "area-searches"
    <2>1. EnoughOf(sites, B, L, {ZeroResults}, zero) /\ NoMoreOf(sites, B, L, {ZeroResults}, zero)
      <3>1. 3 \in DOMAIN Order(k) /\ Order(k)[3] = ZeroResults
        BY <1>7, LeftIs
      <3> QED
        BY <3>1 DEF PivotsRead, zero
    <2> DEFINE both == rows \o more
               U == M \cup N
    <2>2. IsList(both) /\ IsList(zero)
      BY <1>4, <2>1 DEF EnoughOf
    <2>3. EnoughOf(sites, B, L, U, both) /\ NoMoreOf(sites, B, L, U, both)
      BY <1>4, <1>5
    <2>4. U \cap {ZeroResults} = {}
      BY <1>3
    <2> HIDE DEF both, U
    <2>5. EnoughOf(sites, B, L, U \cup {ZeroResults}, both \o zero)
      BY <2>1, <2>3, <2>4, ReadBoth
    <2>6. NoMoreOf(sites, B, L, U \cup {ZeroResults}, both \o zero)
      BY <2>1, <2>3, <2>4, ReadBoth
    <2>7. ASSUME NEW found PROVE Rightly(k, sites, found, Report(k, a, found), full, B, L)
      <3> DEFINE counts == Areas(both, zero)
      <3>1. Report(k, a, found) = counts
        BY <1>7, PagedReports DEF rows, more, zero, both
      <3>2. Complete(k, sites, found, counts, full, B, L) /\ \A x \in DOMAIN counts : counts[x] \in Nat
        <4>1. U \cup {ZeroResults} = ({"search_text"} \cup {"search_taxonomy"}) \cup {ZeroResults}
          BY DEF U
        <4> QED
          BY <1>7, <2>1, <2>2, <2>5, <2>6, <4>1, AreasComplete
      <3> HIDE DEF counts
      <3> QED
        BY <3>1, <3>2 DEF Rightly
    <2> QED
      BY <2>7 DEF Ends
  <1> QED
    BY <1>6, <1>7

\* One page of the event the report is at.
LEMMA PivotPage ==
    ASSUME NEW k \in {"export", "area-searches"}, NEW sites, sites \subseteq Websites, NEW B, NEW last, NEW L,
           AllStart(sites, B, last), AllStart(sites, last, L), NEW pg \in Nat \ {0}, NEW tot, NEW a,
           NEW i \in DOMAIN Order(k), PivotsReached(k, i, sites, B, last, pg, tot, a),
           NEW c, c = Call("pivot", Order(k)[i]), NEW body, DOMAIN body = {c},
           NEW got, body[c] = Aggregate(c, got), Gets(got, c, sites, last, L, pg),
           \A w \in sites : got[w] # Nothing
    PROVE  LET n == PagesOf(pg, tot, body[c]) IN
           \E Q : /\ AllStart(sites, B, Q) /\ AllStart(sites, Q, L)
                  /\ PivotsReached(k, i, sites, B, Q, pg + 1, n, a \o Taken(body))
  <1> DEFINE of == Order(k)[i]
             b == body[c]
             n == PagesOf(pg, tot, b)
             rows == Pivots(a, of)
             a2 == a \o Taken(body)
             d(j) == Call("pivot", Order(k)[j])
  <1>1. c.ep \in Paging /\ c.of = of /\ Size(c) = PageSize
    BY DEF Call, Paging, Size
  <1>2. PICK Q : /\ AllStart(sites, B, Q) /\ AllStart(sites, Q, L) /\ AllStart(sites, last, Q)
                 /\ PageIn(sites, B, Q, of, pg, rows, b.data, b.count)
    <2>1. Reading(sites, B, last, c.of, pg - 1, rows)
      BY <1>1 DEF PivotsReached
    <2> HIDE DEF rows, of
    <2>2. \E Q : /\ AllStart(sites, B, Q) /\ AllStart(sites, Q, L) /\ AllStart(sites, last, Q)
                 /\ PageIn(sites, B, Q, c.of, pg, rows, Aggregate(c, got).data, Aggregate(c, got).count)
      BY <1>1, <2>1, PageRead
    <2> QED
      BY <1>1, <2>2
  <1>3. \A j \in DOMAIN Order(k) : RowsFit(a, d(j)) /\ (j # i => d(j) # c)
    <2> SUFFICES ASSUME NEW j \in DOMAIN Order(k) PROVE RowsFit(a, d(j)) /\ (j # i => d(j) # c)
      OBVIOUS
    <2>1. RowsFit(a, d(j))
      BY DEF PivotsReached
    <2>2. d(j).of = Order(k)[j] /\ c.of = Order(k)[i]
      BY DEF Call
    <2>3. j # i => Order(k)[j] # Order(k)[i]
      BY LeftIs
    <2> HIDE DEF d
    <2> QED
      BY <2>1, <2>2, <2>3
  <1>4. d(i) = c /\ rows = Rows(a, c) /\ \A x, j : Pivots(x, Order(k)[j]) = Rows(x, d(j))
    BY DEF Pivots
  <1> HIDE DEF b, n, d, rows, of
  <1>5. RowsFit(a2, c) /\ Rows(a2, c) = rows \o b.data
    <2>1. IsList(body[c].data) /\ RowsFit(a, c)
      BY <1>2, <1>3, <1>4 DEF PageIn, b
    <2>2. RowsFit(a \o Taken(body), c) /\ Rows(a \o Taken(body), c) = Rows(a, c) \o body[c].data
      BY <2>1, TakeRows
    <2> QED
      BY <1>4, <2>2 DEF b
  <1>6. ASSUME NEW j \in DOMAIN Order(k), j # i
        PROVE  RowsFit(a2, d(j)) /\ Rows(a2, d(j)) = Rows(a, d(j))
    <2>1. RowsFit(a, d(j)) /\ d(j) # c
      BY <1>3, <1>6
    <2> QED
      BY <2>1, KeepRows
  <1> HIDE DEF a2
  <1>7. n \in Nat /\ \A w \in sites : n * PageSize >= Len(Named(B[w], of))
    <2>1. CASE pg > 1
      <3>1. n = tot
        BY <2>1 DEF n, PagesOf
      <3> QED
        BY <2>1, <3>1 DEF PivotsReached, of
    <2>2. CASE ~(pg > 1)
      <3>1. n = PagesOf(1, 0, b) /\ b.count \in Nat
        <4>1. n = PagesOf(1, 0, b)
          BY <2>2 DEF n, PagesOf
        <4> QED
          BY <1>2, <4>1 DEF PageIn
      <3>2. n \in Nat /\ n * PageSize >= b.count
        BY <3>1, PagesSuffice
      <3>3. ASSUME NEW w \in sites PROVE n * PageSize >= Len(Named(B[w], of))
        <4>1. b.count >= Len(Named(Q[w], of))
          BY <1>2 DEF PageIn
        <4>2. Starts(B[w], Q[w])
          BY <1>2 DEF AllStart
        <4>3. Len(Named(B[w], of)) \in Nat /\ Len(Named(Q[w], of)) \in Nat /\ Len(Named(B[w], of)) <= Len(Named(Q[w], of))
          BY <4>2, NamedGrows
        <4> DEFINE x == Len(Named(B[w], of))
                   y == Len(Named(Q[w], of))
                   z == n * PageSize
        <4>4. z \in Int
          BY <3>2, UmamiAssumption
        <4>5. x \in Nat /\ y \in Nat /\ x <= y /\ b.count >= y /\ z >= b.count
          BY <3>2, <4>1, <4>3
        <4> HIDE DEF x, y, z
        <4>6. z >= x
          BY <3>1, <4>4, <4>5
        <4> QED
          BY <4>6 DEF x, z
      <3> QED
        BY <3>2, <3>3
    <2> QED
      BY <2>1, <2>2
  <1>8. Reading(sites, B, Q, of, (pg + 1) - 1, Pivots(a2, of))
    <2>1. Reading(sites, B, Q, of, pg, rows \o b.data)
      BY <1>2 DEF PageIn
    <2>2. (pg + 1) - 1 = pg /\ Pivots(a2, of) = rows \o b.data
      BY <1>4, <1>5 DEF of
    <2> QED
      BY <2>1, <2>2
  <1>9. IsFiniteSet(sites)
    BY SitesFinite
  <1>10. ASSUME NEW j \in DOMAIN Order(k)
         PROVE  /\ RowsFit(a2, d(j))
                /\ j < i => /\ EnoughOf(sites, B, Q, {Order(k)[j]}, Pivots(a2, Order(k)[j]))
                            /\ NoMoreOf(sites, B, Q, {Order(k)[j]}, Pivots(a2, Order(k)[j]))
                /\ j > i => Pivots(a2, Order(k)[j]) = <<>>
    <2>1. CASE j = i
      <3>1. i \in Nat
        BY LeftIs
      <3> QED
        BY <1>4, <1>5, <2>1, <3>1
    <2>2. CASE j # i
      <3>1. Pivots(a2, Order(k)[j]) = Pivots(a, Order(k)[j])
        BY <1>4, <1>6, <2>2
      <3>2. j < i => /\ EnoughOf(sites, B, last, {Order(k)[j]}, Pivots(a, Order(k)[j]))
                     /\ NoMoreOf(sites, B, last, {Order(k)[j]}, Pivots(a, Order(k)[j]))
        BY DEF PivotsReached
      <3>3. j > i => Pivots(a, Order(k)[j]) = <<>>
        BY DEF PivotsReached
      <3>4. ASSUME j < i
            PROVE  /\ EnoughOf(sites, B, Q, {Order(k)[j]}, Pivots(a, Order(k)[j]))
                   /\ NoMoreOf(sites, B, Q, {Order(k)[j]}, Pivots(a, Order(k)[j]))
        BY <1>2, <1>9, <3>2, <3>4, ReadGrows
      <3> QED
        BY <1>6, <2>2, <3>1, <3>3, <3>4
    <2> QED
      BY <2>1, <2>2
  <1>11. PivotsReached(k, i, sites, B, Q, pg + 1, n, a2)
    BY <1>7, <1>8, <1>10 DEF PivotsReached, d, of
  <1> QED
    BY <1>2, <1>11 DEF n, a2, b

LEMMA PivotsGo ==
    ASSUME NEW k \in {"export", "area-searches"}, NEW sites, NEW B, NEW L, NEW st, NEW pg, NEW tot,
           NEW a, NEW T, WorkFits(k, sites, B, st, pg, tot, a, T, L), AllIn(T, sites)
    PROVE  GoesOn(k, sites, B, L, st, pg, tot, a, T)
  <1>1. PICK last : /\ AllStart(sites, B, last) /\ AllStart(sites, last, L)
                    /\ Reached(k, sites, B, last, st, pg, tot, a)
                    /\ \A d \in DOMAIN T : Gets(T[d].got, d, sites, last, L, pg)
    BY DEF WorkFits
  <1>2. sites \subseteq Websites /\ pg \in Nat \ {0} /\ DOMAIN T = Head(st)
    BY DEF WorkFits
  <1>3. PICK i \in DOMAIN Order(k) : st = Left(k, i) /\ PivotsReached(k, i, sites, B, last, pg, tot, a)
    BY <1>1 DEF Reached
  <1> DEFINE body == BodyOf(T)
             of == Order(k)[i]
             c == Call("pivot", of)
             b == Aggregate(c, T[c].got)
             n == PagesOf(pg, tot, b)
             a2 == a \o Taken(body)
  <1>4. DOMAIN T = {c} /\ c.ep = "pivot"
    BY <1>2, <1>3, LeftIs DEF Call
  <1>5. DOMAIN body = {c} /\ body[c] = b /\ (CHOOSE d \in DOMAIN T : TRUE) = c
    BY <1>4, OneTask
  <1>6. PICK Q : /\ AllStart(sites, B, Q) /\ AllStart(sites, Q, L)
                 /\ PivotsReached(k, i, sites, B, Q, pg + 1, n, a2)
    <2>1. Gets(T[c].got, c, sites, last, L, pg) /\ \A w \in sites : T[c].got[w] # Nothing
      BY <1>1, <1>4 DEF AllIn
    <2>2. c = Call("pivot", Order(k)[i])
      OBVIOUS
    <2>3. body[c] = Aggregate(c, T[c].got)
      BY <1>5
    <2> HIDE DEF body, c
    <2>4. \E Q : /\ AllStart(sites, B, Q) /\ AllStart(sites, Q, L)
                 /\ PivotsReached(k, i, sites, B, Q, pg + 1, PagesOf(pg, tot, body[c]), a \o Taken(body))
      BY <1>1, <1>2, <1>3, <1>5, <2>1, <2>2, <2>3, PivotPage
    <2> QED
      BY <1>5, <2>4
  <1> HIDE DEF body, c, b, n, a2
  <1>7. k \notin OneStage /\ k # "heatmap" /\ k # "event-catalog" /\ i \in Nat
    BY LeftIs DEF OneStage, ValueKinds, ZeroResults
  <1>8. Reaches(k, sites, B, L, st, pg + 1, n, a2)
    <2>1. Reached(k, sites, B, Q, st, pg + 1, n, a2)
      BY <1>3, <1>6, <1>7 DEF Reached
    <2> QED
      BY <1>6, <2>1 DEF Reaches
  <1>9. MoreOf(c, pg, tot, b) <=> pg < n
    BY <1>4 DEF MoreOf, n
  <1>10. RestOf(k, st, b, a) = Tail(st)
    BY <1>7 DEF RestOf
  <1>11. IsFiniteSet(sites)
    BY <1>2, SitesFinite
  <1>12. ASSUME ~(pg < n)
         PROVE  EnoughOf(sites, B, Q, {of}, Pivots(a2, of)) /\ NoMoreOf(sites, B, Q, {of}, Pivots(a2, of))
    <2>1. Reading(sites, B, Q, of, pg, Pivots(a2, of))
      <3>1. (pg + 1) - 1 = pg
        BY <1>2
      <3>2. Reading(sites, B, Q, of, (pg + 1) - 1, Pivots(a2, of))
        BY <1>6 DEF PivotsReached
      <3> QED
        BY <3>1, <3>2
    <2>2. n \in Nat /\ \A w \in sites : n * PageSize >= Len(Named(B[w], of))
      <3>1. pg + 1 > 1
        BY <1>2
      <3> QED
        BY <1>6, <3>1 DEF PivotsReached
    <2>3. ASSUME NEW w \in sites PROVE pg * PageSize >= Len(Named(B[w], of))
      <3> DEFINE x == Len(Named(B[w], of))
                 y == n * PageSize
                 z == pg * PageSize
      <3>1. x \in Nat
        <4>1. Starts(B[w], Q[w])
          BY <1>6 DEF AllStart
        <4> QED
          BY <4>1, NamedGrows
      <3>2. n <= pg /\ PageSize \in Nat
        BY <1>2, <1>12, <2>2, UmamiAssumption
      <3>3. y <= z /\ y \in Nat /\ z \in Nat
        BY <1>2, <2>2, <3>2
      <3>4. y >= x
        BY <2>2
      <3> HIDE DEF x, y, z
      <3>5. z >= x
        BY <3>1, <3>3, <3>4
      <3> QED
        BY <3>5 DEF x, z
    <2>4. pg \in Nat
      BY <1>2
    <2>5. NoMoreOf(sites, B, Q, {of}, Pivots(a2, of))
      BY <1>6, <1>11, <2>1, <2>4, ReadEnd
    <2>6. EnoughOf(sites, B, Q, {of}, Pivots(a2, of))
      BY <1>6, <1>11, <2>1, <2>3, <2>4, ReadEnd
    <2> QED
      BY <2>5, <2>6
  <1>13. ASSUME ~(pg < n), NEW j \in DOMAIN Order(k), j < i + 1
         PROVE  /\ EnoughOf(sites, B, Q, {Order(k)[j]}, Pivots(a2, Order(k)[j]))
                /\ NoMoreOf(sites, B, Q, {Order(k)[j]}, Pivots(a2, Order(k)[j]))
    <2>1. CASE j = i
      BY <1>12, <1>13, <2>1
    <2>2. CASE j # i
      <3>1. j < i
        <4>1. j \in Nat
          BY LeftIs
        <4> QED
          BY <1>7, <1>13, <2>2, <4>1
      <3> QED
        BY <1>6, <3>1 DEF PivotsReached
    <2> QED
      BY <2>1, <2>2
  <1>14. ASSUME ~(pg < n), Tail(st) # <<>> PROVE Reaches(k, sites, B, L, Tail(st), 1, 0, a2)
    <2>1. i + 1 \in DOMAIN Order(k) /\ Tail(st) = Left(k, i + 1)
      BY <1>3, <1>14, LeftIs
    <2>2. Pivots(a2, Order(k)[i + 1]) = <<>>
      <3>1. i + 1 > i
        BY <1>7
      <3> QED
        BY <1>6, <2>1, <3>1 DEF PivotsReached
    <2>3. Reading(sites, B, Q, Order(k)[i + 1], 1 - 1, Pivots(a2, Order(k)[i + 1]))
      <3>1. 1 - 1 = 0
        OBVIOUS
      <3>2. Reading(sites, B, Q, Order(k)[i + 1], 0, <<>>)
        BY <1>6, <1>11, NothingRead
      <3> QED
        BY <2>2, <3>1, <3>2
    <2>4. ASSUME NEW j \in DOMAIN Order(k)
          PROVE  /\ RowsFit(a2, Call("pivot", Order(k)[j]))
                 /\ j > i + 1 => Pivots(a2, Order(k)[j]) = <<>>
      <3>1. j > i + 1 => j > i
        <4>1. j \in Nat
          BY LeftIs
        <4> QED
          BY <1>7, <4>1
      <3> QED
        BY <1>6, <3>1 DEF PivotsReached
    <2>5. ASSUME NEW j \in DOMAIN Order(k), j < i + 1
          PROVE  /\ EnoughOf(sites, B, Q, {Order(k)[j]}, Pivots(a2, Order(k)[j]))
                 /\ NoMoreOf(sites, B, Q, {Order(k)[j]}, Pivots(a2, Order(k)[j]))
      BY <1>13, <1>14, <2>5
    <2>6. ~(1 > 1)
      OBVIOUS
    <2>7. PivotsReached(k, i + 1, sites, B, Q, 1, 0, a2)
      BY <2>3, <2>4, <2>5, <2>6 DEF PivotsReached
    <2>8. Reached(k, sites, B, Q, Tail(st), 1, 0, a2)
      BY <1>7, <2>1, <2>7 DEF Reached
    <2> QED
      BY <1>6, <2>8 DEF Reaches
  <1>15. ASSUME ~(pg < n), Tail(st) = <<>> PROVE Ends(k, sites, pg >= MaxPages, B, L, a2)
    <2>1. i + 1 \notin DOMAIN Order(k)
      BY <1>3, <1>15, LeftIs
    <2>2. ASSUME NEW j \in DOMAIN Order(k)
          PROVE  /\ EnoughOf(sites, B, L, {Order(k)[j]}, Pivots(a2, Order(k)[j]))
                 /\ NoMoreOf(sites, B, L, {Order(k)[j]}, Pivots(a2, Order(k)[j]))
      <3>1. j < i + 1
        BY <1>7, <2>1, LeftIs
      <3>2. /\ EnoughOf(sites, B, Q, {Order(k)[j]}, Pivots(a2, Order(k)[j]))
            /\ NoMoreOf(sites, B, Q, {Order(k)[j]}, Pivots(a2, Order(k)[j]))
        BY <1>13, <1>15, <3>1
      <3> QED
        BY <1>6, <1>11, <3>2, ReadGrows
    <2>3. PivotsRead(k, sites, B, L, a2)
      BY <2>2 DEF PivotsRead
    <2>4. AllStart(sites, B, L)
      BY <1>6, AllStartIs
    <2> DEFINE full == pg >= MaxPages
    <2> HIDE DEF full
    <2>5. Ends(k, sites, full, B, L, a2)
      BY <1>11, <2>3, <2>4, PivotsEnd
    <2> QED
      BY <2>5 DEF full
  <1>16. Follows(k, sites, B, L, st, pg, MoreOf(c, pg, tot, b), n, RestOf(k, st, b, a), a2)
    BY <1>8, <1>9, <1>10, <1>14, <1>15 DEF Follows
  <1> QED
    BY <1>5, <1>16 DEF GoesOn, a2, n, body

-----------------------------------------------------------------------------
(* The catalogue: the names first, then some rows of each.                 *)

LEMMA CatalogGrows ==
    ASSUME NEW sites, NEW B, NEW P, NEW L, AllStart(sites, P, L), NEW a, CatalogRead(sites, B, P, a)
    PROVE  CatalogRead(sites, B, L, a)
  <1>1. \A w \in sites : ToSet(P[w]) \subseteq ToSet(L[w])
    BY StartsIs DEF AllStart
  <1> QED
    BY <1>1 DEF CatalogRead

LEMMA CatalogEnds ==
    ASSUME NEW sites, IsFiniteSet(sites), NEW B, NEW L, AllStart(sites, B, L), NEW full,
           NEW a, CatalogRead(sites, B, L, a)
    PROVE  Ends("event-catalog", sites, full, B, L, a)
  <1>1. ASSUME NEW found
        PROVE  Rightly("event-catalog", sites, found, Report("event-catalog", a, found), full, B, L)
    <2>1. Report("event-catalog", a, found) = Catalog(a)
      BY PagedReports
    <2>2. /\ Complete("event-catalog", sites, found, Catalog(a), full, B, L)
          /\ \A x \in DOMAIN Catalog(a) : Catalog(a)[x] \in Nat
      BY CatalogComplete
    <2> QED
      BY <2>1, <2>2 DEF Rightly
  <1> QED
    BY <1>1 DEF Ends

LEMMA OnlySeriesBody ==
    ASSUME NEW a, NEW s, OnlySeries(a, s)
    PROVE  Body(a, "series") = s.body
  <1>1. (CHOOSE i \in ToSet(a) : i.call.ep = "series") = s
    BY DEF OnlySeries
  <1> QED
    BY <1>1 DEF Body

LEMMA ImageFinite ==
    ASSUME NEW S, IsFiniteSet(S), NEW f
    PROVE  IsFiniteSet({f[x] : x \in S})
  <1> DEFINE T == {f[x] : x \in S}
             g == [x \in S |-> f[x]]
  <1>1. g \in Surjection(S, T)
    BY DEF Surjection
  <1> QED
    BY <1>1, FS_Surjection

\* The names that websites list are those of their events, finitely many.
LEMMA NamesListed ==
    ASSUME NEW c, c.ep = "series", NEW sites, IsFiniteSet(sites), NEW P, \A w \in sites : IsList(P[w]),
           NEW p, NEW rs, rs = Responses(c, sites, P, p)
    PROVE  /\ IsFiniteSet(DOMAIN Aggregate(c, rs))
           /\ \A n : n \in DOMAIN Aggregate(c, rs)
                <=> n \notin {"view", "session"} /\ \E w \in sites : \E e \in ToSet(P[w]) : e.name = n
  <1>1. c.ep \in Counting
    BY DEF Counting
  <1>2. DOMAIN Aggregate(c, rs) = UNION {DOMAIN rs[w] : w \in sites}
    <2>1. DOMAIN rs = sites
      BY DEF Responses
    <2>2. Aggregate(c, rs) = MergeByName(rs)
      BY DEF Aggregate
    <2> QED
      BY <2>1, <2>2 DEF MergeByName
  <1>3. \A w \in sites : rs[w] = Response(c, P[w], p, Size(c))
    BY DEF Responses
  <1>4. ASSUME NEW w \in sites
        PROVE  /\ IsFiniteSet(DOMAIN rs[w])
               /\ \A n : n \in DOMAIN rs[w]
                     <=> n \notin {"view", "session"} /\ \E e \in ToSet(P[w]) : e.name = n
    <2> DEFINE M == P[w]
               D == DOMAIN rs[w]
    <2>1. \A n : n \in D <=> \E i \in DOMAIN M : M[i].name \notin {"view", "session"} /\ M[i].name = n
      BY <1>3, ResponseDomain
    <2>2. IsList(M)
      OBVIOUS
    <2> HIDE DEF M, D
    <2>3. ToSet(M) = {M[i] : i \in DOMAIN M}
      BY DEF ToSet
    <2>4. \A n : n \in D <=> n \notin {"view", "session"} /\ \E e \in ToSet(M) : e.name = n
      BY <2>1, <2>3
    <2>5. IsFiniteSet(DOMAIN M)
      BY <2>2, PositionsFinite
    <2> DEFINE f == [i \in DOMAIN M |-> M[i].name]
               names == {f[i] : i \in DOMAIN M}
    <2>6. IsFiniteSet(names)
      BY <2>5, ImageFinite
    <2>7. D \subseteq names
      BY <2>1
    <2> HIDE DEF names
    <2>8. IsFiniteSet(D)
      BY <2>6, <2>7, FS_Subset
    <2> QED
      BY <2>4, <2>8 DEF M, D
  <1> DEFINE g == [w \in sites |-> DOMAIN rs[w]]
             lists == {g[w] : w \in sites}
  <1>5. IsFiniteSet(lists)
    BY ImageFinite
  <1>6. \A D \in lists : IsFiniteSet(D)
    BY <1>4
  <1>7. DOMAIN Aggregate(c, rs) = UNION lists
    BY <1>2
  <1>8. \A n : n \in UNION lists <=> \E w \in sites : n \in DOMAIN rs[w]
    OBVIOUS
  <1> HIDE DEF lists
  <1>9. IsFiniteSet(UNION lists)
    BY <1>5, <1>6, FS_UNION
  <1>10. \A n : n \in DOMAIN Aggregate(c, rs)
                <=> n \notin {"view", "session"} /\ \E w \in sites : \E e \in ToSet(P[w]) : e.name = n
    BY <1>4, <1>7, <1>8
  <1> QED
    BY <1>7, <1>9, <1>10

\* The stages that the names make.
LEMMA StagesOfNames ==
    ASSUME NEW D, IsFiniteSet(D), NEW names, names = SetToSeq(D),
           NEW st, st = [i \in DOMAIN names |-> {Call("keys", names[i])}]
    PROVE  IsList(st) /\ \A i \in DOMAIN st : \E n \in D : st[i] = {Call("keys", n)}
  <1>1. Cardinality(D) \in Nat /\ DOMAIN names = 1..Cardinality(D) /\ ToSet(names) = D
    BY SetInOrder
  <1>2. \A i \in DOMAIN names : names[i] \in D
    BY <1>1 DEF ToSet
  <1>3. DOMAIN st = DOMAIN names /\ \A i \in DOMAIN st : st[i] = {Call("keys", names[i])}
    OBVIOUS
  <1> DEFINE U == {st[i] : i \in DOMAIN st}
  <1>4. st \in [1..Cardinality(D) -> U]
    BY <1>1
  <1> HIDE DEF U
  <1>5. st \in Seq(U)
    BY <1>1, <1>4
  <1>6. IsList(st)
    BY <1>5, ListOf
  <1> QED
    BY <1>2, <1>3, <1>6

LEMMA OtherRows ==
    ASSUME NEW c, c.ep = "series", NEW body, DOMAIN body = {c}, NEW a, \A d : RowsFit(a, d), NEW n
    PROVE  /\ RowsFit(a \o Taken(body), Call("keys", n))
           /\ Rows(a \o Taken(body), Call("keys", n)) = Rows(a, Call("keys", n))
  <1> DEFINE d == Call("keys", n)
  <1>1. d # c
    <2>1. d.ep = "keys"
      BY DEF Call
    <2> QED
      BY <2>1
  <1> HIDE DEF d
  <1>2. RowsFit(a, d)
    OBVIOUS
  <1>3. RowsFit(a \o Taken(body), d) /\ Rows(a \o Taken(body), d) = Rows(a, d)
    BY <1>1, <1>2, KeepRows
  <1> QED
    BY <1>3 DEF d

LEMMA StagesListed ==
    ASSUME NEW k, k = "event-catalog", NEW st, NEW b, IsFiniteSet(DOMAIN b), NEW rest, rest = RestOf(k, st, b, <<>>)
    PROVE  IsList(rest) /\ \A i \in DOMAIN rest : \E n \in DOMAIN b : rest[i] = {Call("keys", n)}
  <1> DEFINE D == DOMAIN b \ {NoText}
             names == SetToSeq(D)
  <1>1. IsFiniteSet(D) /\ D \subseteq DOMAIN b
    BY FS_Subset
  <1>2. rest = [i \in DOMAIN names |-> {Call("keys", names[i])}]
    BY DEF RestOf
  <1> HIDE DEF D
  <1>3. IsList(rest) /\ \A i \in DOMAIN rest : \E n \in D : rest[i] = {Call("keys", n)}
    BY <1>1, <1>2, StagesOfNames
  <1> QED
    BY <1>1, <1>3

Nil(a) == a = <<>>
LEMMA CatalogStarts ==
    ASSUME NEW k, k = "event-catalog", NEW sites, sites \subseteq Websites, NEW B, NEW L, NEW last,
           AllStart(sites, B, last), AllStart(sites, last, L), NEW st, st = Plan(k), NEW T, DOMAIN T = Head(st),
           \A d \in DOMAIN T : Gets(T[d].got, d, sites, last, L, 1), AllIn(T, sites), NEW tot, NEW a, Nil(a)
    PROVE  GoesOn(k, sites, B, L, st, 1, tot, a, T)
  <1> DEFINE c == Call("series", Nothing)
             body == BodyOf(T)
             b == Aggregate(c, T[c].got)
             a2 == a \o Taken(body)
             x == [call |-> c, body |-> body[c]]
             rest == RestOf(k, st, b, a)
             d(n) == Call("keys", n)
  <1>1. DOMAIN T = {c} /\ c.ep = "series"
    BY PlansAre, OnePlan DEF Call
  <1>2. DOMAIN body = {c} /\ body[c] = b /\ (CHOOSE e \in DOMAIN T : TRUE) = c
    BY <1>1, OneTask
  <1>3. Answers(T[c].got, c, sites, last, L, 1)
    BY <1>1, AllAnswered DEF AllIn
  <1>4. PICK Q : AllStart(sites, last, Q) /\ AllStart(sites, Q, L) /\ T[c].got = Responses(c, sites, Q, 1)
    BY <1>3, AnswersAre
  <1>5. AllStart(sites, B, Q) /\ AllStart(sites, Q, Q) /\ IsFiniteSet(sites)
    BY <1>4, AllStartIs, SitesFinite
  <1>6. \A w \in sites : IsList(Q[w])
    BY <1>5 DEF AllStart, Starts
  <1>7. /\ IsFiniteSet(DOMAIN b)
        /\ \A n : n \in DOMAIN b
                <=> n \notin {"view", "session"} /\ \E w \in sites : \E e \in ToSet(Q[w]) : e.name = n
    BY <1>1, <1>4, <1>5, <1>6, NamesListed
  <1>8. a2 = <<x>> /\ IsList(a) /\ \A e : RowsFit(a, e) /\ Rows(a, e) = <<>>
    <2>1. IsList(a) /\ \A e : RowsFit(a, e) /\ Rows(a, e) = <<>>
      BY SmallLists, RowsAre DEF RowsFit, Nil
    <2>2. a2 = Append(a, x)
      BY <1>2, <2>1, TakenOne
    <2> HIDE DEF x
    <2>3. Append(a, x) = <<x>>
      BY DEF Nil
    <2> QED
      BY <2>1, <2>2, <2>3 DEF x
  <1>9. x.call = c /\ x.body = b
    BY <1>2
  <1> HIDE DEF c, body, b, a2, x, rest, d
  <1>10. OnlySeries(a2, x) /\ a2 # <<>> /\ Body(a2, "series") = b
    <2>1. ToSet(a2) = {x}
      BY <1>8 DEF ToSet
    <2>2. OnlySeries(a2, x)
      BY <1>1, <1>9, <2>1 DEF OnlySeries
    <2>3. a2 # <<>>
      BY <1>8
    <2> QED
      BY <1>9, <2>2, <2>3, OnlySeriesBody
  <1>11. ASSUME NEW n PROVE RowsFit(a2, d(n)) /\ Rows(a2, d(n)) = <<>>
    <2>1. \A e : RowsFit(a, e)
      BY <1>8
    <2>2. /\ RowsFit(a \o Taken(body), Call("keys", n))
          /\ Rows(a \o Taken(body), Call("keys", n)) = Rows(a, Call("keys", n))
      BY <1>1, <1>2, <2>1, OtherRows
    <2> QED
      BY <1>8, <2>2 DEF d, a2
  <1>12. CatalogRead(sites, B, Q, a2)
    <2>1. ASSUME NEW w \in sites, NEW e \in ToSet(B[w]), e.name \notin {"view", "session"}
          PROVE  e.name \in DOMAIN b
      <3>1. e \in ToSet(Q[w])
        BY <1>5, StartsIs DEF AllStart
      <3> QED
        BY <1>7, <2>1, <3>1
    <2>2. ASSUME NEW n PROVE ToSet(Rows(a2, Call("keys", n))) = {}
      <3>1. Rows(a2, Call("keys", n)) = <<>>
        BY <1>11 DEF d
      <3> QED
        BY <3>1 DEF ToSet
    <2> QED
      BY <1>7, <1>10, <2>1, <2>2 DEF CatalogRead
  <1>13. IsList(rest) /\ \A i \in DOMAIN rest : \E n \in DOMAIN b : rest[i] = {Call("keys", n)}
    <2>1. rest = RestOf(k, st, b, <<>>)
      BY DEF rest, Nil
    <2> QED
      BY <1>7, <2>1, StagesListed
  <1>14. Reaches(k, sites, B, L, rest, 1, 0, a2)
    <2>1. KeysReached(sites, B, Q, rest, a2)
      BY <1>10, <1>11, <1>12, <1>13 DEF KeysReached, d
    <2>2. k \notin OneStage /\ k # "heatmap" /\ k \notin {"export", "area-searches"}
      BY DEF OneStage, ValueKinds, ZeroResults
    <2>3. Reached(k, sites, B, Q, rest, 1, 0, a2)
      BY <2>1, <2>2 DEF Reached
    <2> QED
      BY <1>4, <1>5, <2>3 DEF Reaches
  <1> DEFINE full == 1 >= MaxPages
  <1> HIDE DEF full
  <1>15. Ends(k, sites, full, B, L, a2)
    <2>1. CatalogRead(sites, B, L, a2) /\ AllStart(sites, B, L)
      BY <1>4, <1>5, <1>12, CatalogGrows, AllStartIs
    <2> QED
      BY <1>5, <2>1, CatalogEnds
  <1>16. ~MoreOf(c, 1, tot, b)
    BY <1>1 DEF MoreOf
  <1>17. Follows(k, sites, B, L, st, 1, MoreOf(c, 1, tot, b), PagesOf(1, tot, b), rest, a2)
    BY <1>14, <1>15, <1>16 DEF Follows, full
  <1> QED
    BY <1>2, <1>17 DEF GoesOn, a2, rest, body

LEMMA NextName ==
    ASSUME NEW st, IsList(st), st # <<>>, NEW D, \A i \in DOMAIN st : \E n \in D : st[i] = {Call("keys", n)}
    PROVE  /\ \E n \in D : Head(st) = {Call("keys", n)}
           /\ IsList(Tail(st)) /\ \A i \in DOMAIN Tail(st) : \E n \in D : Tail(st)[i] = {Call("keys", n)}
  <1>1. st \in Seq(ToSet(st)) /\ Len(st) \in Nat /\ Len(st) # 0 /\ DOMAIN st = 1..Len(st)
    BY DEF IsList
  <1>2. Head(st) = st[1] /\ 1 \in DOMAIN st
    BY <1>1
  <1>3. Tail(st) \in Seq(ToSet(st)) /\ DOMAIN Tail(st) = 1..(Len(st) - 1)
    BY <1>1
  <1>4. \A i \in DOMAIN Tail(st) : i + 1 \in DOMAIN st /\ Tail(st)[i] = st[i + 1]
    BY <1>1, <1>3
  <1>5. IsList(Tail(st))
    BY <1>3, ListOf
  <1> QED
    BY <1>2, <1>4, <1>5

LEMMA OtherKeys ==
    ASSUME NEW m, NEW n, m # n, NEW body, DOMAIN body = {Call("keys", n)},
           NEW a, \A i : RowsFit(a, Call("keys", i))
    PROVE  /\ RowsFit(a \o Taken(body), Call("keys", m))
           /\ Rows(a \o Taken(body), Call("keys", m)) = Rows(a, Call("keys", m))
  <1> DEFINE c == Call("keys", n)
             d == Call("keys", m)
  <1>1. d # c
    <2>1. d.of = m /\ c.of = n
      BY DEF Call
    <2> HIDE DEF d, c
    <2> QED
      BY <2>1
  <1>2. RowsFit(a, d) /\ DOMAIN body = {c}
    OBVIOUS
  <1> HIDE DEF c, d
  <1>3. RowsFit(a \o Taken(body), d) /\ Rows(a \o Taken(body), d) = Rows(a, d)
    BY <1>1, <1>2, KeepRows
  <1> QED
    BY <1>3 DEF d

LEMMA CatalogKeys ==
    ASSUME NEW k, k = "event-catalog", NEW sites, sites \subseteq Websites, NEW B, NEW L, NEW last,
           AllStart(sites, B, last), AllStart(sites, last, L), NEW st, NEW a,
           KeysReached(sites, B, last, st, a), ~Nil(st), NEW T, DOMAIN T = Head(st),
           \A d \in DOMAIN T : Gets(T[d].got, d, sites, last, L, 1), AllIn(T, sites), NEW tot
    PROVE  GoesOn(k, sites, B, L, st, 1, tot, a, T)
  <1> DEFINE D == DOMAIN Body(a, "series")
  <1>1. /\ IsList(st) /\ \A i \in DOMAIN st : \E n \in D : st[i] = {Call("keys", n)}
        /\ a # <<>> /\ CatalogRead(sites, B, last, a)
    BY DEF KeysReached
  <1>2. PICK s : OnlySeries(a, s)
    BY DEF KeysReached
  <1>3. \A n : RowsFit(a, Call("keys", n))
    BY DEF KeysReached
  <1> HIDE DEF D
  <1>4. PICK n \in D : Head(st) = {Call("keys", n)}
    BY <1>1, NextName DEF Nil
  <1>5. IsList(Tail(st)) /\ \A i \in DOMAIN Tail(st) : \E m \in D : Tail(st)[i] = {Call("keys", m)}
    BY <1>1, NextName DEF Nil
  <1> DEFINE c == Call("keys", n)
             body == BodyOf(T)
             b == Aggregate(c, T[c].got)
             a2 == a \o Taken(body)
             x == [call |-> c, body |-> body[c]]
  <1>6. DOMAIN T = {c} /\ c.ep = "keys" /\ c.of = n
    BY <1>4 DEF Call
  <1>7. DOMAIN body = {c} /\ body[c] = b /\ (CHOOSE e \in DOMAIN T : TRUE) = c
    BY <1>6, OneTask
  <1>8. Answers(T[c].got, c, sites, last, L, 1)
    BY <1>6, AllAnswered DEF AllIn
  <1>9. PICK Q : AllStart(sites, last, Q) /\ AllStart(sites, Q, L) /\ T[c].got = Responses(c, sites, Q, 1)
    BY <1>8, AnswersAre
  <1>10. AllStart(sites, B, Q) /\ AllStart(sites, Q, Q) /\ IsFiniteSet(sites)
    BY <1>9, AllStartIs, SitesFinite
  <1>11. \A w \in sites : IsList(Q[w])
    BY <1>10 DEF AllStart, Starts
  <1>12. IsList(b.data) /\ \A e \in ToSet(b.data) : e.name = n /\ \E w \in sites : e \in ToSet(Q[w])
    <2>1. c.ep \in Paging /\ 1 \in Nat \ {0}
      BY <1>6 DEF Paging
    <2>2. BringsPage(b.data, sites, Q, c.of, 1, Size(c))
      BY <1>9, <1>10, <1>11, <2>1, PagedAnswer
    <2>3. RowsOf(b.data, c.of, sites, Q)
      BY <1>9, <1>10, <1>11, <2>1, PagedAnswer
    <2> QED
      BY <1>6, <2>2, <2>3 DEF BringsPage, RowsOf
  <1>13. x.call = c
    OBVIOUS
  <1>14. a2 = Append(a, x) /\ IsList(a)
    BY <1>3, <1>7, TakenOne DEF RowsFit
  <1> HIDE DEF body, b, a2, x
  <1>15. OnlySeries(a2, s) /\ a2 # <<>> /\ Body(a2, "series") = Body(a, "series")
    <2>1. ToSet(a2) = ToSet(a) \cup {x} /\ Len(a2) = Len(a) + 1 /\ Len(a) \in Nat
      BY <1>14, ListAppend, ListLen
    <2>2. x.call.ep # "series"
      BY <1>6, <1>13
    <2>3. OnlySeries(a2, s)
      BY <1>2, <2>1, <2>2 DEF OnlySeries
    <2>4. a2 # <<>>
      <3>1. Len(a2) # 0
        BY <2>1
      <3> QED
        BY <3>1
    <2>5. Body(a2, "series") = s.body /\ Body(a, "series") = s.body
      BY <1>2, <2>3, OnlySeriesBody
    <2> QED
      BY <2>3, <2>4, <2>5
  <1>16. RowsFit(a2, c) /\ Rows(a2, c) = Rows(a, c) \o b.data
    <2>1. IsList(body[c].data) /\ RowsFit(a, c)
      BY <1>3, <1>7, <1>12
    <2>2. RowsFit(a \o Taken(body), c) /\ Rows(a \o Taken(body), c) = Rows(a, c) \o body[c].data
      BY <1>7, <2>1, TakeRows
    <2> QED
      BY <1>7, <2>2 DEF a2
  <1>17. ASSUME NEW m, m # n
         PROVE  RowsFit(a2, Call("keys", m)) /\ Rows(a2, Call("keys", m)) = Rows(a, Call("keys", m))
    <2>1. DOMAIN body = {Call("keys", n)} /\ \A i : RowsFit(a, Call("keys", i))
      BY <1>3, <1>7
    <2>2. /\ RowsFit(a \o Taken(body), Call("keys", m))
          /\ Rows(a \o Taken(body), Call("keys", m)) = Rows(a, Call("keys", m))
      BY <1>17, <2>1, OtherKeys
    <2> QED
      BY <2>2 DEF a2
  <1>18. CatalogRead(sites, B, Q, a2)
    <2>1. CatalogRead(sites, B, Q, a)
      BY <1>1, <1>9, CatalogGrows
    <2>2. ASSUME NEW m \in D, NEW e \in ToSet(Rows(a2, Call("keys", m)))
          PROVE  e.name = m /\ \E w \in sites : e \in ToSet(Q[w])
      <3>1. \A y \in ToSet(Rows(a, Call("keys", m))) : y.name = m /\ \E w \in sites : y \in ToSet(Q[w])
        BY <2>1 DEF CatalogRead, D
      <3>2. CASE m = n
        <4>1. IsList(Rows(a, c))
          BY <1>3, RowsAre
        <4>2. ToSet(Rows(a, c) \o b.data) = ToSet(Rows(a, c)) \cup ToSet(b.data)
          BY <1>12, <4>1, ListConcat
        <4>3. e \in ToSet(Rows(a, c)) \cup ToSet(b.data)
          BY <1>16, <2>2, <3>2, <4>2
        <4> QED
          BY <1>12, <3>1, <3>2, <4>3
      <3>3. CASE m # n
        BY <1>17, <2>2, <3>1, <3>3
      <3> QED
        BY <3>2, <3>3
    <2> QED
      BY <1>15, <2>1, <2>2 DEF CatalogRead, D
  <1>19. RestOf(k, st, b, a) = Tail(st)
    BY <1>1 DEF RestOf
  <1>20. Reaches(k, sites, B, L, Tail(st), 1, 0, a2)
    <2>1. ASSUME NEW m PROVE RowsFit(a2, Call("keys", m))
      BY <1>16, <1>17
    <2>2. KeysReached(sites, B, Q, Tail(st), a2)
      BY <1>5, <1>15, <1>18, <2>1 DEF KeysReached, D
    <2>3. k \notin OneStage /\ k # "heatmap" /\ k \notin {"export", "area-searches"}
      BY DEF OneStage, ValueKinds, ZeroResults
    <2>4. Reached(k, sites, B, Q, Tail(st), 1, 0, a2)
      BY <2>2, <2>3 DEF Reached
    <2> QED
      BY <1>9, <1>10, <2>4 DEF Reaches
  <1> DEFINE full == 1 >= MaxPages
  <1> HIDE DEF full
  <1>21. Ends(k, sites, full, B, L, a2)
    <2>1. CatalogRead(sites, B, L, a2) /\ AllStart(sites, B, L)
      BY <1>9, <1>10, <1>18, CatalogGrows, AllStartIs
    <2> QED
      BY <1>10, <2>1, CatalogEnds
  <1> HIDE DEF c
  <1>22. ~MoreOf(c, 1, tot, b)
    BY <1>6 DEF MoreOf
  <1>23. Follows(k, sites, B, L, st, 1, MoreOf(c, 1, tot, b), PagesOf(1, tot, b), RestOf(k, st, b, a), a2)
    BY <1>19, <1>20, <1>21, <1>22 DEF Follows, full
  <1> QED
    BY <1>7, <1>23 DEF GoesOn, a2, body

LEMMA AllGo ==
    ASSUME NEW k, NEW sites, NEW B, NEW L, NEW st, st # <<>>, NEW pg, NEW tot, NEW a, NEW T,
           WorkFits(k, sites, B, st, pg, tot, a, T, L), AllIn(T, sites)
    PROVE  GoesOn(k, sites, B, L, st, pg, tot, a, T)
  <1>1. k \in ReportKinds /\ sites \subseteq Websites /\ DOMAIN T = Head(st)
    BY DEF WorkFits
  <1>2. k \in OneStage \/ k = "heatmap" \/ k \in {"export", "area-searches"} \/ k = "event-catalog"
    BY <1>1 DEF ReportKinds, OneStage, ValueKinds, ZeroResults
  <1>3. CASE k \in OneStage
    BY <1>3, OneStageGoes
  <1>4. CASE k = "heatmap"
    BY <1>4, HeatmapGoes
  <1>5. CASE k \in {"export", "area-searches"}
    BY <1>5, PivotsGo
  <1>6. CASE k = "event-catalog"
    <2>1. PICK last : /\ AllStart(sites, B, last) /\ AllStart(sites, last, L)
                      /\ Reached(k, sites, B, last, st, pg, tot, a)
                      /\ \A d \in DOMAIN T : Gets(T[d].got, d, sites, last, L, pg)
      BY DEF WorkFits
    <2>2. pg = 1 /\ ((st = Plan(k) /\ a = <<>>) \/ KeysReached(sites, B, last, st, a))
      BY <1>6, <2>1 DEF Reached
    <2>3. \A d \in DOMAIN T : Gets(T[d].got, d, sites, last, L, 1)
      BY <2>1, <2>2
    <2>4. CASE st = Plan(k) /\ Nil(a)
      <3>1. GoesOn(k, sites, B, L, st, 1, tot, a, T)
        BY <1>1, <1>6, <2>1, <2>3, <2>4, CatalogStarts
      <3> QED
        BY <2>2, <3>1
    <2>5. CASE KeysReached(sites, B, last, st, a)
      <3>1. GoesOn(k, sites, B, L, st, 1, tot, a, T)
        BY <1>1, <1>6, <2>1, <2>3, <2>5, CatalogKeys DEF Nil
      <3> QED
        BY <2>2, <3>1
    <2> QED
      BY <2>2, <2>4, <2>5 DEF Nil
  <1> QED
    BY <1>2, <1>3, <1>4, <1>5, <1>6

-----------------------------------------------------------------------------
(* One request: what it was asked, its answer, its stages, its page, how   *)
(* many there are, what it has read, its fan-outs, and the logs before it. *)

Ok(an) == an # Nothing /\ an.outcome = "ok"
Settled(k, sites, an, full, B, L) ==
    /\ sites \subseteq Websites /\ AllStart(sites, B, L)
    /\ Rightly(k, sites, an.found, an.counts, full, B, L)
Fits(ak, an, st, pg, tot, a, T, B, L) ==
    /\ Nil(st) => Nil(a)
    /\ ak = Nothing => Nil(st) /\ ~Ok(an)
    /\ ~Nil(st) => ~Ok(an) /\ WorkFits(ak.kind, ak.sites, B, st, pg, tot, a, T, L)
    /\ Ok(an) => Settled(ak.kind, ak.sites, an, pg >= MaxPages, B, L)

Later(L, M) == \A w \in Websites : Starts(L[w], M[w])

LEMMA StartLater ==
    ASSUME NEW sites, sites \subseteq Websites, NEW B, NEW L, NEW M, AllStart(sites, B, L), Later(L, M)
    PROVE  AllStart(sites, B, M) /\ AllStart(sites, L, M)
BY StartsIs DEF AllStart, Later

LEMMA GetsLater ==
    ASSUME NEW sites, sites \subseteq Websites, NEW L, NEW M, Later(L, M), NEW got, NEW c, NEW last, NEW p,
           Gets(got, c, sites, last, L, p)
    PROVE  Gets(got, c, sites, last, M, p)
  <1>1. ASSUME NEW w \in sites, got[w] # Nothing
        PROVE  \E P : Starts(last[w], P) /\ Starts(P, M[w]) /\ got[w] = Response(c, P, p, Size(c))
    <2>1. PICK P : Starts(last[w], P) /\ Starts(P, L[w]) /\ got[w] = Response(c, P, p, Size(c))
      BY <1>1 DEF Gets
    <2>2. Starts(P, M[w])
      BY <2>1, StartsIs DEF Later
    <2> QED
      BY <2>1, <2>2
  <1> QED
    BY <1>1 DEF Gets

\* Events arrive.
LEMMA FitsLater ==
    ASSUME NEW ak, NEW an, NEW st, NEW pg, NEW tot, NEW a, NEW T, NEW B, NEW L, NEW M, Later(L, M),
           Fits(ak, an, st, pg, tot, a, T, B, L)
    PROVE  Fits(ak, an, st, pg, tot, a, T, B, M)
  <1> DEFINE k == ak.kind
             sites == ak.sites
  <1>1. ASSUME WorkFits(k, sites, B, st, pg, tot, a, T, L)
        PROVE  WorkFits(k, sites, B, st, pg, tot, a, T, M)
    <2> HIDE DEF k, sites
    <2>1. PICK last : /\ AllStart(sites, B, last) /\ AllStart(sites, last, L)
                      /\ Reached(k, sites, B, last, st, pg, tot, a)
                      /\ \A c \in DOMAIN T : Gets(T[c].got, c, sites, last, L, pg)
      BY <1>1 DEF WorkFits
    <2>2. sites \subseteq Websites
      BY <1>1 DEF WorkFits
    <2>3. AllStart(sites, last, M)
      BY <2>1, <2>2, StartLater
    <2>4. \A c \in DOMAIN T : Gets(T[c].got, c, sites, last, M, pg)
      BY <2>1, <2>2, GetsLater
    <2> QED
      BY <1>1, <2>1, <2>3, <2>4 DEF WorkFits
  <1> DEFINE full == pg >= MaxPages
  <1>2. ASSUME Settled(k, sites, an, full, B, L) PROVE Settled(k, sites, an, full, B, M)
    <2> HIDE DEF k, sites, full
    <2>1. /\ sites \subseteq Websites /\ AllStart(sites, B, L)
          /\ Complete(k, sites, an.found, an.counts, full, B, L) /\ \A x \in DOMAIN an.counts : an.counts[x] \in Nat
      BY <1>2 DEF Settled, Rightly
    <2>2. AllStart(sites, B, M) /\ AllStart(sites, L, M) /\ IsFiniteSet(sites)
      BY <2>1, StartLater, SitesFinite
    <2>3. Complete(k, sites, an.found, an.counts, full, B, M)
      BY <2>1, <2>2, StaysComplete
    <2> QED
      BY <2>1, <2>2, <2>3 DEF Settled, Rightly
  <1> HIDE DEF full
  <1>3. Ok(an) => Settled(k, sites, an, full, B, M)
    BY <1>2 DEF Fits, full
  <1> QED
    BY <1>1, <1>3 DEF Fits, full

\* Fan-outs get their token.
LEMMA FitsMoved ==
    ASSUME NEW ak, NEW an, NEW st, NEW pg, NEW tot, NEW a, NEW T, NEW B, NEW L, NEW U,
           DOMAIN U = DOMAIN T, \A c \in DOMAIN T : U[c].got = T[c].got,
           Fits(ak, an, st, pg, tot, a, T, B, L)
    PROVE  Fits(ak, an, st, pg, tot, a, U, B, L)
BY DEF Fits, WorkFits

\* A website answers.
LEMMA FitsFetched ==
    ASSUME NEW ak, NEW an, NEW st, NEW pg, NEW tot, NEW a, NEW T, NEW B, NEW L, Later(L, L), NEW U,
           NEW c \in DOMAIN T, NEW w \in ak.sites,
           DOMAIN U = DOMAIN T, \A d \in DOMAIN T : d # c => U[d].got = T[d].got,
           U[c].got = [T[c].got EXCEPT ![w] = Response(c, L[w], pg, Size(c))],
           Fits(ak, an, st, pg, tot, a, T, B, L)
    PROVE  Fits(ak, an, st, pg, tot, a, U, B, L)
  <1> DEFINE k == ak.kind
             sites == ak.sites
  <1>1. ASSUME WorkFits(k, sites, B, st, pg, tot, a, T, L)
        PROVE  WorkFits(k, sites, B, st, pg, tot, a, U, L)
    <2>0. w \in sites
      OBVIOUS
    <2> HIDE DEF k, sites
    <2>1. PICK last : /\ AllStart(sites, B, last) /\ AllStart(sites, last, L)
                      /\ Reached(k, sites, B, last, st, pg, tot, a)
                      /\ \A d \in DOMAIN T : Gets(T[d].got, d, sites, last, L, pg)
      BY <1>1 DEF WorkFits
    <2>2. sites \subseteq Websites
      BY <1>1 DEF WorkFits
    <2>3. Gets(U[c].got, c, sites, last, L, pg)
      <3> DEFINE got == T[c].got
                 new == U[c].got
      <3>1. Gets(got, c, sites, last, L, pg)
        BY <2>1
      <3>2. new = [got EXCEPT ![w] = Response(c, L[w], pg, Size(c))]
        OBVIOUS
      <3> HIDE DEF got, new
      <3>3. DOMAIN new = sites /\ new = [v \in sites |-> new[v]]
        BY <3>1, <3>2 DEF Gets
      <3>4. new[w] = Response(c, L[w], pg, Size(c)) /\ \A v \in sites : v # w => new[v] = got[v]
        BY <2>0, <3>1, <3>2 DEF Gets
      <3>5. ASSUME NEW v \in sites, new[v] # Nothing
            PROVE  \E P : Starts(last[v], P) /\ Starts(P, L[v]) /\ new[v] = Response(c, P, pg, Size(c))
        <4>1. CASE v = w
          <5>1. Starts(last[w], L[w]) /\ Starts(L[w], L[w])
            BY <2>0, <2>1, <2>2 DEF AllStart, Later
          <5> QED
            BY <3>4, <4>1, <5>1
        <4>2. CASE v # w
          BY <3>1, <3>4, <3>5, <4>2 DEF Gets
        <4> QED
          BY <4>1, <4>2
      <3>6. Gets(new, c, sites, last, L, pg)
        BY <3>3, <3>5 DEF Gets
      <3> QED
        BY <3>6 DEF new
    <2>4. \A d \in DOMAIN U : Gets(U[d].got, d, sites, last, L, pg)
      BY <2>1, <2>3
    <2> QED
      BY <1>1, <2>1, <2>4 DEF WorkFits
  <1> QED
    BY <1>1 DEF Fits

\* A request that has failed.
LEMMA FitsFailed ==
    ASSUME NEW ak, NEW an, ~Ok(an), NEW pg, NEW tot, NEW T, NEW B, NEW L,
           NEW st, Nil(st), NEW a, Nil(a)
    PROVE  Fits(ak, an, st, pg, tot, a, T, B, L)
BY DEF Fits

\* A request is made.
LEMMA FirstWork ==
    ASSUME NEW k \in ReportKinds, NEW sites, sites \subseteq Websites, NEW L, Later(L, L), NEW tot,
           NEW a, Nil(a)
    PROVE  Reaches(k, sites, L, L, Plan(k), 1, tot, a)
  <1>1. AllStart(sites, L, L) /\ IsFiniteSet(sites) /\ \A w \in sites : IsList(L[w])
    BY SitesFinite DEF AllStart, Later, Starts
  <1>2. \A c : RowsFit(a, c) /\ Rows(a, c) = <<>>
    BY SmallLists, RowsAre DEF RowsFit, Nil
  <1>3. \A of : Reading(sites, L, L, of, 0, <<>>)
    BY <1>1, NotYetRead
  <1>4. 1 - 1 = 0 /\ ~(1 > 1)
    OBVIOUS
  <1>5. k \in {"export", "area-searches"} =>
            \E i \in DOMAIN Order(k) : Plan(k) = Left(k, i) /\ PivotsReached(k, i, sites, L, L, 1, tot, a)
    <2> SUFFICES ASSUME k \in {"export", "area-searches"}
                 PROVE  \E i \in DOMAIN Order(k) : Plan(k) = Left(k, i) /\ PivotsReached(k, i, sites, L, L, 1, tot, a)
      OBVIOUS
    <2>1. 1 \in DOMAIN Order(k) /\ Plan(k) = Left(k, 1) /\ \A j \in DOMAIN Order(k) : ~(j < 1)
      BY LeftIs
    <2>2. \A n : Pivots(a, n) = <<>>
      BY <1>2 DEF Pivots
    <2>3. Reading(sites, L, L, Order(k)[1], 1 - 1, Pivots(a, Order(k)[1]))
      BY <1>3, <1>4, <2>2
    <2>4. PivotsReached(k, 1, sites, L, L, 1, tot, a)
      BY <1>2, <1>4, <2>1, <2>2, <2>3 DEF PivotsReached
    <2> QED
      BY <2>1, <2>4
  <1>6. k = "heatmap" => RowsFit(a, Heat) /\ Reading(sites, L, L, "session", 1 - 1, Rows(a, Heat))
    BY <1>2, <1>3, <1>4
  <1>7. Reached(k, sites, L, L, Plan(k), 1, tot, a)
    BY <1>5, <1>6 DEF Reached, Nil
  <1> QED
    BY <1>1, <1>7 DEF Reaches

LEMMA FitsAsked ==
    ASSUME NEW k \in ReportKinds, NEW sites, sites \subseteq Websites, NEW L, Later(L, L), NEW tot,
           NEW a, Nil(a), NEW an, ~Ok(an), NEW ak, ak = [kind |-> k, sites |-> sites]
    PROVE  Fits(ak, an, Plan(k), 1, tot, a, NewTasks(Head(Plan(k)), sites), L, L)
  <1> DEFINE st == Plan(k)
             T == NewTasks(Head(st), sites)
  <1>1. Reaches(k, sites, L, L, st, 1, tot, a)
    BY FirstWork
  <1> HIDE DEF st
  <1>2. WorkFits(k, sites, L, st, 1, tot, a, T, L)
    BY <1>1, FreshWork
  <1> HIDE DEF T
  <1>3. ak.kind = k /\ ak.sites = sites /\ ak # Nothing
    BY UmamiAssumption
  <1>4. Fits(ak, an, st, 1, tot, a, T, L, L)
    BY <1>2, <1>3 DEF Fits
  <1> QED
    BY <1>4 DEF st, T

\* A stage has all its answers.
LEMMA FitsGoesOn ==
    ASSUME NEW ak, NEW an, NEW st, ~Nil(st), NEW pg, NEW tot, NEW a, NEW T, NEW B, NEW L,
           Fits(ak, an, st, pg, tot, a, T, B, L), AllIn(T, ak.sites)
    PROVE  /\ GoesOn(ak.kind, ak.sites, B, L, st, pg, tot, a, T)
           /\ ak # Nothing /\ ~Ok(an) /\ ak.kind \in ReportKinds /\ ak.sites \subseteq Websites
           /\ AllStart(ak.sites, B, L) /\ pg \in Nat \ {0} /\ DOMAIN T = Head(st)
  <1> DEFINE k == ak.kind
             sites == ak.sites
  <1>1. WorkFits(k, sites, B, st, pg, tot, a, T, L) /\ ~Ok(an) /\ ak # Nothing
    BY DEF Fits
  <1>2. AllIn(T, sites) /\ st # <<>>
    BY DEF Nil
  <1> HIDE DEF k, sites
  <1>3. GoesOn(k, sites, B, L, st, pg, tot, a, T)
    BY <1>1, <1>2, AllGo
  <1>4. k \in ReportKinds /\ sites \subseteq Websites /\ AllStart(sites, B, L) /\ pg \in Nat \ {0} /\ DOMAIN T = Head(st)
    BY <1>1, AllStartIs DEF WorkFits
  <1> QED
    BY <1>1, <1>3, <1>4 DEF k, sites

LEMMA FitsNextPage ==
    ASSUME NEW ak, NEW an, NEW st, ~Nil(st), NEW pg, NEW tot, NEW a, NEW T, NEW B, NEW L,
           Fits(ak, an, st, pg, tot, a, T, B, L), AllIn(T, ak.sites),
           NEW c, c = (CHOOSE d \in DOMAIN T : TRUE), NEW body, body = BodyOf(T),
           MoreOf(c, pg, tot, body[c])
    PROVE  Fits(ak, an, st, pg + 1, PagesOf(pg, tot, body[c]), a \o Taken(body),
                NewTasks(DOMAIN body, ak.sites), B, L)
  <1> DEFINE k == ak.kind
             sites == ak.sites
             n == PagesOf(pg, tot, body[c])
             a2 == a \o Taken(body)
             calls == DOMAIN body
  <1>1. /\ GoesOn(k, sites, B, L, st, pg, tot, a, T)
        /\ ak # Nothing /\ ~Ok(an) /\ k \in ReportKinds /\ sites \subseteq Websites
        /\ AllStart(sites, B, L) /\ pg \in Nat \ {0} /\ DOMAIN T = Head(st)
    BY FitsGoesOn
  <1>2. Follows(k, sites, B, L, st, pg, MoreOf(c, pg, tot, body[c]), n, RestOf(k, st, body[c], a), a2)
    BY <1>1 DEF GoesOn
  <1> HIDE DEF k, sites, n, a2
  <1>3. Reaches(k, sites, B, L, st, pg + 1, n, a2)
    BY <1>2 DEF Follows
  <1>4. calls = Head(st) /\ pg + 1 \in Nat \ {0}
    BY <1>1 DEF BodyOf
  <1> HIDE DEF calls
  <1>5. WorkFits(k, sites, B, st, pg + 1, n, a2, NewTasks(calls, sites), L)
    BY <1>1, <1>3, <1>4, FreshWork
  <1>6. WorkFits(ak.kind, ak.sites, B, st, pg + 1, n, a2, NewTasks(calls, sites), L)
    BY <1>5 DEF k, sites
  <1>7. Fits(ak, an, st, pg + 1, n, a2, NewTasks(calls, sites), B, L)
    BY <1>1, <1>6 DEF Fits
  <1> QED
    BY <1>7 DEF sites, n, a2, calls

LEMMA FitsNextStage ==
    ASSUME NEW ak, NEW an, NEW st, ~Nil(st), NEW pg, NEW tot, NEW a, NEW T, NEW B, NEW L,
           Fits(ak, an, st, pg, tot, a, T, B, L), AllIn(T, ak.sites),
           NEW c, c = (CHOOSE d \in DOMAIN T : TRUE), NEW body, body = BodyOf(T),
           ~MoreOf(c, pg, tot, body[c]), NEW rest, rest = RestOf(ak.kind, st, body[c], a), ~Nil(rest)
    PROVE  Fits(ak, an, rest, 1, 0, a \o Taken(body), NewTasks(Head(rest), ak.sites), B, L)
  <1> DEFINE k == ak.kind
             sites == ak.sites
             n == PagesOf(pg, tot, body[c])
             a2 == a \o Taken(body)
             calls == Head(rest)
  <1>1. /\ GoesOn(k, sites, B, L, st, pg, tot, a, T)
        /\ ak # Nothing /\ ~Ok(an) /\ k \in ReportKinds /\ sites \subseteq Websites
    BY FitsGoesOn
  <1>2. Follows(k, sites, B, L, st, pg, MoreOf(c, pg, tot, body[c]), n, rest, a2)
    BY <1>1 DEF GoesOn
  <1> HIDE DEF k, sites, n, a2
  <1>3. Reaches(k, sites, B, L, rest, 1, 0, a2)
    BY <1>2 DEF Follows, Nil
  <1>4. 1 \in Nat \ {0} /\ calls = Head(rest)
    OBVIOUS
  <1> HIDE DEF calls
  <1>5. WorkFits(k, sites, B, rest, 1, 0, a2, NewTasks(calls, sites), L)
    BY <1>1, <1>3, <1>4, FreshWork
  <1>6. WorkFits(ak.kind, ak.sites, B, rest, 1, 0, a2, NewTasks(calls, sites), L)
    BY <1>5 DEF k, sites
  <1>7. Fits(ak, an, rest, 1, 0, a2, NewTasks(calls, sites), B, L)
    BY <1>1, <1>6 DEF Fits
  <1> QED
    BY <1>7 DEF sites, a2, calls

Reply(k, a, found) == [outcome |-> "ok", found |-> found, counts |-> Report(k, a, found)]

LEMMA FitsConcluded ==
    ASSUME NEW ak, NEW an, NEW st, ~Nil(st), NEW pg, NEW tot, NEW a, NEW T, NEW B, NEW L,
           Fits(ak, an, st, pg, tot, a, T, B, L), AllIn(T, ak.sites),
           NEW c, c = (CHOOSE d \in DOMAIN T : TRUE), NEW body, body = BodyOf(T),
           ~MoreOf(c, pg, tot, body[c]), Nil(RestOf(ak.kind, st, body[c], a)),
           NEW found, NEW new,
           new = Reply(ak.kind, a \o Taken(body), found),
           NEW none, Nil(none), NEW U
    PROVE  Fits(ak, new, none, pg, tot, none, U, B, L)
  <1> DEFINE k == ak.kind
             sites == ak.sites
             n == PagesOf(pg, tot, body[c])
             a2 == a \o Taken(body)
             full == pg >= MaxPages
  <1>1. /\ GoesOn(k, sites, B, L, st, pg, tot, a, T)
        /\ ak # Nothing /\ sites \subseteq Websites /\ AllStart(sites, B, L)
    BY FitsGoesOn
  <1>2. Follows(k, sites, B, L, st, pg, MoreOf(c, pg, tot, body[c]), n, RestOf(k, st, body[c], a), a2)
    BY <1>1 DEF GoesOn
  <1>3. new.found = found /\ new.counts = Report(k, a2, found)
    BY DEF Reply
  <1> HIDE DEF n, a2
  <1>4. Ends(k, sites, full, B, L, a2)
    BY <1>2 DEF Follows, Nil
  <1> HIDE DEF k, sites, full
  <1>5. Rightly(k, sites, new.found, new.counts, full, B, L)
    BY <1>3, <1>4 DEF Ends
  <1>6. Settled(k, sites, new, full, B, L)
    BY <1>1, <1>5 DEF Settled
  <1>7. Settled(ak.kind, ak.sites, new, pg >= MaxPages, B, L)
    BY <1>6 DEF k, sites, full
  <1> QED
    BY <1>1, <1>7 DEF Fits


-----------------------------------------------------------------------------
(* The token that all reports share. *)

(***************************************************************************)
(* A fan-out has a token that works unless one was revoked since it set    *)
(* out: one about to use its token, and one whose token is being verified, *)
(* which will use the cached token if that one is accepted.                *)
(***************************************************************************)
TaskFits(task) ==
    /\ DOMAIN task = {"step", "token", "doubt", "got"}
    /\ ~task.doubt /\ task.step = "fetch" => task.token \in live
    /\ ~task.doubt /\ task.step = "verify" /\ task.token \in live => cached \in live

TasksFit(r) ==
    /\ tasks[r] = [c \in DOMAIN tasks[r] |-> tasks[r][c]]
    /\ \A c \in DOMAIN tasks[r] : TaskFits(tasks[r][c])

TokenInv ==
    /\ tasks = [r \in Reports |-> tasks[r]]
    /\ \A r \in Reports : TasksFit(r)

\* A stage, or a page, starts with fan-outs that have no token yet.
LEMMA FreshFit ==
    ASSUME NEW calls, NEW sites, NEW c \in calls
    PROVE  TaskFits(NewTasks(calls, sites)[c])'
BY DEF NewTasks, TaskFits

\* At first there are no fan-outs.
LEMMA InitTokens == UmamiInit => TokenInv
BY DEF UmamiInit, TokenInv, TasksFit, TaskFits

\* The fan-outs of one request change, and the tokens stay.
LEMMA OneRequestMoves ==
    ASSUME TokenInv, NEW r \in Reports, NEW new, UNCHANGED <<live, cached>>,
           tasks' = [tasks EXCEPT ![r] = new],
           new = [c \in DOMAIN new |-> new[c]],
           \A c \in DOMAIN new : TaskFits(new[c])
    PROVE  TokenInv'
  <1>1. /\ tasks' = [q \in Reports |-> tasks'[q]] /\ tasks'[r] = new
        /\ \A q \in Reports : q # r => tasks'[q] = tasks[q]
    BY DEF TokenInv
  <1>2. ASSUME NEW q \in Reports PROVE TasksFit(q)'
    <2>1. CASE q = r
      BY <1>1, <2>1 DEF TasksFit, TaskFits
    <2>2. CASE q # r
      BY <1>1, <2>2 DEF TokenInv, TasksFit, TaskFits
    <2> QED
      BY <2>1, <2>2
  <1> QED
    BY <1>1, <1>2 DEF TokenInv

\* One fan-out of a request changes.
LEMMA OneTaskMoves ==
    ASSUME TokenInv, NEW r \in Reports, NEW c \in DOMAIN tasks[r], NEW task,
           UNCHANGED <<live, cached>>,
           tasks' = [tasks EXCEPT ![r] = [tasks[r] EXCEPT ![c] = task]],
           TaskFits(task)
    PROVE  TokenInv'
  <1> DEFINE new == [tasks[r] EXCEPT ![c] = task]
  <1>1. DOMAIN new = DOMAIN tasks[r] /\ new = [d \in DOMAIN new |-> new[d]]
    OBVIOUS
  <1>2. \A d \in DOMAIN new : TaskFits(new[d])
    BY DEF TokenInv, TasksFit
  <1> HIDE DEF new
  <1>3. tasks' = [tasks EXCEPT ![r] = new]
    BY DEF new
  <1> QED
    BY <1>1, <1>2, <1>3, OneRequestMoves

\* Reports that end have no fan-outs left.
LEMMA FinishFits ==
    ASSUME TokenInv, NEW R, NEW a, Finish(R, a), UNCHANGED <<live, cached>>
    PROVE  TokenInv'
BY DEF TokenInv, TasksFit, TaskFits, Finish

\* A fan-out goes to another step of getToken.
LEMMA ToFits ==
    ASSUME TokenInv, NEW r \in Reports, NEW c \in DOMAIN tasks[r], NEW step, NEW token,
           To(r, c, step, token), UNCHANGED <<live, cached>>,
           ~tasks[r][c].doubt =>
               /\ step = "fetch" => token \in live
               /\ step = "verify" /\ token \in live => cached \in live
    PROVE  TokenInv'
  <1> DEFINE task == [tasks[r][c] EXCEPT !.step = step, !.token = token]
  <1>1. DOMAIN tasks[r][c] = {"step", "token", "doubt", "got"}
    BY DEF TokenInv, TasksFit, TaskFits
  <1>2. TaskFits(task)
    BY <1>1 DEF TaskFits
  <1>3. tasks' = [tasks EXCEPT ![r] = [tasks[r] EXCEPT ![c] = task]]
    BY DEF To, TokenInv, TasksFit
  <1> HIDE DEF task
  <1> QED
    BY <1>2, <1>3, OneTaskMoves

\* The invariant for one fan-out.
LEMMA TaskKnown ==
    ASSUME TokenInv, NEW r \in Reports, NEW c \in DOMAIN tasks[r]
    PROVE  TaskFits(tasks[r][c])
BY DEF TokenInv, TasksFit

\* getToken takes the cached token to be verified, or joins a login.
LEMMA GetTokenFits ==
    ASSUME TokenInv, NEW r \in Reports, NEW c, GetToken(r, c) PROVE TokenInv'
  <1>1. c \in DOMAIN tasks[r] /\ UNCHANGED <<live, cached>>
    BY DEF GetToken, Doing
  <1>2. To(r, c, "verify", cached) \/ To(r, c, "join", 0)
    BY DEF GetToken, Login
  <1> QED
    BY <1>1, <1>2, ToFits

\* A verified token is used as it is cached by then.
LEMMA VerifyFits ==
    ASSUME TokenInv, NEW r \in Reports, NEW c, Verify(r, c) PROVE TokenInv'
  <1>1. c \in DOMAIN tasks[r] /\ tasks[r][c].step = "verify" /\ UNCHANGED <<live, cached>>
    BY DEF Verify, Doing
  <1>2. \/ tasks[r][c].token \in live /\ To(r, c, "fetch", cached)
        \/ To(r, c, "join", 0)
    BY DEF Verify, Login
  <1>3. ~tasks[r][c].doubt /\ tasks[r][c].token \in live => cached \in live
    BY <1>1, TaskKnown DEF TaskFits
  <1> QED
    BY <1>1, <1>2, <1>3, ToFits

\* A login makes a token that works, for all who waited for it.
LEMMA LoggedInFits == ASSUME TokenInv, LoggedIn PROVE TokenInv'
  <1>1. /\ live' = live \cup {cached'}
        /\ tasks' = [r \in Reports |-> [c \in DOMAIN tasks[r] |->
                IF tasks[r][c].step = "join"
                THEN [tasks[r][c] EXCEPT !.step = "fetch", !.token = cached']
                ELSE tasks[r][c]]]
    BY DEF LoggedIn
  <1>2. ASSUME NEW r \in Reports, NEW c \in DOMAIN tasks[r]
        PROVE  TaskFits(tasks[r][c])'
    <2> DEFINE task == tasks[r][c]
    <2>1. TaskFits(task)
      BY TaskKnown
    <2>2. tasks'[r][c] = IF task.step = "join"
                         THEN [task EXCEPT !.step = "fetch", !.token = cached'] ELSE task
      BY <1>1
    <2> HIDE DEF task
    <2> QED
      BY <1>1, <2>1, <2>2 DEF TaskFits
  <1>3. /\ tasks' = [r \in Reports |-> tasks'[r]]
        /\ \A r \in Reports :
              /\ DOMAIN tasks'[r] = DOMAIN tasks[r]
              /\ tasks'[r] = [c \in DOMAIN tasks'[r] |-> tasks'[r][c]]
    BY <1>1
  <1> QED
    BY <1>2, <1>3 DEF TokenInv, TasksFit

\* A token that is revoked puts whoever has one in doubt.
LEMMA RevokeFits == ASSUME TokenInv, NEW t, Revoke(t) PROVE TokenInv'
  <1>1. tasks' = [r \in Reports |-> [c \in DOMAIN tasks[r] |->
            IF tasks[r][c].step = "token" THEN tasks[r][c]
            ELSE [tasks[r][c] EXCEPT !.doubt = TRUE]]]
    BY DEF Revoke
  <1>2. ASSUME NEW r \in Reports, NEW c \in DOMAIN tasks[r]
        PROVE  TaskFits(tasks[r][c])'
    <2> DEFINE task == tasks[r][c]
    <2>1. TaskFits(task)
      BY TaskKnown
    <2>2. tasks'[r][c] = IF task.step = "token" THEN task ELSE [task EXCEPT !.doubt = TRUE]
      BY <1>1
    <2> HIDE DEF task
    <2> QED
      BY <2>1, <2>2 DEF TaskFits
  <1>3. /\ tasks' = [r \in Reports |-> tasks'[r]]
        /\ \A r \in Reports :
              /\ DOMAIN tasks'[r] = DOMAIN tasks[r]
              /\ tasks'[r] = [c \in DOMAIN tasks'[r] |-> tasks'[r][c]]
    BY <1>1
  <1> QED
    BY <1>2, <1>3 DEF TokenInv, TasksFit

\* An answer of a website changes nothing of the token.
LEMMA FetchFits ==
    ASSUME TokenInv, NEW r \in Reports, NEW c, NEW w, Fetch(r, c, w) PROVE TokenInv'
  <1> DEFINE got == [tasks[r][c].got EXCEPT ![w] = Response(c, log[w], page[r], Size(c))]
             task == [tasks[r][c] EXCEPT !.got = got]
  <1>1. c \in DOMAIN tasks[r] /\ UNCHANGED <<live, cached>>
    BY DEF Fetch, Doing, auth
  <1>2. TaskFits(tasks[r][c])
    BY <1>1, TaskKnown
  <1>3. tasks' = [tasks EXCEPT ![r] = [tasks[r] EXCEPT ![c] = task]]
    BY <1>1, <1>2 DEF Fetch, TokenInv, TasksFit, TaskFits
  <1>4. TaskFits(task)
    <2> HIDE DEF got
    <2> QED
      BY <1>2 DEF TaskFits
  <1> HIDE DEF task
  <1> QED
    BY <1>1, <1>3, <1>4, OneTaskMoves

\* New fan-outs replace those of the stage, or of the page, before.
LEMMA FreshTasksFit ==
    ASSUME TokenInv, NEW r \in Reports, NEW calls, NEW sites,
           tasks' = [tasks EXCEPT ![r] = NewTasks(calls, sites)],
           UNCHANGED <<live, cached>>
    PROVE  TokenInv'
  <1> DEFINE new == NewTasks(calls, sites)
  <1>1. new = [c \in DOMAIN new |-> new[c]] /\ \A c \in DOMAIN new : TaskFits(new[c])
    BY DEF NewTasks, TaskFits
  <1> HIDE DEF new
  <1>2. tasks' = [tasks EXCEPT ![r] = new]
    BY DEF new
  <1> QED
    BY <1>1, <1>2, OneRequestMoves

\* Steps that concern neither fan-outs nor tokens.
LEMMA SameTasksFit == ASSUME TokenInv, UNCHANGED <<tasks, live, cached>> PROVE TokenInv'
BY DEF TokenInv, TasksFit, TaskFits

\* Every step keeps the invariant.
LEMMA NextTokens == TokenInv /\ [UmamiNext]_umamiVars => TokenInv'
  <1> SUFFICES ASSUME TokenInv, [UmamiNext]_umamiVars PROVE TokenInv'
    OBVIOUS
  <1>1. CASE UNCHANGED umamiVars
    BY <1>1, SameTasksFit DEF umamiVars, auth, work
  <1>2. ASSUME NEW r \in Reports, NEW kind, NEW named, AskReport(r, kind, named) PROVE TokenInv'
    <2>1. UNCHANGED <<live, cached>>
      BY <1>2 DEF AskReport, auth
    <2>2. \/ UNCHANGED tasks
          \/ tasks' = [tasks EXCEPT ![r] = NewTasks(Head(Plan(kind)), Sites(named))]
      BY <1>2 DEF AskReport
    <2> QED
      BY <2>1, <2>2, SameTasksFit, FreshTasksFit
  <1>3. ASSUME NEW r \in Reports, NEW c, NEW w, FetchFails(r, c, w) PROVE TokenInv'
    BY <1>3, FinishFits DEF FetchFails, auth
  <1>4. ASSUME NEW r \in Reports, StageDone(r) PROVE TokenInv'
    <2>1. UNCHANGED <<live, cached>>
      BY <1>4 DEF StageDone, auth
    <2>2. PICK body, rest : NextPage(r, body) \/ NextStage(r, body, rest) \/ Conclude(r, body, rest)
      BY <1>4, ZenonT(30) DEF StageDone
    <2>3. CASE NextPage(r, body)
      BY <2>1, <2>3, FreshTasksFit DEF NextPage
    <2>4. CASE NextStage(r, body, rest)
      BY <2>1, <2>4, FreshTasksFit DEF NextStage
    <2>5. CASE Conclude(r, body, rest)
      <3>1. PICK a : Finish({r}, a)
        BY <2>5 DEF Conclude
      <3> QED
        BY <2>1, <3>1, FinishFits
    <2> QED
      BY <2>2, <2>3, <2>4, <2>5
  <1>5. CASE LoginFailed
    BY <1>5, FinishFits DEF LoginFailed
  <1>6. ASSUME NEW w, NEW e, Arrive(w, e) PROVE TokenInv'
    BY <1>6, SameTasksFit DEF Arrive, auth, work
  <1> QED
    BY <1>1, <1>2, <1>3, <1>4, <1>5, <1>6, GetTokenFits, VerifyFits, LoggedInFits, RevokeFits,
       FetchFits DEF UmamiNext, Proceed

\* UmamiAuthService.getToken: a fan-out has a token that works unless one was
\* revoked since it set out, however verifications and logins interleave.
THEOREM TokensAlwaysWork == UmamiSpec => []TokensWork
  <1>1. TokenInv => TokensWork
    BY DEF TokenInv, TasksFit, TaskFits, TokensWork
  <1> QED
    BY <1>1, InitTokens, NextTokens, PTL DEF UmamiSpec

-----------------------------------------------------------------------------
(* All requests. *)

Tables ==
    /\ DOMAIN log = Websites /\ Later(log, log)
    /\ kinds \in [Reports -> SUBSET ReportKinds]
    /\ DOMAIN ask = Reports /\ DOMAIN answer = Reports /\ DOMAIN stages = Reports
    /\ DOMAIN page = Reports /\ DOMAIN total = Reports /\ DOMAIN acc = Reports
    /\ DOMAIN before = Reports
ReportFits(r) ==
    Fits(ask[r], answer[r], stages[r], page[r], total[r], acc[r], tasks[r], before[r], log)
ReportsInv == TokenInv /\ Tables /\ \A r \in Reports : ReportFits(r)

LEMMA InitReports == UmamiInit => ReportsInv
  <1> SUFFICES ASSUME UmamiInit PROVE ReportsInv
    OBVIOUS
  <1>1. PICK s \in Scenarios : log = s.log /\ kinds = s.kinds
    BY DEF UmamiInit
  <1>2. DOMAIN s.log = Websites /\ \A w \in Websites : IsList(s.log[w])
    BY UmamiAssumption DEF IsList
  <1>3. /\ DOMAIN log = Websites /\ \A w \in Websites : Starts(log[w], log[w])
        /\ kinds \in [Reports -> SUBSET ReportKinds]
    BY <1>1, <1>2, StartsIs, UmamiAssumption
  <1>5. Tables
    BY <1>3 DEF UmamiInit, Tables, Later
  <1>6. ASSUME NEW r \in Reports PROVE ReportFits(r)
    <2>1. ask[r] = Nothing /\ answer[r] = Nothing /\ Nil(stages[r]) /\ Nil(acc[r])
      BY DEF UmamiInit, Nil
    <2> QED
      BY <2>1 DEF ReportFits, Fits, Ok
  <1> QED
    BY <1>5, <1>6, InitTokens DEF ReportsInv

\* What a step leaves of the other requests.
Only(f, g, r) == DOMAIN g = DOMAIN f /\ \A q \in Reports : q # r => g[q] = f[q]
OthersStay(r) ==
    /\ Only(ask, ask', r) /\ Only(answer, answer', r) /\ Only(stages, stages', r)
    /\ Only(page, page', r) /\ Only(total, total', r) /\ Only(acc, acc', r)
    /\ Only(before, before', r) /\ Only(tasks, tasks', r)

LEMMA OnlyIs ==
    \A f, r : /\ Only(f, f, r)
              /\ \A x : Only(f, [f EXCEPT ![r] = x], r)
BY DEF Only

LEMMA OneReportMoves ==
    ASSUME ReportsInv, NEW r \in Reports, TokenInv', UNCHANGED <<log, kinds>>, OthersStay(r), ReportFits(r)'
    PROVE  ReportsInv'
  <1>1. Tables'
    BY DEF ReportsInv, Tables, Later, OthersStay, Only
  <1>2. ASSUME NEW q \in Reports PROVE ReportFits(q)'
    <2>1. CASE q = r
      BY <2>1
    <2>2. CASE q # r
      <3>1. ReportFits(q)
        BY DEF ReportsInv
      <3>2. /\ ask'[q] = ask[q] /\ answer'[q] = answer[q] /\ stages'[q] = stages[q] /\ page'[q] = page[q]
            /\ total'[q] = total[q] /\ acc'[q] = acc[q] /\ before'[q] = before[q] /\ tasks'[q] = tasks[q]
            /\ log' = log
        BY <2>2 DEF OthersStay, Only
      <3> QED
        BY <3>1, <3>2 DEF ReportFits
    <2> QED
      BY <2>1, <2>2
  <1> QED
    BY <1>1, <1>2 DEF ReportsInv

\* Nothing but the tokens of the fan-outs changes.
SameGot ==
    \A q \in Reports : /\ DOMAIN tasks'[q] = DOMAIN tasks[q]
                       /\ \A d \in DOMAIN tasks[q] : tasks'[q][d].got = tasks[q][d].got

LEMMA SameGotFits ==
    ASSUME ReportsInv, TokenInv', SameGot,
           UNCHANGED <<log, kinds, ask, stages, page, total, acc, before, answer>>
    PROVE  ReportsInv'
  <1>1. Tables'
    BY DEF ReportsInv, Tables, Later
  <1>2. ASSUME NEW q \in Reports PROVE ReportFits(q)'
    <2>1. Fits(ask[q], answer[q], stages[q], page[q], total[q], acc[q], tasks[q], before[q], log)
      BY DEF ReportsInv, ReportFits
    <2>2. DOMAIN tasks'[q] = DOMAIN tasks[q] /\ \A d \in DOMAIN tasks[q] : tasks'[q][d].got = tasks[q][d].got
      BY DEF SameGot
    <2>3. Fits(ask[q], answer[q], stages[q], page[q], total[q], acc[q], tasks'[q], before[q], log)
      BY <2>1, <2>2, FitsMoved
    <2> QED
      BY <2>3 DEF ReportFits
  <1> QED
    BY <1>1, <1>2 DEF ReportsInv

LEMMA ToKeepsGot ==
    ASSUME TokenInv, NEW r \in Reports, NEW c \in DOMAIN tasks[r], NEW step, NEW token, To(r, c, step, token)
    PROVE  SameGot
  <1> DEFINE task == [tasks[r][c] EXCEPT !.step = step, !.token = token]
  <1>1. DOMAIN tasks[r][c] = {"step", "token", "doubt", "got"}
    BY DEF TokenInv, TasksFit, TaskFits
  <1>2. task.got = tasks[r][c].got
    BY <1>1
  <1>3. tasks' = [tasks EXCEPT ![r] = [tasks[r] EXCEPT ![c] = task]] /\ DOMAIN tasks = Reports
    BY DEF To, TokenInv, TasksFit
  <1> HIDE DEF task
  <1> QED
    BY <1>2, <1>3 DEF SameGot

LEMMA GetTokenReports ==
    ASSUME ReportsInv, TokenInv', NEW r \in Reports, NEW c, GetToken(r, c) PROVE ReportsInv'
  <1>1. c \in DOMAIN tasks[r] /\ TokenInv
    BY DEF GetToken, Doing, ReportsInv
  <1>2. To(r, c, "verify", cached) \/ To(r, c, "join", 0)
    BY DEF GetToken, Login
  <1>3. SameGot
    BY <1>1, <1>2, ToKeepsGot
  <1> QED
    BY <1>3, SameGotFits DEF GetToken

LEMMA VerifyReports ==
    ASSUME ReportsInv, TokenInv', NEW r \in Reports, NEW c, Verify(r, c) PROVE ReportsInv'
  <1>1. c \in DOMAIN tasks[r] /\ TokenInv
    BY DEF Verify, Doing, ReportsInv
  <1>2. To(r, c, "fetch", cached) \/ To(r, c, "join", 0)
    BY DEF Verify, Login
  <1>3. SameGot
    BY <1>1, <1>2, ToKeepsGot
  <1> QED
    BY <1>3, SameGotFits DEF Verify

LEMMA LoggedInReports == ASSUME ReportsInv, TokenInv', LoggedIn PROVE ReportsInv'
  <1>1. tasks' = [r \in Reports |-> [c \in DOMAIN tasks[r] |->
                IF tasks[r][c].step = "join"
                THEN [tasks[r][c] EXCEPT !.step = "fetch", !.token = issued + 1]
                ELSE tasks[r][c]]]
    BY DEF LoggedIn
  <1>2. ASSUME NEW q \in Reports, NEW d \in DOMAIN tasks[q]
        PROVE  tasks'[q][d].got = tasks[q][d].got
    <2> DEFINE task == tasks[q][d]
    <2>1. DOMAIN task = {"step", "token", "doubt", "got"}
      BY TaskKnown DEF TaskFits, ReportsInv
    <2>2. tasks'[q][d] = IF task.step = "join"
                         THEN [task EXCEPT !.step = "fetch", !.token = issued + 1] ELSE task
      BY <1>1
    <2> HIDE DEF task
    <2>3. tasks'[q][d].got = task.got
      BY <2>1, <2>2
    <2> QED
      BY <2>3 DEF task
  <1>3. SameGot
    BY <1>1, <1>2 DEF SameGot
  <1> QED
    BY <1>3, SameGotFits DEF LoggedIn

LEMMA RevokeReports == ASSUME ReportsInv, TokenInv', NEW t, Revoke(t) PROVE ReportsInv'
  <1>1. tasks' = [r \in Reports |-> [c \in DOMAIN tasks[r] |->
            IF tasks[r][c].step = "token" THEN tasks[r][c]
            ELSE [tasks[r][c] EXCEPT !.doubt = TRUE]]]
    BY DEF Revoke
  <1>2. ASSUME NEW q \in Reports, NEW d \in DOMAIN tasks[q]
        PROVE  tasks'[q][d].got = tasks[q][d].got
    <2> DEFINE task == tasks[q][d]
    <2>1. DOMAIN task = {"step", "token", "doubt", "got"}
      BY TaskKnown DEF TaskFits, ReportsInv
    <2>2. tasks'[q][d] = IF task.step = "token" THEN task ELSE [task EXCEPT !.doubt = TRUE]
      BY <1>1
    <2> HIDE DEF task
    <2>3. tasks'[q][d].got = task.got
      BY <2>1, <2>2
    <2> QED
      BY <2>3 DEF task
  <1>3. SameGot
    BY <1>1, <1>2 DEF SameGot
  <1> QED
    BY <1>3, SameGotFits DEF Revoke

\* Requests that fail.
LEMMA FailedReports ==
    ASSUME ReportsInv, TokenInv', NEW R, NEW a, Finish(R, a), ~Ok(a),
           UNCHANGED <<log, kinds, ask, page, total, before>>
    PROVE  ReportsInv'
  <1>1. Tables'
    BY DEF ReportsInv, Tables, Later, Finish
  <1>2. ASSUME NEW q \in Reports PROVE ReportFits(q)'
    <2>1. CASE q \in R
      <3>1. answer'[q] = a /\ Nil(stages'[q]) /\ Nil(acc'[q])
        BY <2>1 DEF Finish, Nil
      <3>2. Fits(ask[q], answer'[q], stages'[q], page[q], total[q], acc'[q], tasks'[q], before[q], log)
        BY <3>1, FitsFailed
      <3> QED
        BY <3>2 DEF ReportFits
    <2>2. CASE q \notin R
      <3>1. answer'[q] = answer[q] /\ stages'[q] = stages[q] /\ acc'[q] = acc[q] /\ tasks'[q] = tasks[q]
        BY <2>2 DEF Finish
      <3>2. ReportFits(q)
        BY DEF ReportsInv
      <3> QED
        BY <3>1, <3>2 DEF ReportFits
    <2> QED
      BY <2>1, <2>2
  <1> QED
    BY <1>1, <1>2 DEF ReportsInv

LEMMA FetchReports ==
    ASSUME ReportsInv, TokenInv', NEW r \in Reports, NEW c, NEW w, Fetch(r, c, w) PROVE ReportsInv'
  <1> DEFINE got == [tasks[r][c].got EXCEPT ![w] = Response(c, log[w], page[r], Size(c))]
             task == [tasks[r][c] EXCEPT !.got = got]
             T == tasks[r]
             U == [T EXCEPT ![c] = task]
  <1>1. c \in DOMAIN T /\ w \in ask[r].sites /\ TokenInv /\ Later(log, log)
    BY DEF Fetch, Doing, ReportsInv, Tables
  <1>2. TaskFits(tasks[r][c])
    BY <1>1, TaskKnown
  <1>3. tasks' = [tasks EXCEPT ![r] = U]
    BY <1>1, <1>2 DEF Fetch, TokenInv, TasksFit, TaskFits
  <1>4. task.got = got
    <2> HIDE DEF got
    <2> QED
      BY <1>2 DEF TaskFits
  <1> HIDE DEF task
  <1>5. DOMAIN U = DOMAIN T /\ U[c].got = got /\ \A d \in DOMAIN T : d # c => U[d].got = T[d].got
    BY <1>1, <1>4
  <1>6. U[c].got = [T[c].got EXCEPT ![w] = Response(c, log[w], page[r], Size(c))]
    BY <1>5
  <1> HIDE DEF got, T, U
  <1>7. Fits(ask[r], answer[r], stages[r], page[r], total[r], acc[r], T, before[r], log)
    BY DEF ReportsInv, ReportFits, T
  <1>8. Fits(ask[r], answer[r], stages[r], page[r], total[r], acc[r], U, before[r], log)
    BY <1>1, <1>5, <1>6, <1>7, FitsFetched
  <1>9. UNCHANGED <<log, kinds, ask, stages, page, total, acc, before, answer>>
    BY DEF Fetch
  <1>10. tasks'[r] = U /\ Only(tasks, tasks', r)
    BY <1>1, <1>3, OnlyIs DEF TokenInv
  <1>11. OthersStay(r)
    BY <1>9, <1>10, OnlyIs DEF OthersStay
  <1>12. ReportFits(r)'
    BY <1>8, <1>9, <1>10 DEF ReportFits
  <1> QED
    BY <1>9, <1>11, <1>12, OneReportMoves

LEMMA FetchFailsReports ==
    ASSUME ReportsInv, TokenInv', NEW r \in Reports, NEW c, NEW w, FetchFails(r, c, w) PROVE ReportsInv'
  <1>1. ~Ok(Failure("bad gateway"))
    BY DEF Ok, Failure
  <1> QED
    BY <1>1, FailedReports DEF FetchFails

LEMMA LoginFailedReports == ASSUME ReportsInv, TokenInv', LoginFailed PROVE ReportsInv'
  <1>1. ~Ok(Failure("login failed"))
    BY DEF Ok, Failure
  <1> QED
    BY <1>1, FailedReports DEF LoginFailed

LEMMA ArriveReports ==
    ASSUME ReportsInv, TokenInv', NEW v \in Websites, NEW e, Arrive(v, e) PROVE ReportsInv'
  <1>1. log' = [log EXCEPT ![v] = Append(log[v], e)] /\ UNCHANGED <<kinds, work>>
    BY DEF Arrive
  <1>2. DOMAIN log = Websites /\ \A w \in Websites : Starts(log[w], log[w])
    BY DEF ReportsInv, Tables, Later
  <1>3. ASSUME NEW w \in Websites PROVE Starts(log[w], log'[w]) /\ Starts(log'[w], log'[w])
    <2>1. CASE w = v
      <3>1. log'[v] = Append(log[v], e)
        BY <1>1, <1>2, <2>1
      <3>2. \A P, L, x : Starts(P, L) => Starts(P, Append(L, x)) /\ IsList(Append(L, x))
        BY StartsIs DEF Starts
      <3>3. Starts(log[v], log'[v]) /\ IsList(log'[v])
        BY <1>2, <3>1, <3>2
      <3>4. Starts(log'[v], log'[v])
        BY <3>3, StartsIs
      <3> QED
        BY <2>1, <3>3, <3>4
    <2>2. CASE w # v
      BY <1>1, <1>2, <2>2
    <2> QED
      BY <2>1, <2>2
  <1>4. Later(log, log') /\ Later(log', log') /\ DOMAIN log' = Websites
    BY <1>1, <1>2, <1>3 DEF Later
  <1>5. Tables'
    BY <1>1, <1>4 DEF ReportsInv, Tables, work
  <1>6. ASSUME NEW q \in Reports PROVE ReportFits(q)'
    <2>1. Fits(ask[q], answer[q], stages[q], page[q], total[q], acc[q], tasks[q], before[q], log)
      BY DEF ReportsInv, ReportFits
    <2>2. Fits(ask[q], answer[q], stages[q], page[q], total[q], acc[q], tasks[q], before[q], log')
      BY <1>4, <2>1, FitsLater
    <2> QED
      BY <1>1, <2>2 DEF ReportFits, work
  <1> QED
    BY <1>5, <1>6 DEF ReportsInv

LEMMA AskReports ==
    ASSUME ReportsInv, TokenInv', NEW r \in Reports, NEW k \in kinds[r], NEW named, AskReport(r, k, named)
    PROVE  ReportsInv'
  <1> DEFINE sites == Sites(named)
             ak == [kind |-> k, sites |-> sites]
  <1>1. ask[r] = Nothing /\ ask' = [ask EXCEPT ![r] = ak] /\ before' = [before EXCEPT ![r] = log]
        /\ UNCHANGED <<log, kinds, total, acc>>
    BY DEF AskReport
  <1>2. Fits(ask[r], answer[r], stages[r], page[r], total[r], acc[r], tasks[r], before[r], log)
    BY DEF ReportsInv, ReportFits
  <1>3. Nil(stages[r]) /\ Nil(acc[r]) /\ ~Ok(answer[r])
    BY <1>1, <1>2 DEF Fits
  <1>4. /\ Later(log, log) /\ k \in ReportKinds
        /\ DOMAIN ask = Reports /\ DOMAIN answer = Reports /\ DOMAIN stages = Reports
        /\ DOMAIN page = Reports /\ DOMAIN before = Reports /\ DOMAIN tasks = Reports
    BY DEF ReportsInv, Tables, TokenInv
  <1>5. ASSUME Allowed(named), NEW T, T = NewTasks(Head(Plan(k)), sites),
               stages' = [stages EXCEPT ![r] = Plan(k)],
               tasks' = [tasks EXCEPT ![r] = T],
               page' = [page EXCEPT ![r] = 1], UNCHANGED answer
        PROVE  ReportsInv'
    <2>1. sites \subseteq Websites
      BY <1>5, UmamiAssumption DEF Sites, Allowed
    <2> HIDE DEF sites
    <2>2. Fits(ak, answer[r], Plan(k), 1, total[r], acc[r], T, log, log)
      BY <1>3, <1>4, <1>5, <2>1, FitsAsked
    <2> HIDE DEF ak
    <2>3. /\ ask'[r] = ak /\ before'[r] = log /\ stages'[r] = Plan(k) /\ page'[r] = 1 /\ tasks'[r] = T
          /\ answer' = answer /\ total' = total /\ acc' = acc /\ log' = log
      BY <1>1, <1>4, <1>5
    <2>4. ReportFits(r)'
      BY <2>2, <2>3 DEF ReportFits
    <2>5. OthersStay(r)
      BY <1>1, <1>5, OnlyIs DEF OthersStay
    <2> QED
      BY <1>1, <2>4, <2>5, OneReportMoves
  <1>6. ASSUME answer' = [answer EXCEPT ![r] = Failure("forbidden")],
               UNCHANGED <<stages, tasks, page>>
        PROVE  ReportsInv'
    <2> HIDE DEF ak
    <2>1. answer'[r] = Failure("forbidden") /\ ~Ok(answer'[r])
      BY <1>4, <1>6 DEF Ok, Failure
    <2>2. Fits(ask'[r], answer'[r], stages[r], page[r], total[r], acc[r], tasks[r], before'[r], log)
      BY <1>3, <2>1, FitsFailed
    <2>3. ReportFits(r)'
      BY <1>1, <1>6, <2>2 DEF ReportFits
    <2>4. OthersStay(r)
      BY <1>1, <1>6, OnlyIs DEF OthersStay
    <2> QED
      BY <1>1, <1>6, <2>3, <2>4, OneReportMoves
  <1> QED
    BY <1>5, <1>6 DEF AskReport

\* What the operators of a step come to, of the request's own state.
LEMMA StageOperators ==
    ASSUME NEW r \in Reports, NEW body
    PROVE  /\ \A c, b : Pages(r, b) = PagesOf(page[r], total[r], b)
           /\ \A c, b : More(r, c, b) <=> MoreOf(c, page[r], total[r], b)
           /\ Rest(r, body) = RestOf(ask[r].kind, stages[r], body[First(r)], acc[r])
           /\ Added(r, body) = acc[r] \o Taken(body)
  <1>1. \A b : Pages(r, b) = PagesOf(page[r], total[r], b)
    BY DEF Pages, PagesOf
  <1>2. \A c, b : More(r, c, b) <=> MoreOf(c, page[r], total[r], b)
    BY <1>1 DEF More, MoreOf
  <1>3. Rest(r, body) = RestOf(ask[r].kind, stages[r], body[First(r)], acc[r])
    BY DEF Rest, RestOf, NoText
  <1>4. Added(r, body) = acc[r] \o Taken(body)
    BY DEF Added, Taken
  <1> QED
    BY <1>1, <1>2, <1>3, <1>4

LEMMA StageReports ==
    ASSUME ReportsInv, TokenInv', NEW r \in Reports, StageDone(r) PROVE ReportsInv'
  <1> DEFINE T == tasks[r]
             body == BodyOf(T)
             c == First(r)
             pg == page[r]
             n == Pages(r, body[c])
             rest == Rest(r, body)
             a2 == Added(r, body)
  <1>1. /\ Done(r) /\ UNCHANGED <<log, kinds, ask, before>>
        /\ NextPage(r, body) \/ NextStage(r, body, rest) \/ Conclude(r, body, rest)
    BY ZenonT(30) DEF StageDone, BodyOf
  <1>2. ~Nil(stages[r]) /\ AllIn(T, ask[r].sites) /\ c = (CHOOSE d \in DOMAIN T : TRUE)
    BY <1>1 DEF Done, Nil, AllIn, First
  <1>3. Fits(ask[r], answer[r], stages[r], pg, total[r], acc[r], T, before[r], log)
    BY DEF ReportsInv, ReportFits
  <1>4. /\ DOMAIN ask = Reports /\ DOMAIN answer = Reports /\ DOMAIN stages = Reports
        /\ DOMAIN page = Reports /\ DOMAIN total = Reports /\ DOMAIN acc = Reports
        /\ DOMAIN before = Reports /\ DOMAIN tasks = Reports
    BY DEF ReportsInv, Tables, TokenInv
  <1>5. /\ n = PagesOf(pg, total[r], body[c]) /\ a2 = acc[r] \o Taken(body)
        /\ More(r, c, body[c]) <=> MoreOf(c, pg, total[r], body[c])
        /\ rest = RestOf(ask[r].kind, stages[r], body[c], acc[r])
    BY StageOperators
  <1>6. body = BodyOf(T)
    OBVIOUS
  <1> HIDE DEF T, body, c, pg, n, rest, a2
  <1>7. ASSUME NextPage(r, body) PROVE ReportsInv'
    <2> DEFINE U == NewTasks(DOMAIN body, ask[r].sites)
    <2>1. /\ MoreOf(c, pg, total[r], body[c])
          /\ page' = [page EXCEPT ![r] = pg + 1] /\ total' = [total EXCEPT ![r] = n]
          /\ tasks' = [tasks EXCEPT ![r] = U] /\ acc' = [acc EXCEPT ![r] = a2]
          /\ UNCHANGED <<stages, answer>>
      BY <1>5, <1>7 DEF NextPage, c, n, pg, a2
    <2>2. Fits(ask[r], answer[r], stages[r], pg + 1, n, a2, U, before[r], log)
      BY <1>2, <1>3, <1>5, <1>6, <2>1, FitsNextPage
    <2> HIDE DEF U
    <2>3. page'[r] = pg + 1 /\ total'[r] = n /\ tasks'[r] = U /\ acc'[r] = a2
      BY <1>4, <2>1
    <2>4. ReportFits(r)'
      BY <1>1, <2>1, <2>2, <2>3 DEF ReportFits
    <2>5. OthersStay(r)
      BY <1>1, <2>1, OnlyIs DEF OthersStay
    <2> QED
      BY <1>1, <2>4, <2>5, OneReportMoves
  <1>8. ASSUME NextStage(r, body, rest) PROVE ReportsInv'
    <2> DEFINE U == NewTasks(Head(rest), ask[r].sites)
    <2>1. /\ ~MoreOf(c, pg, total[r], body[c]) /\ ~Nil(rest)
          /\ stages' = [stages EXCEPT ![r] = rest]
          /\ page' = [page EXCEPT ![r] = 1] /\ total' = [total EXCEPT ![r] = 0]
          /\ tasks' = [tasks EXCEPT ![r] = U] /\ acc' = [acc EXCEPT ![r] = a2]
          /\ UNCHANGED answer
      BY <1>5, <1>8 DEF NextStage, c, a2, Nil
    <2>2. Fits(ask[r], answer[r], rest, 1, 0, a2, U, before[r], log)
      BY <1>2, <1>3, <1>5, <1>6, <2>1, FitsNextStage
    <2> HIDE DEF U
    <2>3. stages'[r] = rest /\ page'[r] = 1 /\ total'[r] = 0 /\ tasks'[r] = U /\ acc'[r] = a2
      BY <1>4, <2>1
    <2>4. ReportFits(r)'
      BY <1>1, <2>1, <2>2, <2>3 DEF ReportFits
    <2>5. OthersStay(r)
      BY <1>1, <2>1, OnlyIs DEF OthersStay
    <2> QED
      BY <1>1, <2>4, <2>5, OneReportMoves
  <1>9. ASSUME Conclude(r, body, rest) PROVE ReportsInv'
    <2>1. PICK found : Finish({r}, Reply(ask[r].kind, a2, found))
      BY <1>9 DEF Conclude, Reply, a2
    <2> DEFINE new == Reply(ask[r].kind, a2, found)
    <2>2. ~MoreOf(c, pg, total[r], body[c]) /\ Nil(rest) /\ UNCHANGED <<page, total>>
      BY <1>5, <1>9 DEF Conclude, c, Nil
    <2>3. \A none, U : Nil(none) => Fits(ask[r], new, none, pg, total[r], none, U, before[r], log)
      <3> SUFFICES ASSUME NEW none, NEW U, Nil(none)
                   PROVE  Fits(ask[r], new, none, pg, total[r], none, U, before[r], log)
        OBVIOUS
      <3>1. new = Reply(ask[r].kind, acc[r] \o Taken(body), found)
        BY <1>5
      <3> HIDE DEF new
      <3>2. Nil(RestOf(ask[r].kind, stages[r], body[c], acc[r]))
        BY <1>5, <2>2
      <3>3. ~MoreOf(c, pg, total[r], body[c])
        BY <2>2
      <3> QED
        BY <1>2, <1>3, <1>6, <3>1, <3>2, <3>3, FitsConcluded, SMTT(60)
    <2> HIDE DEF new
    <2>4. answer'[r] = new /\ Nil(acc'[r]) /\ acc'[r] = stages'[r]
      BY <2>1 DEF Finish, new, Nil
    <2>5. Fits(ask[r], new, acc'[r], pg, total[r], acc'[r], tasks'[r], before[r], log)
      BY <2>3, <2>4
    <2>6. ReportFits(r)'
      BY <1>1, <2>2, <2>4, <2>5 DEF ReportFits, pg
    <2>7. OthersStay(r)
      BY <1>1, <1>4, <2>1, <2>2 DEF OthersStay, Only, Finish
    <2> QED
      BY <1>1, <2>6, <2>7, OneReportMoves
  <1> QED
    BY <1>1, <1>7, <1>8, <1>9

\* Every step keeps the invariant.
LEMMA NextReports == ReportsInv /\ [UmamiNext]_umamiVars => ReportsInv'
  <1> SUFFICES ASSUME ReportsInv, [UmamiNext]_umamiVars PROVE ReportsInv'
    OBVIOUS
  <1>1. TokenInv'
    BY NextTokens DEF ReportsInv
  <1>2. ASSUME UNCHANGED umamiVars PROVE ReportsInv'
    <2>1. UNCHANGED <<log, kinds, ask, stages, page, total, acc, before, answer, tasks>>
      BY <1>2 DEF umamiVars, work
    <2>2. SameGot
      BY <2>1 DEF SameGot
    <2> QED
      BY <1>1, <2>1, <2>2, SameGotFits
  <1>3. ASSUME NEW r \in Reports, Proceed(r) PROVE ReportsInv'
    BY <1>1, <1>3, StageReports, GetTokenReports, VerifyReports, FetchReports, FetchFailsReports
       DEF Proceed
  <1>4. ASSUME NEW r \in Reports, NEW k \in kinds[r], NEW named, AskReport(r, k, named) PROVE ReportsInv'
    BY <1>1, <1>4, AskReports
  <1>5. ASSUME LoggedIn PROVE ReportsInv'
    BY <1>1, <1>5, LoggedInReports
  <1>6. ASSUME LoginFailed PROVE ReportsInv'
    BY <1>1, <1>6, LoginFailedReports
  <1>7. ASSUME NEW t, Revoke(t) PROVE ReportsInv'
    BY <1>1, <1>7, RevokeReports
  <1>8. ASSUME NEW v \in Websites, NEW e, Arrive(v, e) PROVE ReportsInv'
    BY <1>1, <1>8, ArriveReports
  <1> QED
    BY <1>2, <1>3, <1>4, <1>5, <1>6, <1>7, <1>8 DEF UmamiNext

\* UmamiAnalyticsService: a report that is given counts all websites, rows and
\* pages: its numbers lie between what had been logged when it was asked for
\* and what has been by now, but for the rows that shift between pages.
THEOREM ReportsAreComplete == UmamiSpec => []ReportsComplete
  <1>1. ReportsInv => ReportsComplete
    <2> SUFFICES ASSUME ReportsInv, NEW r \in Reports PROVE CompleteOf(r)
      BY CompleteIs
    <2>1. Fits(ask[r], answer[r], stages[r], page[r], total[r], acc[r], tasks[r], before[r], log)
      BY DEF ReportsInv, ReportFits
    <2>2. Reported(r) <=> Ok(answer[r])
      BY DEF Reported, Ok
    <2> QED
      BY <2>1, <2>2 DEF Fits, Settled, Rightly, CompleteOf
  <1> QED
    BY <1>1, InitReports, NextReports, PTL DEF UmamiSpec

=============================================================================
