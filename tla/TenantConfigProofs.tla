------------------------- MODULE TenantConfigProofs -------------------------
(***************************************************************************)
(* For any servers, tenants, requests and times to live: how old the       *)
(* configuration is that an answer rests on, what is never remembered, and *)
(* what clearing the memory of a server achieves.  The inductive invariant *)
(* follows a value from where it was read to where it is kept and handed   *)
(* out, with a bound on its age at each place.                             *)
(***************************************************************************)
EXTENDS TenantConfig, TLAPS

Steps == {"idle", "done", "cms", "fill", "shared", "strapi", "store", "certs",
          "keycloak", "keep", "scan", "mget"}
Hows == {"good", "missing", "garbled", "misshapen", "failed", "shared"}
Values == [edition : Nat, at : Nat, how : Hows]
Entries == [value : Values, until : Nat]

\* Every variable the proofs speak of has its type.
Shape ==
    /\ now \in Nat
    /\ cms \in [Tenants -> [Items -> 1..MaxEdition]]
    /\ strapi \in [Tenants -> 1..MaxEdition]
    /\ mem \in [Servers -> [Tenants -> [Items -> Entries \cup {None}]]]
    /\ shared \in [Tenants -> Entries \cup {None}]
    /\ cleared \in [Servers -> [Tenants -> Nat]]
    /\ late \in [Servers -> [Tenants -> SUBSET (Items \cup {"csv", None})]]
    /\ pc \in [Requests -> Steps]
    /\ server \in [Requests -> Servers \cup {None}]
    /\ tenant \in [Requests -> Tenants \cup {None}]
    /\ item \in [Requests -> Items \cup {"csv", None}]
    /\ begun \in [Requests -> Nat]
    /\ val \in [Requests -> Values \cup {None}]

\* A value read before the last clearing was on its way at that moment, unless
\* it comes from where nothing is cleared.
Excused(v, s, t, i) ==
    i \in Cleared /\ v.at < cleared[s][t] /\ v.how # "shared" => i \in late[s][t]

\* What a request carries, and how old it may be at each of its steps.
OnTime(r) ==
    Running(r) => begun[r] <= now /\ now <= begun[r] + Patience

Placed(r) ==
    /\ pc[r] \in {"cms", "fill", "shared", "strapi", "store"} =>
        server[r] \in Servers /\ tenant[r] \in Tenants /\ item[r] \in Items
    /\ pc[r] \in {"shared", "strapi", "store", "certs", "keycloak", "keep"} =>
        item[r] = "realm"

Arrived(r) ==
    pc[r] = "fill" =>
        /\ val[r] \in Values /\ val[r].at <= now
        /\ item[r] # "realm" => begun[r] <= val[r].at
        /\ item[r] = "realm" => begun[r] < val[r].at + Patience + SharedTtl
        /\ val[r].how = "shared" => item[r] = "realm"
        /\ Excused(val[r], server[r], tenant[r], item[r])

Held(r) ==
    /\ pc[r] = "store" =>
        /\ val[r] \in Values /\ begun[r] <= val[r].at /\ val[r].at <= now
        /\ Excused(val[r], server[r], tenant[r], item[r])
    /\ pc[r] \in {"certs", "keycloak", "keep"} =>
        val[r] \in Values /\ begun[r] < val[r].at + Bound("realm")
    /\ pc[r] = "done" /\ val[r] # None =>
        /\ begun[r] < val[r].at + Bound(item[r])
        /\ item[r] \in {"facets", "locales"} /\ val[r].how \notin {"good", "misshapen"}
            => begun[r] <= val[r].at

ReqInv(r) == OnTime(r) /\ Placed(r) /\ Arrived(r) /\ Held(r)

\* What a server remembers, and what the servers share.
Kept1(s, t, i, e) ==
    /\ e.value.at <= now /\ now < e.until
    /\ e.until <= e.value.at + Bound(i)
    /\ i \in {"facets", "locales"} => e.value.how \in {"good", "misshapen"}
    /\ Excused(e.value, s, t, i)

MemInv ==
    \A s \in Servers, t \in Tenants, i \in Items :
        mem[s][t][i] # None => Kept1(s, t, i, mem[s][t][i])

SharedInv ==
    \A t \in Tenants : shared[t] # None =>
        /\ shared[t].value.at <= now /\ now < shared[t].until
        /\ shared[t].until <= shared[t].value.at + Patience + SharedTtl

ClearInv == \A s \in Servers, t \in Tenants : cleared[s][t] <= now

IInv ==
    /\ Shape
    /\ \A r \in Requests : ReqInv(r)
    /\ MemInv /\ SharedInv /\ ClearInv

-----------------------------------------------------------------------------
(* Times to live, and what was read. *)

LEMMA TtlTypes ==
    /\ MemTtl \in Nat /\ MemTtl > 0 /\ SharedTtl \in Nat /\ SharedTtl > 0
    /\ Patience \in Nat /\ MaxEdition \in Nat
BY TenantConfigAssumption

LEMMA BoundType ==
    \A i : /\ Bound(i) \in Nat
           /\ i # "realm" => Bound(i) = MemTtl + Patience
           /\ i = "realm" => Bound(i) = MemTtl + Patience + SharedTtl + Patience
BY TtlTypes DEF Bound

LEMMA ReadType ==
    ASSUME NEW e \in Nat, NEW how \in Hows, now \in Nat
    PROVE  /\ Read(e, how) \in Values /\ Read(e, how).at = now
           /\ Read(e, how).how = how
BY DEF Read, Values

LEMMA EntryType ==
    ASSUME NEW v \in Values, NEW life \in Nat, now \in Nat
    PROVE  /\ Entry(v, life) \in Entries
           /\ Entry(v, life).value = v /\ Entry(v, life).until = now + life
BY DEF Entry, Entries

-----------------------------------------------------------------------------
(* Steps that several actions share. *)

\* A step of r alone: the others stay as they are.
LEMMA OneMoves ==
    ASSUME IInv, NEW r \in Requests, NEW step \in Steps, NEW v \in Values \cup {None},
           pc' = [pc EXCEPT ![r] = step], val' = [val EXCEPT ![r] = v],
           UNCHANGED <<now, clears, what>>,
           pc'[r] = step /\ val'[r] = v => ReqInv(r)'
    PROVE  /\ pc' \in [Requests -> Steps] /\ val' \in [Requests -> Values \cup {None}]
           /\ \A q \in Requests : ReqInv(q)'
<1>1. /\ pc' \in [Requests -> Steps] /\ val' \in [Requests -> Values \cup {None}]
      /\ pc'[r] = step /\ val'[r] = v
      /\ \A q \in Requests \ {r} : pc'[q] = pc[q] /\ val'[q] = val[q]
    BY DEF IInv, Shape
<1>2. ReqInv(r)'
    BY <1>1
<1>3. ASSUME NEW q \in Requests \ {r} PROVE ReqInv(q)'
    <2>1. ReqInv(q)
        BY DEF IInv
    <2> QED
        BY <1>1, <2>1 DEF ReqInv, OnTime, Placed, Arrived, Held, Running, Excused,
                          clears, what
<1> QED
    BY <1>1, <1>2, <1>3

\* What r was given is remembered.
LEMMA RememberKeeps ==
    ASSUME IInv, NEW r \in Requests, server[r] \in Servers, tenant[r] \in Tenants,
           item[r] \in Items, NEW v \in Values, v.at <= now,
           now + MemTtl <= v.at + Bound(item[r]),
           item[r] \in {"facets", "locales"} => v.how \in {"good", "misshapen"},
           Excused(v, server[r], tenant[r], item[r]),
           Remember(r, v), UNCHANGED <<now, clears>>
    PROVE  /\ mem' \in [Servers -> [Tenants -> [Items -> Entries \cup {None}]]]
           /\ MemInv'
<1> DEFINE e == Entry(v, MemTtl)
<1>1. e \in Entries /\ e.value = v /\ e.until = now + MemTtl /\ now \in Nat
    BY EntryType, TtlTypes DEF IInv, Shape
<1>2. mem' = [mem EXCEPT ![server[r]][tenant[r]][item[r]] = e]
    BY DEF Remember
<1>3. now < e.until
    BY <1>1, TtlTypes
<1>4. Kept1(server[r], tenant[r], item[r], e)
    BY <1>1, <1>3 DEF Kept1
<1> HIDE DEF e
<1>5. mem' \in [Servers -> [Tenants -> [Items -> Entries \cup {None}]]]
    BY <1>1, <1>2 DEF IInv, Shape
<1>6. \A s \in Servers, t \in Tenants, i \in Items :
        IF s = server[r] /\ t = tenant[r] /\ i = item[r]
        THEN mem'[s][t][i] = e ELSE mem'[s][t][i] = mem[s][t][i]
    BY <1>2 DEF IInv, Shape
<1>7. ASSUME NEW s \in Servers, NEW t \in Tenants, NEW i \in Items, mem'[s][t][i] # None
      PROVE  Kept1(s, t, i, mem'[s][t][i])
    BY <1>4, <1>6, <1>7 DEF IInv, MemInv
<1>8. MemInv'
    BY <1>7 DEF MemInv, Kept1, Excused, Bound, clears
<1> QED
    BY <1>5, <1>8

LEMMA CachesStay ==
    ASSUME IInv, UNCHANGED <<now, clears>>
    PROVE  /\ UNCHANGED mem => MemInv'
           /\ UNCHANGED shared => SharedInv'
           /\ ClearInv'
BY DEF IInv, MemInv, SharedInv, ClearInv, Kept1, Excused, Bound, clears

LEMMA InitIInv == Init => IInv
<1> SUFFICES ASSUME Init PROVE IInv
    OBVIOUS
<1>1. Shape
    BY DEF Init, Rest, Shape, Steps
<1>2. \A r \in Requests : ReqInv(r)
    BY DEF Init, Rest, ReqInv, OnTime, Placed, Arrived, Held, Running
<1>3. MemInv /\ SharedInv /\ ClearInv
    BY DEF Init, Rest, MemInv, SharedInv, ClearInv
<1> QED
    BY <1>1, <1>2, <1>3 DEF IInv

-----------------------------------------------------------------------------
(* A request begins. *)

\* It is turned away, remembered for, or sent on: the others stay.
LEMMA BeginMoves ==
    ASSUME IInv, NEW r \in Requests, NEW s \in Servers, NEW t \in Tenants \cup {None},
           NEW i \in Items \cup {"csv", None}, NEW tok, Begin(r, s, t, i, tok),
           NEW step \in Steps, NEW v \in Values \cup {None},
           pc' = [pc EXCEPT ![r] = step], val' = [val EXCEPT ![r] = v], UNCHANGED mem,
           step \in {"cms", "fill", "shared", "strapi", "store"} => step = "cms" /\ t \in Tenants /\ i \in Items,
           step \in {"certs", "keycloak", "keep"} =>
               step = "certs" /\ i = "realm" /\ v \in Values /\ now < v.at + Bound("realm"),
           step = "done" /\ v # None =>
               /\ now < v.at + Bound(i)
               /\ i \in {"facets", "locales"} => v.how \in {"good", "misshapen"}
    PROVE  IInv'
<1>1. /\ server' = [server EXCEPT ![r] = s] /\ tenant' = [tenant EXCEPT ![r] = t]
      /\ item' = [item EXCEPT ![r] = i] /\ begun' = [begun EXCEPT ![r] = now]
      /\ UNCHANGED <<now, cms, strapi, cleared, late, shared>>
    BY DEF Begin, data, clears
<1>2. Shape'
    BY <1>1 DEF IInv, Shape
<1>3. /\ server'[r] = s /\ tenant'[r] = t /\ item'[r] = i /\ begun'[r] = now
      /\ pc'[r] = step /\ val'[r] = v
      /\ \A q \in Requests \ {r} :
            /\ server'[q] = server[q] /\ tenant'[q] = tenant[q] /\ item'[q] = item[q]
            /\ begun'[q] = begun[q] /\ pc'[q] = pc[q] /\ val'[q] = val[q]
    BY <1>1 DEF IInv, Shape
<1>4. OnTime(r)'
    BY <1>1, <1>3, TtlTypes DEF OnTime, IInv, Shape
<1>5. Placed(r)' /\ Arrived(r)'
    BY <1>3 DEF Placed, Arrived
<1>6. Held(r)'
    BY <1>3 DEF Held, Bound
<1>7. ASSUME NEW q \in Requests \ {r} PROVE ReqInv(q)'
    <2>1. ReqInv(q)
        BY DEF IInv
    <2> QED
        BY <1>1, <1>3, <2>1 DEF ReqInv, OnTime, Placed, Arrived, Held, Running, Excused
<1>8. MemInv' /\ SharedInv' /\ ClearInv'
    BY <1>1, CachesStay DEF clears
<1> QED
    BY <1>2, <1>4, <1>5, <1>6, <1>7, <1>8 DEF IInv, ReqInv

LEMMA ComeIInv ==
    ASSUME IInv, NEW r \in Requests, NEW s \in Servers, NEW head, NEW i \in Items,
           Come(r, s, head, i)
    PROVE  IInv'
<1>1. CASE Turned(r, s, head)
    BY <1>1, BeginMoves DEF Turned, Answer, Steps
<1>2. CASE Anonymous(r, s, head)
    <2>1. head.tenant \in Tenants
        BY <1>2 DEF Anonymous, Admitted, TenantFits
    <2> QED
        BY <1>2, <2>1, BeginMoves DEF Anonymous, Answer, Steps, Items
<1>3. ASSUME NEW tok, Ask(r, s, head, i, tok) PROVE IInv'
    <2> DEFINE t == head.tenant
    <2>1. t \in Tenants
        BY <1>3 DEF Ask, Admitted, TenantFits
    <2>2. Begin(r, s, t, i, tok) /\ UNCHANGED mem
        BY <1>3 DEF Ask
    <2>3. item'[r] = i
        BY <2>2 DEF Begin, IInv, Shape
    <2>4. CASE mem[s][t][i] # None /\ Recall(r, mem[s][t][i])
        <3> DEFINE e == mem[s][t][i]
        <3>1. Kept1(s, t, i, e) /\ e \in Entries
            BY <2>1, <2>4 DEF IInv, MemInv, Shape
        <3>2. /\ e.value \in Values /\ now \in Nat
              /\ e.until \in Nat /\ e.value.at \in Nat /\ Bound(i) \in Nat
            BY <3>1, BoundType DEF Entries, Values, IInv, Shape
        <3>3. now < e.value.at + Bound(i)
            BY <3>1, <3>2 DEF Kept1
        <3>4. i \in {"facets", "locales"} => e.value.how \in {"good", "misshapen"}
            BY <3>1 DEF Kept1
        <3>5. /\ pc' = [pc EXCEPT ![r] = IF i = "realm" THEN "certs" ELSE "done"]
              /\ val' = [val EXCEPT ![r] = e.value]
            BY <2>3, <2>4 DEF Recall
        <3> HIDE DEF e, t
        <3>6. CASE i = "realm"
            BY <2>1, <2>2, <3>2, <3>3, <3>5, <3>6, BeginMoves DEF Steps
        <3>7. CASE i # "realm"
            BY <2>1, <2>2, <3>2, <3>3, <3>4, <3>5, <3>7, BeginMoves DEF Steps
        <3> QED
            BY <3>6, <3>7
    <2>5. CASE pc' = [pc EXCEPT ![r] = "cms"] /\ val' = [val EXCEPT ![r] = None]
        BY <2>1, <2>2, <2>5, BeginMoves DEF Steps
    <2> QED
        BY <1>3, <2>4, <2>5 DEF Ask
<1> QED
    BY <1>1, <1>2, <1>3 DEF Come

LEMMA AskCsvIInv ==
    ASSUME IInv, NEW r \in Requests, NEW s \in Servers, AskCsv(r, s) PROVE IInv'
BY BeginMoves DEF AskCsv, Steps

-----------------------------------------------------------------------------
(* The CMS is asked. *)

\* A step of r that touches no cache and nothing outside.
LEMMA QuietStep ==
    ASSUME IInv, NEW r \in Requests, NEW step \in Steps, NEW v \in Values \cup {None},
           pc' = [pc EXCEPT ![r] = step], val' = [val EXCEPT ![r] = v],
           UNCHANGED <<now, cms, strapi, mem, shared, clears, what>>,
           pc'[r] = step /\ val'[r] = v => ReqInv(r)'
    PROVE  IInv'
<1>1. /\ pc' \in [Requests -> Steps] /\ val' \in [Requests -> Values \cup {None}]
      /\ \A q \in Requests : ReqInv(q)'
    BY OneMoves
<1>2. Shape'
    BY <1>1 DEF IInv, Shape, clears, what
<1>3. MemInv' /\ SharedInv' /\ ClearInv'
    BY CachesStay
<1> QED
    BY <1>1, <1>2, <1>3 DEF IInv

\* A step that leaves what r is and the clearings alone.
LEMMA SameRequest ==
    ASSUME NEW r \in Requests, UNCHANGED <<now, clears, what>>
    PROVE  /\ now' = now /\ cleared' = cleared /\ late' = late
           /\ server' = server /\ tenant' = tenant /\ item' = item /\ begun' = begun
           /\ Bound(item[r])' = Bound(item[r]) /\ Bound("realm")' = Bound("realm")
BY DEF clears, what, Bound

\* An answer without a configuration says nothing.
LEMMA BareAnswer ==
    ASSUME IInv, NEW r \in Requests, NEW told, Answer(r, told, None),
           UNCHANGED <<now, cms, strapi, mem, shared, clears, what>>
    PROVE  IInv'
<1>1. None \in Values \cup {None} /\ "done" \in Steps
    BY DEF Steps
<1>2. pc' = [pc EXCEPT ![r] = "done"] /\ val' = [val EXCEPT ![r] = None]
    BY DEF Answer
<1>3. pc'[r] = "done" /\ val'[r] = None => ReqInv(r)'
    BY DEF ReqInv, OnTime, Placed, Arrived, Held, Running
<1> QED
    BY <1>1, <1>2, <1>3, QuietStep

LEMMA ReadCmsIInv ==
    ASSUME IInv, NEW r \in Requests, ReadCms(r) PROVE IInv'
<1>1. /\ server[r] \in Servers /\ tenant[r] \in Tenants /\ item[r] \in Items
      /\ item[r] # "realm" /\ begun[r] <= now /\ now <= begun[r] + Patience
      /\ now \in Nat /\ begun[r] \in Nat
    BY DEF ReadCms, IInv, ReqInv, OnTime, Placed, Running, Shape
<1> DEFINE e == cms[tenant[r]][item[r]]
<1>2. e \in 1..MaxEdition /\ Form[e] \in Hows /\ Form[e] # "shared"
    BY <1>1, TenantConfigAssumption DEF IInv, Shape, Hows
<1> HIDE DEF e
<1>3. PICK how \in {Form[e], "failed"} :
        Arriving(r, Read(IF Taken(item[r], how) THEN e ELSE 0, how))
    BY DEF ReadCms, e
<1>4. how \in Hows /\ how # "shared"
    BY <1>2 DEF Hows
<1> DEFINE w == IF Taken(item[r], how) THEN e ELSE 0
           v == Read(w, how)
<1>5. w \in Nat
    BY <1>2, TtlTypes
<1> HIDE DEF w
<1>6. v \in Values /\ v.at = now /\ v.how # "shared"
    BY <1>1, <1>4, <1>5, ReadType
<1>7. pc' = [pc EXCEPT ![r] = "fill"] /\ val' = [val EXCEPT ![r] = v]
    BY <1>3 DEF Arriving, w
<1> HIDE DEF v
<1>8. UNCHANGED <<now, cms, strapi, mem, shared, clears, what>>
    BY DEF ReadCms, data, caches
<1>9. Excused(v, server[r], tenant[r], item[r])
    BY <1>1, <1>6 DEF Excused, IInv, ClearInv, Shape
<1>10. pc'[r] = "fill" /\ val'[r] = v => ReqInv(r)'
    BY <1>1, <1>6, <1>8, <1>9, SameRequest
    DEF ReqInv, OnTime, Placed, Arrived, Held, Running, Excused
<1> QED
    BY <1>6, <1>7, <1>8, <1>10, QuietStep DEF Steps

\* A step on the way to a realm, before any has been read.
LEMMA GoOn ==
    ASSUME IInv, NEW r \in Requests, NEW step \in {"shared", "strapi"}, Goto(r, step),
           pc[r] \in {"cms", "shared"}, item[r] = "realm",
           UNCHANGED <<now, cms, strapi, mem, shared, clears, what>>
    PROVE  IInv'
<1>1. val' = [val EXCEPT ![r] = val[r]] /\ pc' = [pc EXCEPT ![r] = step]
    BY DEF Goto, IInv, Shape
<1>2. /\ server[r] \in Servers /\ tenant[r] \in Tenants /\ item[r] \in Items
      /\ begun[r] <= now /\ now <= begun[r] + Patience
    BY DEF IInv, ReqInv, OnTime, Placed, Running
<1>3. pc'[r] = step /\ val'[r] = val[r] => ReqInv(r)'
    BY <1>2, SameRequest DEF ReqInv, OnTime, Placed, Arrived, Held, Running
<1>4. val[r] \in Values \cup {None} /\ step \in Steps
    BY DEF IInv, Shape, Steps
<1> QED
    BY <1>1, <1>3, <1>4, QuietStep

LEMMA ReadCmsRealmIInv ==
    ASSUME IInv, NEW r \in Requests, ReadCmsRealm(r) PROVE IInv'
<1>1. /\ server[r] \in Servers /\ tenant[r] \in Tenants /\ item[r] = "realm"
      /\ begun[r] <= now /\ now <= begun[r] + Patience
      /\ now \in Nat /\ begun[r] \in Nat /\ pc[r] = "cms"
    BY DEF ReadCmsRealm, IInv, ReqInv, OnTime, Placed, Running, Shape
<1>2. UNCHANGED <<now, cms, strapi, mem, shared, clears, what>>
    BY DEF ReadCmsRealm, data, caches
<1>3. CASE Goto(r, "shared")
    BY <1>1, <1>2, <1>3, GoOn
<1>4. CASE Arriving(r, Read(cms[tenant[r]]["realm"], "good"))
    <2> DEFINE v == Read(cms[tenant[r]]["realm"], "good")
    <2>1. cms[tenant[r]]["realm"] \in Nat
        BY <1>1, TtlTypes DEF IInv, Shape, Items
    <2>2. v \in Values /\ v.at = now
        BY <1>1, <2>1, ReadType DEF Hows
    <2>3. pc' = [pc EXCEPT ![r] = "fill"] /\ val' = [val EXCEPT ![r] = v]
        BY <1>4 DEF Arriving
    <2> HIDE DEF v
    <2>4. pc'[r] = "fill" /\ val'[r] = v => ReqInv(r)'
        BY <1>1, <1>2, <2>2, SameRequest, TtlTypes
        DEF ReqInv, OnTime, Placed, Arrived, Held, Running, Excused, ClearInv, IInv, Shape, Items
    <2> QED
        BY <1>2, <2>2, <2>3, <2>4, QuietStep DEF Steps
<1> QED
    BY <1>3, <1>4 DEF ReadCmsRealm

LEMMA ReadSharedIInv ==
    ASSUME IInv, NEW r \in Requests, ReadShared(r) PROVE IInv'
<1>1. /\ server[r] \in Servers /\ tenant[r] \in Tenants /\ item[r] = "realm"
      /\ begun[r] <= now /\ now <= begun[r] + Patience
      /\ now \in Nat /\ begun[r] \in Nat /\ pc[r] = "shared"
    BY DEF ReadShared, IInv, ReqInv, OnTime, Placed, Running, Shape
<1>2. UNCHANGED <<now, cms, strapi, mem, shared, clears, what>>
    BY DEF ReadShared, data, caches
<1>3. CASE Goto(r, "strapi")
    BY <1>1, <1>2, <1>3, GoOn
<1>4. CASE Answer(r, "500", None)
    BY <1>2, <1>4, BareAnswer
<1>5. CASE /\ shared[tenant[r]] # None
           /\ Arriving(r, [shared[tenant[r]].value EXCEPT !.how = "shared"])
    <2> DEFINE e == shared[tenant[r]]
               v == [e.value EXCEPT !.how = "shared"]
    <2>0. /\ e \in Entries /\ e.value.at <= now /\ now < e.until
          /\ e.until <= e.value.at + Patience + SharedTtl
        BY <1>1, <1>5 DEF IInv, Shape, SharedInv
    <2>1. v.at <= now /\ now < e.until /\ e.until <= v.at + Patience + SharedTtl
        BY <2>0 DEF Entries, Values
    <2>2. v \in Values /\ v.at \in Nat /\ e.until \in Nat /\ v.how = "shared"
        BY <2>0 DEF Entries, Values, Hows
    <2>3. begun[r] < v.at + Patience + SharedTtl
        BY <1>1, <2>1, <2>2, TtlTypes
    <2>4. pc' = [pc EXCEPT ![r] = "fill"] /\ val' = [val EXCEPT ![r] = v]
        BY <1>5 DEF Arriving
    <2>5. v.at <= now
        BY <2>1
    <2> HIDE DEF v
    <2>6. pc'[r] = "fill" /\ val'[r] = v => ReqInv(r)'
        BY <1>1, <1>2, <2>2, <2>3, <2>5, SameRequest
        DEF ReqInv, OnTime, Placed, Arrived, Held, Running, Excused, ClearInv, IInv, Shape, Items
    <2> QED
        BY <1>2, <2>2, <2>4, <2>6, QuietStep DEF Steps
<1> QED
    BY <1>3, <1>4, <1>5 DEF ReadShared

LEMMA AskStrapiIInv ==
    ASSUME IInv, NEW r \in Requests, AskStrapi(r) PROVE IInv'
<1>1. /\ server[r] \in Servers /\ tenant[r] \in Tenants /\ item[r] = "realm"
      /\ begun[r] <= now /\ now <= begun[r] + Patience
      /\ now \in Nat /\ begun[r] \in Nat
    BY DEF AskStrapi, IInv, ReqInv, OnTime, Placed, Running, Shape
<1>2. UNCHANGED <<now, cms, strapi, mem, shared, clears, what>>
    BY DEF AskStrapi, data, caches
<1>3. CASE Answer(r, "500", None)
    BY <1>2, <1>3, BareAnswer
<1>4. CASE pc' = [pc EXCEPT ![r] = "store"] /\ val' = [val EXCEPT ![r] = Read(strapi[tenant[r]], "good")]
    <2> DEFINE v == Read(strapi[tenant[r]], "good")
    <2>1. strapi[tenant[r]] \in Nat
        BY <1>1, TtlTypes DEF IInv, Shape
    <2>2. v \in Values /\ v.at = now
        BY <1>1, <2>1, ReadType DEF Hows
    <2> HIDE DEF v
    <2>3. pc'[r] = "store" /\ val'[r] = v => ReqInv(r)'
        <3>1. Excused(v, server[r], tenant[r], item[r])
            BY <1>1, <2>2 DEF Excused, ClearInv, IInv, Shape
        <3> QED
            <4> SUFFICES ASSUME pc'[r] = "store", val'[r] = v PROVE ReqInv(r)'
                OBVIOUS
            <4>1. OnTime(r)' /\ Placed(r)' /\ Arrived(r)'
                BY <1>1, <1>2, SameRequest DEF OnTime, Placed, Arrived, Running, Items
            <4>2. Excused(val[r], server[r], tenant[r], item[r])'
                BY <1>2, <3>1, SameRequest DEF Excused
            <4>3. Held(r)'
                BY <1>1, <1>2, <2>2, <4>2, SameRequest DEF Held
            <4> QED
                BY <4>1, <4>3 DEF ReqInv
    <2> QED
        BY <1>2, <1>4, <2>2, <2>3, QuietStep DEF Steps, v
<1> QED
    BY <1>3, <1>4 DEF AskStrapi

-----------------------------------------------------------------------------
(* What was read is there. *)

\* r is given v, which is recent enough.
LEMMA GivenMoves ==
    ASSUME IInv, NEW r \in Requests, NEW v \in Values, Given(r, v),
           item[r] \in Items, Running(r),
           begun[r] < v.at + Bound(item[r]),
           item[r] # "realm" => begun[r] <= v.at,
           UNCHANGED <<now, clears, what>>
    PROVE  /\ pc' \in [Requests -> Steps] /\ val' \in [Requests -> Values \cup {None}]
           /\ \A q \in Requests : ReqInv(q)'
<1>1. begun[r] <= now /\ now <= begun[r] + Patience
    BY DEF IInv, ReqInv, OnTime
<1> DEFINE step == IF item[r] = "realm" THEN "certs" ELSE "done"
<1>2. pc' = [pc EXCEPT ![r] = step] /\ val' = [val EXCEPT ![r] = v] /\ step \in Steps
    BY DEF Given, Answer, Steps
<1>3. pc'[r] = step /\ val'[r] = v => ReqInv(r)'
    BY <1>1, SameRequest DEF ReqInv, OnTime, Placed, Arrived, Held, Running
<1> QED
    BY <1>2, <1>3, OneMoves

LEMMA FillIInv ==
    ASSUME IInv, NEW r \in Requests, Fill(r) PROVE IInv'
<1> DEFINE v == val[r]
<1>1. /\ server[r] \in Servers /\ tenant[r] \in Tenants /\ item[r] \in Items
      /\ begun[r] <= now /\ now <= begun[r] + Patience /\ Running(r)
      /\ now \in Nat /\ begun[r] \in Nat
    BY DEF Fill, IInv, ReqInv, OnTime, Placed, Running, Shape
<1>2. /\ v \in Values /\ v.at <= now /\ v.at \in Nat
      /\ item[r] # "realm" => begun[r] <= v.at
      /\ item[r] = "realm" => begun[r] < v.at + Patience + SharedTtl
      /\ v.how = "shared" => item[r] = "realm"
      /\ Excused(v, server[r], tenant[r], item[r])
    BY DEF Fill, IInv, ReqInv, Arrived, Values
<1>3. /\ begun[r] < v.at + Bound(item[r])
      /\ now + MemTtl <= v.at + Bound(item[r])
    BY <1>1, <1>2, BoundType, TtlTypes
<1>4. UNCHANGED <<now, cms, strapi, shared, clears, what>>
    BY DEF Fill, data
<1> HIDE DEF v
<1>5. /\ pc' \in [Requests -> Steps] /\ val' \in [Requests -> Values \cup {None}]
      /\ \A q \in Requests : ReqInv(q)'
    <2>1. CASE Given(r, v)
        BY <1>1, <1>2, <1>3, <1>4, <2>1, GivenMoves
    <2>2. CASE Fails(item[r], v.how) /\ Answer(r, "500", v)
        <3>1. item[r] # "realm" /\ item[r] \notin {"facets", "locales"}
            BY <2>2 DEF Fails
        <3>2. pc' = [pc EXCEPT ![r] = "done"] /\ val' = [val EXCEPT ![r] = v] /\ "done" \in Steps
            BY <2>2 DEF Answer, Steps
        <3>3. pc'[r] = "done" /\ val'[r] = v => ReqInv(r)'
            BY <1>3, <1>4, <3>1, SameRequest
            DEF ReqInv, OnTime, Placed, Arrived, Held, Running
        <3> QED
            BY <1>2, <1>4, <3>2, <3>3, OneMoves
    <2> QED
        BY <2>1, <2>2 DEF Fill, v
<1>6. mem' \in [Servers -> [Tenants -> [Items -> Entries \cup {None}]]] /\ MemInv'
    <2>1. CASE UNCHANGED mem
        BY <1>4, <2>1, CachesStay DEF IInv, Shape
    <2>2. CASE Kept(item[r], v.how) /\ Remember(r, v)
        <3>1. item[r] \in {"facets", "locales"} => v.how \in {"good", "misshapen"}
            BY <1>2, <2>2 DEF Kept, Taken
        <3> QED
            BY <1>1, <1>2, <1>3, <1>4, <2>2, <3>1, RememberKeeps
    <2> QED
        BY <2>1, <2>2 DEF Fill, v
<1>7. SharedInv' /\ ClearInv'
    BY <1>4, CachesStay
<1>8. Shape'
    BY <1>4, <1>5, <1>6 DEF IInv, Shape, clears, what
<1> QED
    BY <1>5, <1>6, <1>7, <1>8 DEF IInv

LEMMA StoreRealmIInv ==
    ASSUME IInv, NEW r \in Requests, StoreRealm(r) PROVE IInv'
<1> DEFINE v == val[r]
<1>1. /\ server[r] \in Servers /\ tenant[r] \in Tenants /\ item[r] = "realm"
      /\ begun[r] <= now /\ now <= begun[r] + Patience /\ Running(r)
      /\ now \in Nat /\ begun[r] \in Nat /\ item[r] \in Items
    BY DEF StoreRealm, IInv, ReqInv, OnTime, Placed, Running, Shape
<1>2. v \in Values /\ begun[r] <= v.at /\ v.at <= now /\ v.at \in Nat
    BY DEF StoreRealm, IInv, ReqInv, Held, Values
<1>3. UNCHANGED <<now, cms, strapi, clears, what>>
    BY DEF StoreRealm, data
<1>4. CASE Answer(r, "500", None) /\ UNCHANGED <<mem, shared>>
    BY <1>3, <1>4, BareAnswer
<1>5. CASE /\ shared' = [shared EXCEPT ![tenant[r]] = Entry(v, SharedTtl)]
           /\ Remember(r, v) /\ Given(r, v)
    <2>1. /\ begun[r] < v.at + Bound(item[r])
          /\ now + MemTtl <= v.at + Bound(item[r])
        BY <1>1, <1>2, BoundType, TtlTypes
    <2>2. Excused(v, server[r], tenant[r], item[r])
        BY DEF StoreRealm, IInv, ReqInv, Held
    <2> DEFINE e == Entry(v, SharedTtl)
    <2>3. e \in Entries /\ e.value = v /\ e.until = now + SharedTtl
        BY <1>1, <1>2, TtlTypes, EntryType
    <2>4. now < e.until /\ e.until <= v.at + Patience + SharedTtl
        BY <1>1, <1>2, <2>3, TtlTypes
    <2> HIDE DEF v, e
    <2>5. /\ pc' \in [Requests -> Steps] /\ val' \in [Requests -> Values \cup {None}]
          /\ \A q \in Requests : ReqInv(q)'
        BY <1>1, <1>2, <1>3, <1>5, <2>1, GivenMoves
    <2>6. mem' \in [Servers -> [Tenants -> [Items -> Entries \cup {None}]]] /\ MemInv'
        BY <1>1, <1>2, <1>3, <1>5, <2>1, <2>2, RememberKeeps
    <2>7. shared' = [shared EXCEPT ![tenant[r]] = e]
        BY <1>5 DEF e
    <2>8. /\ shared' \in [Tenants -> Entries \cup {None}]
          /\ \A t \in Tenants : shared'[t] = IF t = tenant[r] THEN e ELSE shared[t]
        BY <2>3, <2>7 DEF IInv, Shape
    <2>9. SharedInv'
        BY <1>2, <1>3, <2>3, <2>4, <2>8 DEF IInv, SharedInv
    <2>10. ClearInv'
        BY <1>3, CachesStay
    <2>11. Shape'
        BY <1>3, <2>5, <2>6, <2>8 DEF IInv, Shape, clears, what
    <2> QED
        BY <2>5, <2>6, <2>9, <2>10, <2>11 DEF IInv
<1> QED
    BY <1>4, <1>5 DEF StoreRealm, v

-----------------------------------------------------------------------------
(* A token is judged; a sweep. Both move one request and no configuration. *)

\* The request keeps what it was given.
LEMMA CertsStep ==
    ASSUME IInv, NEW r \in Requests, pc[r] \in {"certs", "keycloak", "keep"},
           NEW step \in {"certs", "keycloak", "keep", "done"},
           pc' = [pc EXCEPT ![r] = step], val' = val,
           UNCHANGED <<now, cms, strapi, mem, shared, clears, what>>
    PROVE  IInv'
<1>1. /\ item[r] = "realm" /\ begun[r] <= now /\ now <= begun[r] + Patience
      /\ val[r] \in Values /\ begun[r] < val[r].at + Bound("realm")
    BY DEF IInv, ReqInv, OnTime, Placed, Held, Running
<1>2. val' = [val EXCEPT ![r] = val[r]] /\ step \in Steps
    BY DEF IInv, Shape, Steps
<1>3. pc'[r] = step /\ val'[r] = val[r] => ReqInv(r)'
    BY <1>1, SameRequest DEF ReqInv, OnTime, Placed, Arrived, Held, Running
<1> QED
    BY <1>1, <1>2, <1>3, QuietStep

LEMMA JudgeIInv ==
    ASSUME IInv, NEW r \in Requests, pc[r] \in {"certs", "keycloak", "keep"},
           UNCHANGED <<now, cms, strapi, mem, shared, clears, what>>
    PROVE  /\ \A told : Answer(r, told, val[r]) => IInv'
           /\ \A keys : Judge(r, keys) => IInv'
           /\ \A step \in {"keycloak", "keep"} : Goto(r, step) => IInv'
<1>1. ASSUME NEW told, Answer(r, told, val[r]) PROVE IInv'
    BY <1>1, CertsStep DEF Answer, IInv, Shape
<1>2. ASSUME NEW keys, Judge(r, keys) PROVE IInv'
    BY <1>1, <1>2 DEF Judge
<1>3. ASSUME NEW step \in {"keycloak", "keep"}, Goto(r, step) PROVE IInv'
    BY <1>3, CertsStep DEF Goto
<1> QED
    BY <1>1, <1>2, <1>3

LEMMA TokenIInv ==
    ASSUME IInv, NEW r \in Requests, ReadCerts(r) \/ AskKeycloak(r) \/ KeepCerts(r)
    PROVE  IInv'
<1>1. /\ pc[r] \in {"certs", "keycloak", "keep"}
      /\ UNCHANGED <<now, cms, strapi, mem, shared, clears, what>>
    BY DEF ReadCerts, AskKeycloak, KeepCerts, data, caches
<1>2. \/ \E told : Answer(r, told, val[r])
      \/ \E keys : Judge(r, keys)
      \/ \E step \in {"keycloak", "keep"} : Goto(r, step)
    <2>1. CASE ReadCerts(r)
        BY <2>1 DEF ReadCerts
    <2>2. CASE AskKeycloak(r)
        BY <2>2 DEF AskKeycloak
    <2>3. CASE KeepCerts(r)
        BY <2>3 DEF KeepCerts
    <2> QED
        BY <2>1, <2>2, <2>3
<1> QED
    BY <1>1, <1>2, JudgeIInv

LEMMA SweepIInv ==
    ASSUME IInv, NEW r \in Requests, Scan(r) \/ GetBatch(r) PROVE IInv'
<1>1. /\ pc[r] \in {"scan", "mget"}
      /\ UNCHANGED <<now, cms, strapi, mem, shared, clears, what>>
    BY DEF Scan, GetBatch, data, caches
<1>2. \/ \E told : Answer(r, told, None)
      \/ \E step \in {"scan", "mget"} : Goto(r, step)
    <2>1. CASE Scan(r)
        BY <2>1 DEF Scan, ScanRound
    <2>2. CASE GetBatch(r)
        BY <2>2 DEF GetBatch
    <2> QED
        BY <2>1, <2>2
<1>3. ASSUME NEW step \in {"scan", "mget"}, Goto(r, step) PROVE IInv'
    <2>1. val' = [val EXCEPT ![r] = val[r]] /\ pc' = [pc EXCEPT ![r] = step] /\ step \in Steps
        BY <1>3 DEF Goto, IInv, Shape, Steps
    <2>2. begun[r] <= now /\ now <= begun[r] + Patience /\ val[r] \in Values \cup {None}
        BY <1>1 DEF IInv, ReqInv, OnTime, Running, Shape
    <2>3. pc'[r] = step /\ val'[r] = val[r] => ReqInv(r)'
        BY <1>1, <2>2, SameRequest DEF ReqInv, OnTime, Placed, Arrived, Held, Running
    <2> QED
        BY <1>1, <2>1, <2>2, <2>3, QuietStep
<1> QED
    BY <1>1, <1>2, <1>3, BareAnswer

LEMMA AdvanceIInv ==
    ASSUME IInv, NEW r \in Requests, Advance(r) PROVE IInv'
BY ReadCmsIInv, ReadCmsRealmIInv, ReadSharedIInv, FillIInv, AskStrapiIInv,
   StoreRealmIInv, TokenIInv, SweepIInv DEF Advance

-----------------------------------------------------------------------------
(* The memory of a server is cleared: a value on its way there, read before, *)
(* is recorded as late.                                                      *)

LEMMA ClearIInv ==
    ASSUME IInv, NEW s \in Servers, NEW ts \in SUBSET Tenants, Clear(s, ts)
    PROVE  IInv'
<1>1. UNCHANGED <<now, cms, strapi, shared, pc, val, server, tenant, item, begun>>
    BY DEF Clear, Forget, data, what
<1>2. /\ mem' = [mem EXCEPT ![s] = [t \in Tenants |->
            IF t \in ts THEN [i \in Items |-> IF i \in Cleared THEN None ELSE mem[s][t][i]]
            ELSE mem[s][t]]]
      /\ cleared' = [cleared EXCEPT ![s] = [t \in Tenants |->
            IF t \in ts THEN now ELSE cleared[s][t]]]
      /\ late' = [late EXCEPT ![s] = [t \in Tenants |->
            IF t \in ts THEN OnItsWay(s, t) ELSE late[s][t]]]
    BY DEF Clear, Forget
<1>3. /\ now \in Nat /\ mem \in [Servers -> [Tenants -> [Items -> Entries \cup {None}]]]
      /\ cleared \in [Servers -> [Tenants -> Nat]]
      /\ late \in [Servers -> [Tenants -> SUBSET (Items \cup {"csv", None})]]
      /\ \A t : OnItsWay(s, t) \in SUBSET (Items \cup {"csv", None})
    BY DEF IInv, Shape, OnItsWay
<1>4. \A z \in Servers, t \in Tenants :
        IF z = s /\ t \in ts
        THEN /\ \A i \in Items : mem'[z][t][i] = IF i \in Cleared THEN None ELSE mem[z][t][i]
             /\ cleared'[z][t] = now
             /\ late'[z][t] = OnItsWay(z, t)
        ELSE /\ mem'[z][t] = mem[z][t] /\ cleared'[z][t] = cleared[z][t]
             /\ late'[z][t] = late[z][t]
    BY <1>2, <1>3
<1>5. /\ mem' \in [Servers -> [Tenants -> [Items -> Entries \cup {None}]]]
      /\ cleared' \in [Servers -> [Tenants -> Nat]]
    BY <1>2, <1>3
<1>6. late' \in [Servers -> [Tenants -> SUBSET (Items \cup {"csv", None})]]
    BY <1>2, <1>3, Zenon
<1>7. Shape'
    BY <1>1, <1>5, <1>6 DEF IInv, Shape
<1>8. ASSUME NEW r \in Requests PROVE ReqInv(r)'
    <2>1. ReqInv(r)
        BY DEF IInv
    <2>2. OnTime(r)' /\ Placed(r)'
        BY <1>1, <2>1 DEF ReqInv, OnTime, Placed, Running
    <2>3. ASSUME pc[r] \in {"fill", "store"}
          PROVE  Excused(val[r], server[r], tenant[r], item[r])'
        <3>1. /\ server[r] \in Servers /\ tenant[r] \in Tenants
              /\ Excused(val[r], server[r], tenant[r], item[r])
            BY <2>1, <2>3 DEF ReqInv, Placed, Arrived, Held
        <3>2. item[r] \in OnItsWay(server[r], tenant[r])
            BY <2>3 DEF OnItsWay
        <3> QED
            BY <1>1, <1>4, <3>1, <3>2 DEF Excused
    <2>4. Arrived(r)' /\ Held(r)'
        BY <1>1, <2>1, <2>3 DEF ReqInv, Arrived, Held, Bound
    <2> QED
        BY <2>2, <2>4 DEF ReqInv
<1>9. MemInv'
    <2> SUFFICES ASSUME NEW z \in Servers, NEW t \in Tenants, NEW i \in Items,
                        mem'[z][t][i] # None
                 PROVE  Kept1(z, t, i, mem[z][t][i])'
        BY DEF MemInv
    <2>1. mem'[z][t][i] = mem[z][t][i] /\ (z = s /\ t \in ts => i \notin Cleared)
        BY <1>4
    <2>2. Kept1(z, t, i, mem[z][t][i])
        BY <2>1 DEF IInv, MemInv
    <2> QED
        BY <1>1, <1>4, <2>1, <2>2 DEF Kept1, Excused, Bound
<1>10. SharedInv' /\ ClearInv'
    BY <1>1, <1>3, <1>4 DEF IInv, SharedInv, ClearInv
<1> QED
    BY <1>7, <1>8, <1>9, <1>10 DEF IInv

-----------------------------------------------------------------------------
(* The outside: what is published does not touch what was read; time ends   *)
(* the lives of what is kept.                                               *)

LEMMA OutsideIInv ==
    ASSUME IInv, UNCHANGED <<now, caches, clears, pc, what, val>>,
           cms' \in [Tenants -> [Items -> 1..MaxEdition]],
           strapi' \in [Tenants -> 1..MaxEdition]
    PROVE  IInv'
<1>1. Shape'
    BY DEF IInv, Shape, caches, clears, what
<1>2. \A r \in Requests : ReqInv(r)'
    BY DEF IInv, ReqInv, OnTime, Placed, Arrived, Held, Running, Excused, Bound,
           clears, what
<1>3. MemInv' /\ SharedInv' /\ ClearInv'
    BY CachesStay DEF caches
<1> QED
    BY <1>1, <1>2, <1>3 DEF IInv

LEMMA PublishIInv ==
    ASSUME IInv PROVE
        /\ \A t \in Tenants, i \in Items : Publish(t, i) => IInv'
        /\ \A t \in Tenants : PublishStrapi(t) => IInv'
        /\ \A m : Rotate(m) => IInv'
<1>1. /\ cms \in [Tenants -> [Items -> 1..MaxEdition]]
      /\ strapi \in [Tenants -> 1..MaxEdition]
    BY DEF IInv, Shape
<1>2. ASSUME NEW t \in Tenants, NEW i \in Items, Publish(t, i) PROVE IInv'
    <2>1. cms[t][i] + 1 \in 1..MaxEdition
        BY <1>1, <1>2, TtlTypes DEF Publish
    <2>2. cms' \in [Tenants -> [Items -> 1..MaxEdition]]
        BY <1>1, <1>2, <2>1 DEF Publish
    <2> QED
        BY <1>1, <1>2, <2>2, OutsideIInv DEF Publish
<1>3. ASSUME NEW t \in Tenants, PublishStrapi(t) PROVE IInv'
    <2>1. strapi[t] + 1 \in 1..MaxEdition
        BY <1>1, <1>3, TtlTypes DEF PublishStrapi
    <2>2. strapi' \in [Tenants -> 1..MaxEdition]
        BY <1>1, <1>3, <2>1 DEF PublishStrapi
    <2> QED
        BY <1>1, <1>3, <2>2, OutsideIInv DEF PublishStrapi
<1>4. ASSUME NEW m, Rotate(m) PROVE IInv'
    BY <1>1, <1>4, OutsideIInv DEF Rotate
<1> QED
    BY <1>2, <1>3, <1>4

LEMMA AtType ==
    ASSUME NEW e \in Entries \cup {None}, NEW n \in Nat
    PROVE  /\ At(e, n) \in Entries \cup {None}
           /\ At(e, n) # None => At(e, n) = e /\ e # None /\ n < e.until
BY DEF At

LEMMA TickIInv == ASSUME IInv, Tick PROVE IInv'
<1>1. /\ now' = now + 1 /\ now \in Nat /\ now' \in Nat
      /\ UNCHANGED <<cms, strapi, cleared, late, pc, server, tenant, item, begun, val>>
      /\ mem' = [s \in Servers |-> [t \in Tenants |-> [i \in Items |->
                    At(mem[s][t][i], now')]]]
      /\ shared' = [t \in Tenants |-> At(shared[t], now')]
    BY DEF Tick, IInv, Shape, data, clears, what
<1>2. /\ mem' \in [Servers -> [Tenants -> [Items -> Entries \cup {None}]]]
      /\ shared' \in [Tenants -> Entries \cup {None}]
    <2>1. \A s \in Servers, t \in Tenants, i \in Items :
            At(mem[s][t][i], now') \in Entries \cup {None}
        <3>1. \A s \in Servers, t \in Tenants, i \in Items : mem[s][t][i] \in Entries \cup {None}
            BY DEF IInv, Shape
        <3> QED
            BY <1>1, <3>1, AtType
    <2>2. \A t \in Tenants : At(shared[t], now') \in Entries \cup {None}
        BY <1>1, AtType DEF IInv, Shape
    <2> QED
        BY <1>1, <2>1, <2>2
<1>3. Shape'
    BY <1>1, <1>2 DEF IInv, Shape
<1>4. ASSUME NEW r \in Requests PROVE ReqInv(r)'
    <2>1. ReqInv(r) /\ begun[r] \in Nat
        BY DEF IInv, Shape
    <2>2. Running(r) => now < begun[r] + Patience
        BY DEF Tick
    <2>3. OnTime(r)'
        BY <1>1, <2>1, <2>2, TtlTypes DEF ReqInv, OnTime, Running
    <2>4. Placed(r)'
        BY <1>1, <2>1 DEF ReqInv, Placed
    <2>5. val[r] \in Values => val[r].at \in Nat
        BY DEF Values
    <2>6. Arrived(r)' /\ Held(r)'
        BY <1>1, <2>1, <2>5 DEF ReqInv, Arrived, Held, Excused, Bound
    <2> QED
        BY <2>3, <2>4, <2>6 DEF ReqInv
<1>5. MemInv'
    <2> SUFFICES ASSUME NEW s \in Servers, NEW t \in Tenants, NEW i \in Items,
                        mem'[s][t][i] # None
                 PROVE  Kept1(s, t, i, mem[s][t][i])'
        BY DEF MemInv
    <2> DEFINE e == mem[s][t][i]
    <2>1. e \in Entries \cup {None} /\ mem'[s][t][i] = At(e, now')
        BY <1>1 DEF IInv, Shape
    <2>2. mem'[s][t][i] = e /\ e # None /\ now' < e.until /\ e \in Entries
        BY <1>1, <2>1, AtType
    <2>3. Kept1(s, t, i, e) /\ e.value.at \in Nat
        BY <2>2 DEF IInv, MemInv, Entries, Values
    <2> HIDE DEF e
    <2> QED
        BY <1>1, <2>2, <2>3 DEF Kept1, Excused, Bound
<1>6. SharedInv'
    <2> SUFFICES ASSUME NEW t \in Tenants, shared'[t] # None
                 PROVE  /\ shared'[t].value.at <= now' /\ now' < shared'[t].until
                        /\ shared'[t].until <= shared'[t].value.at + Patience + SharedTtl
        BY DEF SharedInv
    <2> DEFINE e == shared[t]
    <2>1. e \in Entries \cup {None} /\ shared'[t] = At(e, now')
        BY <1>1 DEF IInv, Shape
    <2>2. shared'[t] = e /\ e # None /\ now' < e.until /\ e \in Entries
        BY <1>1, <2>1, AtType
    <2>3. /\ e.value.at <= now /\ e.until <= e.value.at + Patience + SharedTtl
          /\ e.value.at \in Nat
        BY <2>2 DEF IInv, SharedInv, Entries, Values
    <2> HIDE DEF e
    <2> QED
        BY <1>1, <2>2, <2>3
<1>7. ClearInv'
    BY <1>1 DEF IInv, Shape, ClearInv
<1> QED
    BY <1>3, <1>4, <1>5, <1>6, <1>7 DEF IInv

LEMMA NextIInv == ASSUME IInv, [Next]_vars PROVE IInv'
<1>1. ASSUME NEW r \in Requests, Advance(r) PROVE IInv'
    BY <1>1, AdvanceIInv
<1>2. ASSUME NEW r \in Requests, NEW s \in Servers,
             \/ AskCsv(r, s)
             \/ \E head \in Heads, i \in Items : Come(r, s, head, i)
      PROVE  IInv'
    BY <1>2, AskCsvIInv, ComeIInv
<1>3. ASSUME NEW s \in Servers, Clear(s, Tenants) \/ \E t \in Tenants : Clear(s, {t})
      PROVE  IInv'
    BY <1>3, ClearIInv
<1>4. ASSUME NEW t \in Tenants, PublishStrapi(t) \/ \E i \in Items : Publish(t, i)
      PROVE  IInv'
    BY <1>4, PublishIInv
<1>5. ASSUME NEW m, Rotate(m) PROVE IInv'
    BY <1>5, PublishIInv
<1>6. CASE Tick
    BY <1>6, TickIInv
<1>7. CASE UNCHANGED vars
    BY <1>7, OutsideIInv DEF vars, data, IInv, Shape
<1> QED
    BY <1>1, <1>2, <1>3, <1>4, <1>5, <1>6, <1>7 DEF Next

-----------------------------------------------------------------------------
(***************************************************************************)
(* The inductive invariant: values read, carried, kept and handed out are  *)
(* as old as their place allows.                                           *)
(***************************************************************************)
THEOREM IInvHolds == Spec => []IInv
<1>1. Init => IInv
    BY InitIInv
<1>2. IInv /\ [Next]_vars => IInv'
    BY NextIInv
<1> QED
    BY <1>1, <1>2, PTL DEF Spec

(***************************************************************************)
(* No request is answered from a configuration read longer ago than the    *)
(* times to live and the time a request takes allow, whatever caches it    *)
(* went through.                                                           *)
(***************************************************************************)
THEOREM AnswersStayRecent == Spec => []AnswersRecent
<1>1. IInv => AnswersRecent
    BY DEF IInv, ReqInv, Held, AnswersRecent, Answered
<1> QED
    BY <1>1, IInvHolds, PTL

(***************************************************************************)
(* That the CMS had no facets or locales, or none that could be read, is   *)
(* never remembered: who is told so asked the CMS.                         *)
(***************************************************************************)
THEOREM EmptyIsNotKept == Spec => []EmptyNotKept
<1>1. IInv => EmptyNotKept
    BY DEF IInv, ReqInv, Held, EmptyNotKept, Answered
<1> QED
    BY <1>1, IInvHolds, PTL

(***************************************************************************)
(* After its memory was cleared a server holds nothing of the tenant read  *)
(* before, the realm included, unless that item was on its way at that     *)
(* moment, or a realm was found since in the shared Redis.                 *)
(***************************************************************************)
THEOREM ClearingForgets == Spec => []ClearForgets
<1>1. IInv => ClearForgets
    BY DEF IInv, MemInv, Kept1, Excused, ClearForgets, Outlived, Cleared, Items
<1> QED
    BY <1>1, IInvHolds, PTL

-----------------------------------------------------------------------------
(***************************************************************************)
(* A good token is refused only after a rotation of the keys, and a sweep  *)
(* that succeeds misses nothing that stood still.  One more inductive      *)
(* invariant follows the certificates from Keycloak to the verdict and     *)
(* each tenant's key from the first SCAN to the result.                    *)
(***************************************************************************)
Editions == 1..MaxEdition
Keysets == SUBSET (Nat \X Nat)
Told == {None, "ok", "400", "401", "500"}
AllColumns == UNION {Columns[e] : e \in Editions}
Sweeps == [left : SUBSET Tenants, batch : SUBSET Tenants, rounds : Nat,
           found : SUBSET AllColumns, before : [Tenants -> Editions], last : BOOLEAN]

IsMap(f, S) == f = [x \in S |-> f[x]]

AnswerShape ==
    /\ verdict \in [Requests -> Told]
    /\ IsMap(token, Requests) /\ IsMap(work, Requests)
    /\ gen \in [Editions -> Nat \ {0}]
    /\ certs \in [Editions -> Keysets \cup {None}]

\* As long as a realm has its first key, its certificates hold that key.
Genuine(m, keys) == gen[m] = 1 => keys = {<<m, 1>>}
CertsInv == \A m \in Editions : certs[m] # None => Genuine(m, certs[m])

\* A realm that was read is one: an edition of the CMS, never an empty value.
RealmInv ==
    /\ \A s \in Servers, t \in Tenants :
        mem[s][t]["realm"] # None => mem[s][t]["realm"].value.edition \in Editions
    /\ \A t \in Tenants : shared[t] # None => shared[t].value.edition \in Editions

Judged(r) ==
    /\ pc[r] \in {"fill", "store", "certs", "keycloak", "keep"} /\ item[r] = "realm" =>
        val[r].edition \in Editions
    /\ pc[r] = "keep" => work[r] \in Keysets /\ Genuine(val[r].edition, work[r])
    /\ Answered(r) /\ verdict[r] = "401" =>
        /\ val[r].edition \in Editions
        /\ token[r].valid /\ token[r].kid = <<val[r].edition, 1>> => gen[val[r].edition] > 1

\* A tenant whose configuration stood still is still to be met, or in hand,
\* or found.
Steady(r, t) == cms[t]["attributes"] = work[r].before[t] /\ Form[cms[t]["attributes"]] = "good"
Found(r, t) == Columns[cms[t]["attributes"]] \subseteq work[r].found
Swept(r) ==
    /\ pc[r] \in {"scan", "mget"} => item[r] = "csv" /\ verdict[r] = None
    /\ item[r] = "csv" =>
        /\ pc[r] \in {"scan", "mget", "done"}
        /\ work[r] \in Sweeps
        /\ \A t \in Tenants :
            /\ work[r].before[t] <= cms[t]["attributes"]
            /\ Steady(r, t) =>
                /\ pc[r] = "scan" => t \in work[r].left \/ Found(r, t)
                /\ pc[r] = "mget" =>
                    t \in work[r].batch \/ (t \in work[r].left /\ ~work[r].last) \/ Found(r, t)
                /\ pc[r] = "done" /\ verdict[r] = "ok" => Found(r, t)

AnswerInv ==
    /\ AnswerShape /\ CertsInv /\ RealmInv
    /\ \A r \in Requests : Judged(r) /\ Swept(r)

-----------------------------------------------------------------------------
(* What the steps share. *)

\* A request that does not move keeps its part of the invariant, as keys and
\* editions only grow.
Rests(q) ==
    /\ pc'[q] = pc[q] /\ val'[q] = val[q] /\ verdict'[q] = verdict[q] /\ work'[q] = work[q]
    /\ item'[q] = item[q] /\ token'[q] = token[q]

Grows ==
    /\ \A m \in Editions : gen'[m] \in Nat \ {0} /\ gen[m] <= gen'[m]
    /\ \A t \in Tenants : /\ cms'[t]["attributes"] \in Editions
                          /\ cms[t]["attributes"] <= cms'[t]["attributes"]

LEMMA RestingKeeps ==
    ASSUME IInv, AnswerInv, NEW q \in Requests, Rests(q), Grows
    PROVE  Judged(q)' /\ Swept(q)'
<1>1. Judged(q) /\ Swept(q) /\ gen \in [Editions -> Nat \ {0}]
      /\ \A t \in Tenants : cms[t]["attributes"] \in Editions
    BY DEF AnswerInv, AnswerShape, IInv, Shape, Editions, Items
<1>2. \A m \in Editions : gen'[m] = 1 => gen[m] = 1
    BY <1>1 DEF Grows
<1>3. \A m \in Editions : gen[m] > 1 => gen'[m] > 1
    BY <1>1 DEF Grows
<1>4. pc[q] = "keep" => item[q] = "realm"
    BY DEF IInv, ReqInv, Placed
<1>5. Judged(q)'
    BY <1>1, <1>2, <1>3, <1>4 DEF Judged, Rests, Genuine, Answered
<1>6. ASSUME item[q] = "csv", NEW t \in Tenants
      PROVE  /\ work[q].before[t] <= cms'[t]["attributes"]
             /\ cms'[t]["attributes"] = work[q].before[t] =>
                    cms'[t]["attributes"] = cms[t]["attributes"]
    <2>1. work[q].before[t] \in Nat /\ work[q].before[t] <= cms[t]["attributes"]
        BY <1>1, <1>6, TtlTypes DEF Swept, Sweeps, Editions
    <2>2. /\ cms[t]["attributes"] \in Nat /\ cms'[t]["attributes"] \in Nat
          /\ cms[t]["attributes"] <= cms'[t]["attributes"]
        BY <1>1, <1>6, TtlTypes DEF Grows, Editions
    <2> QED
        BY <2>1, <2>2
<1>7. Swept(q)'
    <2> SUFFICES ASSUME item[q] = "csv"
                 PROVE  /\ pc[q] \in {"scan", "mget", "done"} /\ work[q] \in Sweeps
                        /\ \A t \in Tenants :
                            /\ work[q].before[t] <= cms'[t]["attributes"]
                            /\ Steady(q, t)' => Steady(q, t) /\ (Found(q, t) => Found(q, t)')
        BY <1>1 DEF Swept, Rests
    <2> QED
        BY <1>1, <1>6 DEF Swept, Rests, Steady, Found
<1> QED
    BY <1>5, <1>7

LEMMA Standing == ASSUME IInv, AnswerInv, UNCHANGED <<cms, gen>> PROVE Grows
BY TtlTypes DEF Grows, AnswerInv, AnswerShape, IInv, Shape, Editions, Items

LEMMA CertsStay ==
    ASSUME AnswerInv, UNCHANGED <<certs, gen>>
    PROVE  certs' \in [Editions -> Keysets \cup {None}] /\ CertsInv'
BY DEF AnswerInv, AnswerShape, CertsInv, Genuine

\* A step of r that leaves the outside alone.
LEMMA OneAnswers ==
    ASSUME IInv, AnswerInv, NEW r \in Requests, UNCHANGED <<cms, gen, item, token>>,
           RealmInv', CertsInv', certs' \in [Editions -> Keysets \cup {None}], NEW step, NEW v, NEW told \in Told, NEW w,
           pc' = [pc EXCEPT ![r] = step], val' = [val EXCEPT ![r] = v],
           verdict' = [verdict EXCEPT ![r] = told], work' = [work EXCEPT ![r] = w],
           pc'[r] = step /\ val'[r] = v /\ verdict'[r] = told /\ work'[r] = w
               => Judged(r)' /\ Swept(r)'
    PROVE  AnswerInv'
<1>1. /\ IsMap(work', Requests) /\ work'[r] = w
      /\ \A q \in Requests \ {r} : work'[q] = work[q]
    <2>1. work = [q \in Requests |-> work[q]]
        BY DEF AnswerInv, AnswerShape, IsMap
    <2>2. work' = [q \in Requests |-> IF q = r THEN w ELSE work[q]]
        BY <2>1
    <2> QED
        BY <2>2 DEF IsMap
<1>2. /\ pc'[r] = step /\ val'[r] = v /\ verdict'[r] = told
      /\ \A q \in Requests \ {r} : pc'[q] = pc[q] /\ val'[q] = val[q] /\ verdict'[q] = verdict[q]
      /\ verdict' \in [Requests -> Told]
    BY DEF AnswerInv, AnswerShape, IInv, Shape
<1>3. AnswerShape'
    BY <1>1, <1>2 DEF AnswerInv, AnswerShape, IsMap
<1>4. Judged(r)' /\ Swept(r)'
    BY <1>1, <1>2
<1>5. ASSUME NEW q \in Requests \ {r} PROVE Judged(q)' /\ Swept(q)'
    <2>1. Rests(q)
        BY <1>1, <1>2 DEF Rests
    <2> QED
        BY <2>1, Standing, RestingKeeps
<1> QED
    BY <1>3, <1>4, <1>5 DEF AnswerInv

\* A step of a request that does not sweep.
LEMMA ConfigStep ==
    ASSUME IInv, AnswerInv, NEW r \in Requests, item[r] # "csv",
           UNCHANGED <<cms, gen, item, token>>, RealmInv', CertsInv',
           certs' \in [Editions -> Keysets \cup {None}],
           NEW step, step \notin {"scan", "mget"}, NEW v, NEW told \in Told, NEW w,
           pc' = [pc EXCEPT ![r] = step], val' = [val EXCEPT ![r] = v],
           verdict' = [verdict EXCEPT ![r] = told], work' = [work EXCEPT ![r] = w],
           step \in {"fill", "store", "certs", "keycloak", "keep"} /\ item[r] = "realm" =>
               v.edition \in Editions,
           step = "keep" => w \in Keysets /\ Genuine(v.edition, w),
           step = "done" /\ v # None /\ told = "401" =>
               /\ v.edition \in Editions
               /\ token[r].valid /\ token[r].kid = <<v.edition, 1>> => gen[v.edition] > 1
    PROVE  AnswerInv'
<1>1. ASSUME pc'[r] = step, val'[r] = v, verdict'[r] = told, work'[r] = w
      PROVE  Judged(r)' /\ Swept(r)'
    <2>1. Swept(r)'
        BY <1>1 DEF Swept
    <2>2. Judged(r)'
        BY <1>1 DEF Judged, Answered, Genuine
    <2> QED
        BY <2>1, <2>2
<1> QED
    BY <1>1, OneAnswers

LEMMA Unwritten ==
    ASSUME IInv, AnswerInv, NEW r \in Requests
    PROVE  /\ val = [val EXCEPT ![r] = val[r]]
           /\ verdict = [verdict EXCEPT ![r] = verdict[r]] /\ verdict[r] \in Told
           /\ work = [work EXCEPT ![r] = work[r]]
<1>1. work = [q \in Requests |-> work[q]]
    BY DEF AnswerInv, AnswerShape, IsMap
<1>2. work = [work EXCEPT ![r] = work[r]]
    BY <1>1
<1> QED
    BY <1>2 DEF AnswerInv, AnswerShape, IInv, Shape

\* It goes on, and writes neither a verdict nor what it has in hand.
LEMMA GoingOn ==
    ASSUME IInv, AnswerInv, NEW r \in Requests, item[r] # "csv",
           UNCHANGED <<cms, gen, certs, item, token, verdict, work>>, RealmInv',
           NEW step \in {"fill", "store", "shared", "strapi", "certs", "keycloak"}, NEW v,
           pc' = [pc EXCEPT ![r] = step], val' = [val EXCEPT ![r] = v],
           step \in {"fill", "store", "certs", "keycloak"} /\ item[r] = "realm" =>
               v.edition \in Editions
    PROVE  AnswerInv'
<1> DEFINE told == verdict[r]
           w == work[r]
<1>1. /\ verdict' = [verdict EXCEPT ![r] = told] /\ told \in Told
      /\ work' = [work EXCEPT ![r] = w]
    BY Unwritten
<1>2. step # "keep" /\ step # "done" /\ step \notin {"scan", "mget"}
    OBVIOUS
<1> HIDE DEF told, w
<1> QED
    BY <1>1, <1>2, CertsStay, ConfigStep

\* It is answered, from v.
LEMMA AnsweringOk ==
    ASSUME IInv, AnswerInv, NEW r \in Requests, item[r] # "csv",
           UNCHANGED <<cms, gen, certs, item, token, work>>, RealmInv',
           NEW told \in {"ok", "500"}, NEW v, Answer(r, told, v)
    PROVE  AnswerInv'
<1> DEFINE w == work[r]
           step == "done"
<1>1. /\ work' = [work EXCEPT ![r] = w]
      /\ pc' = [pc EXCEPT ![r] = step] /\ val' = [val EXCEPT ![r] = v]
      /\ verdict' = [verdict EXCEPT ![r] = told] /\ told \in Told
    BY Unwritten DEF Answer, Told
<1>2. told # "401" /\ step \notin {"fill", "store", "certs", "keycloak", "keep", "scan", "mget"}
    OBVIOUS
<1> HIDE DEF w, step
<1> QED
    BY <1>1, <1>2, CertsStay, ConfigStep

LEMMA RealmStays ==
    ASSUME AnswerInv PROVE UNCHANGED <<mem, shared>> => RealmInv'
BY DEF AnswerInv, RealmInv

\* What requests hold on their way.
LEMMA OnTheWay ==
    ASSUME IInv, AnswerInv, NEW r \in Requests
    PROVE  /\ pc[r] \in {"cms", "fill", "shared", "strapi", "store"} =>
                /\ server[r] \in Servers /\ tenant[r] \in Tenants /\ item[r] \in Items
                /\ item[r] # "csv"
           /\ pc[r] \in {"shared", "strapi", "store", "certs", "keycloak", "keep"} =>
                item[r] = "realm" /\ item[r] # "csv"
           /\ pc[r] \in {"fill", "store", "certs", "keycloak", "keep"} /\ item[r] = "realm" =>
                val[r] \in Values /\ val[r].edition \in Editions
BY DEF IInv, ReqInv, Placed, Arrived, Held, AnswerInv, Judged, Items

-----------------------------------------------------------------------------
(* The CMS is asked, and what was read is there. *)

LEMMA ReadingKeeps ==
    ASSUME IInv, AnswerInv, NEW r \in Requests,
           ReadCms(r) \/ ReadCmsRealm(r) \/ ReadShared(r) \/ AskStrapi(r)
    PROVE  AnswerInv'
<1>1. /\ UNCHANGED <<cms, gen, certs, item, token, mem, shared, work>>
      /\ pc[r] \in {"cms", "shared", "strapi"}
    BY DEF ReadCms, ReadCmsRealm, ReadShared, AskStrapi, data, caches, what
<1>2. RealmInv'
    BY <1>1, RealmStays
<1>3. item[r] # "csv" /\ tenant[r] \in Tenants
    BY <1>1, OnTheWay
<1>4. CASE Answer(r, "500", None)
    BY <1>1, <1>2, <1>3, <1>4, AnsweringOk
<1>5. ASSUME NEW v, NEW step \in {"fill", "store"},
             pc' = [pc EXCEPT ![r] = step], val' = [val EXCEPT ![r] = v], UNCHANGED verdict,
             item[r] = "realm" => v.edition \in Editions
      PROVE  AnswerInv'
    BY <1>1, <1>2, <1>3, <1>5, GoingOn
<1>6. ASSUME NEW step \in {"shared", "strapi"}, Goto(r, step) PROVE AnswerInv'
    <2>1. val' = [val EXCEPT ![r] = val[r]]
        BY <1>6, Unwritten DEF Goto
    <2> QED
        BY <1>1, <1>2, <1>3, <1>6, <2>1, GoingOn DEF Goto
<1>7. CASE ReadCms(r)
    BY <1>5, <1>7 DEF ReadCms, Arriving
<1>8. CASE ReadCmsRealm(r)
    <2>1. Read(cms[tenant[r]]["realm"], "good").edition \in Editions
        BY <1>3 DEF Read, IInv, Shape, Items, Editions
    <2> QED
        BY <1>5, <1>6, <1>8, <2>1 DEF ReadCmsRealm, Arriving
<1>9. CASE ReadShared(r)
    <2>1. shared[tenant[r]] # None => shared[tenant[r]].value.edition \in Editions
        BY <1>3 DEF AnswerInv, RealmInv
    <2> QED
        <3> DEFINE v == [shared[tenant[r]].value EXCEPT !.how = "shared"]
        <3>1. shared[tenant[r]] # None => v.edition \in Editions
            <4>1. shared[tenant[r]] # None => shared[tenant[r]].value \in Values
                BY <1>3 DEF IInv, Shape, Entries
            <4> QED
                BY <2>1, <4>1 DEF Values
        <3>2. ASSUME shared[tenant[r]] # None, Arriving(r, v) PROVE AnswerInv'
            BY <1>5, <3>1, <3>2 DEF Arriving
        <3> QED
            BY <1>4, <1>6, <1>9, <3>2 DEF ReadShared
<1>10. CASE AskStrapi(r)
    <2>1. Read(strapi[tenant[r]], "good").edition \in Editions
        BY <1>3 DEF Read, IInv, Shape, Editions
    <2> QED
        BY <1>4, <1>5, <1>10, <2>1 DEF AskStrapi
<1> QED
    BY <1>7, <1>8, <1>9, <1>10

LEMMA GivenKeeps ==
    ASSUME IInv, AnswerInv, NEW r \in Requests, item[r] # "csv", Given(r, val[r]),
           UNCHANGED <<cms, gen, certs, item, token, work>>, RealmInv',
           item[r] = "realm" => val[r].edition \in Editions
    PROVE  AnswerInv'
<1>1. CASE item[r] = "realm"
    BY <1>1, GoingOn DEF Given
<1>2. CASE item[r] # "realm"
    BY <1>2, AnsweringOk DEF Given
<1> QED
    BY <1>1, <1>2

LEMMA RememberRealm ==
    ASSUME IInv, AnswerInv, NEW r \in Requests, Remember(r, val[r]),
           server[r] \in Servers, tenant[r] \in Tenants, item[r] \in Items,
           item[r] = "realm" => val[r].edition \in Editions
    PROVE  \A s \in Servers, t \in Tenants :
            mem'[s][t]["realm"] # None => mem'[s][t]["realm"].value.edition \in Editions
<1>1. mem \in [Servers -> [Tenants -> [Items -> Entries \cup {None}]]]
    BY DEF IInv, Shape
<1> DEFINE e == Entry(val[r], MemTtl)
<1>2. e.value = val[r]
    BY DEF Entry
<1> HIDE DEF e
<1>3. \A s \in Servers, t \in Tenants :
        mem'[s][t]["realm"] = IF s = server[r] /\ t = tenant[r] /\ item[r] = "realm"
                              THEN e ELSE mem[s][t]["realm"]
    BY <1>1 DEF Remember, e, Items
<1> QED
    BY <1>2, <1>3 DEF AnswerInv, RealmInv

LEMMA FillingKeeps ==
    ASSUME IInv, AnswerInv, NEW r \in Requests, Fill(r) \/ StoreRealm(r)
    PROVE  AnswerInv'
<1>1. /\ UNCHANGED <<cms, gen, certs, item, token, work>> /\ pc[r] \in {"fill", "store"}
    BY DEF Fill, StoreRealm, data, what
<1>2. /\ item[r] # "csv" /\ server[r] \in Servers /\ tenant[r] \in Tenants /\ item[r] \in Items
      /\ item[r] = "realm" => val[r].edition \in Editions
    BY <1>1, OnTheWay
<1>3. CASE Fill(r)
    <2>1. UNCHANGED shared /\ (UNCHANGED mem \/ Remember(r, val[r]))
        BY <1>3 DEF Fill
    <2>2. RealmInv'
        BY <1>2, <2>1, RealmStays, RememberRealm DEF RealmInv, AnswerInv
    <2>3. CASE Answer(r, "500", val[r])
        BY <1>1, <1>2, <2>2, <2>3, AnsweringOk
    <2>4. CASE Given(r, val[r])
        BY <1>1, <1>2, <2>2, <2>4, GivenKeeps
    <2> QED
        BY <1>3, <2>3, <2>4 DEF Fill
<1>4. CASE StoreRealm(r)
    <2>1. CASE Answer(r, "500", None) /\ UNCHANGED <<mem, shared>>
        <3>1. RealmInv'
            BY <2>1, RealmStays
        <3> QED
            BY <1>1, <1>2, <2>1, <3>1, AnsweringOk
    <2>2. CASE /\ shared' = [shared EXCEPT ![tenant[r]] = Entry(val[r], SharedTtl)]
               /\ Remember(r, val[r]) /\ Given(r, val[r])
        <3>1. item[r] = "realm"
            BY <1>4, OnTheWay DEF StoreRealm
        <3>2. \A t \in Tenants : shared'[t] # None => shared'[t].value.edition \in Editions
            BY <1>2, <2>2, <3>1 DEF AnswerInv, RealmInv, Entry, IInv, Shape
        <3>3. RealmInv'
            BY <1>2, <2>2, <3>2, RememberRealm DEF RealmInv
        <3> QED
            BY <1>1, <1>2, <2>2, <3>3, GivenKeeps
    <2> QED
        BY <1>4, <2>1, <2>2 DEF StoreRealm
<1> QED
    BY <1>3, <1>4

-----------------------------------------------------------------------------
(* A token is judged. *)

\* By genuine keys, a good token signed with the first is refused only after
\* another has come.
LEMMA JudgingKeeps ==
    ASSUME IInv, AnswerInv, NEW r \in Requests, item[r] # "csv",
           UNCHANGED <<cms, gen, item, token>>, RealmInv', CertsInv',
           certs' \in [Editions -> Keysets \cup {None}],
           val[r].edition \in Editions,
           NEW keys, Genuine(val[r].edition, keys), Judge(r, keys),
           NEW w, work' = [work EXCEPT ![r] = w]
    PROVE  AnswerInv'
<1> DEFINE v == val[r]
           told == IF token[r].kid \in keys /\ token[r].valid THEN "ok" ELSE "401"
           step == "done"
<1>1. /\ pc' = [pc EXCEPT ![r] = step] /\ val' = [val EXCEPT ![r] = v]
      /\ verdict' = [verdict EXCEPT ![r] = told] /\ told \in Told
    BY DEF Judge, Answer, Told
<1>2. token[r].valid /\ token[r].kid = <<v.edition, 1>> /\ told = "401" => gen[v.edition] > 1
    <2>1. gen[v.edition] \in Nat \ {0}
        BY DEF AnswerInv, AnswerShape
    <2>2. token[r].valid /\ token[r].kid = <<v.edition, 1>> /\ told = "401"
            => <<v.edition, 1>> \notin keys
        OBVIOUS
    <2>3. gen[v.edition] = 1 => <<v.edition, 1>> \in keys
        BY DEF Genuine
    <2> HIDE DEF v, told
    <2> QED
        BY <2>1, <2>2, <2>3
<1>3. step \notin {"fill", "store", "certs", "keycloak", "keep", "scan", "mget"} /\ v.edition \in Editions
    OBVIOUS
<1> HIDE DEF v, told, step
<1> QED
    BY <1>1, <1>2, <1>3, ConfigStep

\* It is refused without keys being asked for, or cannot be judged.
LEMMA NotJudged ==
    ASSUME IInv, AnswerInv, NEW r \in Requests, item[r] # "csv",
           UNCHANGED <<cms, gen, certs, item, token>>, RealmInv',
           val[r].edition \in Editions,
           NEW told \in {"401", "500"}, Answer(r, told, val[r]),
           told = "401" => token[r].kid = None,
           NEW w, work' = [work EXCEPT ![r] = w]
    PROVE  AnswerInv'
<1> DEFINE v == val[r]
           step == "done"
<1>1. /\ pc' = [pc EXCEPT ![r] = step] /\ val' = [val EXCEPT ![r] = v]
      /\ verdict' = [verdict EXCEPT ![r] = told] /\ told \in Told
    BY DEF Answer, Told
<1>2. told = "401" => token[r].kid # <<v.edition, 1>>
    <2>1. <<v.edition, 1>> \in Nat \X Nat
        BY TtlTypes DEF Editions
    <2>2. None \notin Nat \X Nat
        BY TenantConfigAssumption
    <2> QED
        BY <2>1, <2>2
<1>3. step \notin {"fill", "store", "certs", "keycloak", "keep", "scan", "mget"} /\ v.edition \in Editions
    OBVIOUS
<1> HIDE DEF v, step
<1> QED
    BY <1>1, <1>2, <1>3, CertsStay, ConfigStep

LEMMA TokenKeeps ==
    ASSUME IInv, AnswerInv, NEW r \in Requests,
           ReadCerts(r) \/ AskKeycloak(r) \/ KeepCerts(r)
    PROVE  AnswerInv'
<1> DEFINE m == val[r].edition
<1>1. /\ UNCHANGED <<cms, gen, item, token, mem, shared>>
      /\ pc[r] \in {"certs", "keycloak", "keep"}
    BY DEF ReadCerts, AskKeycloak, KeepCerts, data, caches, what
<1>2. item[r] # "csv" /\ m \in Editions /\ RealmInv'
    BY <1>1, OnTheWay, RealmStays
<1>3. gen[m] \in Nat \ {0} /\ m \in Nat
    BY <1>2, TtlTypes DEF AnswerInv, AnswerShape, Editions
<1>4. val = [val EXCEPT ![r] = val[r]]
    BY Unwritten
<1>5. CASE ReadCerts(r)
    <2> DEFINE w == work[r]
    <2>1. UNCHANGED certs /\ work' = [work EXCEPT ![r] = w] /\ UNCHANGED work
        BY <1>5, Unwritten DEF ReadCerts, caches
    <2> HIDE DEF w
    <2>2. CASE token[r].kid = None /\ Answer(r, "401", val[r])
        BY <1>1, <1>2, <2>1, <2>2, NotJudged
    <2>3. CASE certs[m] # None /\ Judge(r, certs[m])
        <3>1. Genuine(m, certs[m])
            BY <1>2, <2>3 DEF AnswerInv, CertsInv
        <3> QED
            BY <1>1, <1>2, <2>1, <2>3, <3>1, CertsStay, JudgingKeeps
    <2>4. CASE Goto(r, "keycloak")
        BY <1>1, <1>2, <1>4, <2>1, <2>4, GoingOn DEF Goto
    <2>5. CASE Answer(r, "500", val[r])
        BY <1>1, <1>2, <2>1, <2>5, NotJudged
    <2> QED
        BY <1>5, <2>2, <2>3, <2>4, <2>5 DEF ReadCerts
<1>6. CASE AskKeycloak(r)
    <2>1. UNCHANGED certs
        BY <1>6 DEF AskKeycloak, caches
    <2>2. CASE Goto(r, "keep") /\ work' = [work EXCEPT ![r] = KeysOf(m)]
        <3> DEFINE w == KeysOf(m)
                   told == verdict[r]
                   v == val[r]
                   step == "keep"
        <3>1. w \in Keysets /\ Genuine(m, w)
            BY <1>3 DEF KeysOf, Keysets, Genuine
        <3>2. /\ verdict' = [verdict EXCEPT ![r] = told] /\ told \in Told
              /\ val' = [val EXCEPT ![r] = v] /\ pc' = [pc EXCEPT ![r] = step]
              /\ work' = [work EXCEPT ![r] = w]
            BY <2>2, Unwritten DEF Goto
        <3>3. v.edition \in Editions /\ Genuine(v.edition, w) /\ step \notin {"done", "scan", "mget"}
            BY <1>2, <3>1
        <3> HIDE DEF w, told, v, step
        <3> QED
            BY <1>1, <1>2, <2>1, <3>1, <3>2, <3>3, CertsStay, ConfigStep
    <2>3. CASE Answer(r, "500", val[r]) /\ UNCHANGED work
        BY <1>1, <1>2, <2>1, <2>3, AnsweringOk
    <2> QED
        BY <1>6, <2>2, <2>3 DEF AskKeycloak
<1>7. CASE KeepCerts(r)
    <2>1. work' = [work EXCEPT ![r] = None]
        BY <1>7 DEF KeepCerts
    <2>2. CASE certs' = [certs EXCEPT ![m] = work[r]] /\ Judge(r, work[r])
        <3>1. work[r] \in Keysets /\ Genuine(m, work[r])
            BY <1>7 DEF KeepCerts, AnswerInv, Judged
        <3>2. /\ certs' \in [Editions -> Keysets \cup {None}]
              /\ \A n \in Editions : certs'[n] = IF n = m THEN work[r] ELSE certs[n]
            BY <1>2, <2>2, <3>1 DEF AnswerInv, AnswerShape
        <3>3. CertsInv'
            BY <1>1, <3>1, <3>2 DEF AnswerInv, CertsInv, Genuine
        <3> QED
            BY <1>1, <1>2, <2>1, <2>2, <3>1, <3>2, <3>3, JudgingKeeps
    <2>3. CASE Answer(r, "500", val[r]) /\ UNCHANGED certs
        BY <1>1, <1>2, <2>1, <2>3, NotJudged
    <2> QED
        BY <1>7, <2>2, <2>3 DEF KeepCerts
<1> QED
    BY <1>5, <1>6, <1>7

-----------------------------------------------------------------------------
(* A sweep. *)

\* A step of a sweep: no token, no certificates.
LEMMA SweepStep ==
    ASSUME IInv, AnswerInv, NEW r \in Requests, item[r] = "csv",
           UNCHANGED <<cms, gen, certs, item, token>>, RealmInv',
           NEW step \in {"scan", "mget", "done"}, NEW v, NEW told \in Told, NEW w,
           pc' = [pc EXCEPT ![r] = step], val' = [val EXCEPT ![r] = v],
           verdict' = [verdict EXCEPT ![r] = told], work' = [work EXCEPT ![r] = w],
           step = "done" => v = None,
           pc'[r] = step /\ verdict'[r] = told /\ work'[r] = w => Swept(r)'
    PROVE  AnswerInv'
<1>1. ASSUME pc'[r] = step, val'[r] = v, verdict'[r] = told, work'[r] = w
      PROVE  Judged(r)' /\ Swept(r)'
    BY <1>1 DEF Judged, Answered
<1> QED
    BY <1>1, CertsStay, OneAnswers

LEMMA SweepFails ==
    ASSUME IInv, AnswerInv, NEW r \in Requests, item[r] = "csv",
           UNCHANGED <<cms, gen, certs, item, token, work>>, RealmInv',
           Answer(r, "500", None)
    PROVE  AnswerInv'
<1> DEFINE w == work[r]
           v == None
           told == "500"
           step == "done"
<1>1. /\ pc' = [pc EXCEPT ![r] = step] /\ val' = [val EXCEPT ![r] = v]
      /\ verdict' = [verdict EXCEPT ![r] = told] /\ told \in Told
      /\ work' = [work EXCEPT ![r] = w]
    BY Unwritten DEF Answer, Told
<1>2. step \in {"scan", "mget", "done"} /\ (step = "done" => v = None)
    OBVIOUS
<1>3. pc'[r] = step /\ verdict'[r] = told /\ work'[r] = w => Swept(r)'
    BY DEF AnswerInv, Swept, Steady, Found
<1> HIDE DEF w, v, told, step
<1> QED
    BY <1>1, <1>2, <1>3, SweepStep

\* What SCAN returned, and what is still to come.
LEMMA ScanRoundKeeps ==
    ASSUME IInv, AnswerInv, NEW r \in Requests, item[r] = "csv", pc[r] = "scan",
           UNCHANGED <<cms, gen, certs, item, token>>, RealmInv',
           NEW keys \in SUBSET Tenants, NEW last \in BOOLEAN, ScanRound(r, keys, last)
    PROVE  AnswerInv'
<1> DEFINE old == work[r]
           w == [old EXCEPT !.rounds = @ + 1, !.batch = keys, !.left = @ \ keys, !.last = last]
<1>1. old \in Sweeps /\ Swept(r)
    BY DEF AnswerInv, Swept
<1>2. work' = [work EXCEPT ![r] = w]
    BY DEF ScanRound
<1>3. \A t \in Tenants : last /\ t \in old.left \ keys => cms[t]["attributes"] # old.before[t]
    BY DEF ScanRound, MayEnd
<1> HIDE DEF old
<1>4. /\ w \in Sweeps /\ w.batch = keys /\ w.left = old.left \ keys /\ w.last = last
      /\ w.found = old.found /\ w.before = old.before
    <2> DEFINE n == old.rounds + 1
               l == old.left \ keys
    <2>1. n \in Nat /\ l \in SUBSET Tenants
        BY <1>1 DEF Sweeps
    <2>2. w = [old EXCEPT !.rounds = n, !.batch = keys, !.left = l, !.last = last]
        BY <1>1 DEF Sweeps
    <2> HIDE DEF n, w
    <2>3. w.left = l
        BY <1>1, <2>2 DEF Sweeps
    <2> HIDE DEF l
    <2>4. w \in Sweeps /\ w.batch = keys /\ w.last = last /\ w.found = old.found
          /\ w.before = old.before
        BY <1>1, <2>1, <2>2 DEF Sweeps
    <2> QED
        BY <2>3, <2>4 DEF l
<1> HIDE DEF w
<1>5. \A t \in Tenants :
        /\ w.before[t] <= cms[t]["attributes"]
        /\ cms[t]["attributes"] = w.before[t] /\ Form[cms[t]["attributes"]] = "good" =>
            \/ t \in keys \/ (t \in w.left /\ ~last)
            \/ Columns[cms[t]["attributes"]] \subseteq w.found
    BY <1>1, <1>3, <1>4 DEF Swept, Steady, Found, old
<1>6. CASE keys = {} /\ last
    <2> DEFINE v == None
               told == "ok"
               step == "done"
    <2>1. /\ pc' = [pc EXCEPT ![r] = step] /\ val' = [val EXCEPT ![r] = v]
          /\ verdict' = [verdict EXCEPT ![r] = told] /\ told \in Told
        BY <1>6 DEF ScanRound, Answer, Told
    <2>2. step \in {"scan", "mget", "done"} /\ (step = "done" => v = None)
        OBVIOUS
    <2>3. pc'[r] = step /\ verdict'[r] = told /\ work'[r] = w => Swept(r)'
        BY <1>4, <1>5, <1>6 DEF Swept, Steady, Found
    <2> HIDE DEF v, told, step
    <2> QED
        BY <1>2, <2>1, <2>2, <2>3, SweepStep
<1>7. CASE ~(keys = {} /\ last)
    <2> DEFINE v == val[r]
               told == verdict[r]
               step == IF keys = {} THEN "scan" ELSE "mget"
    <2>1. /\ pc' = [pc EXCEPT ![r] = step] /\ val' = [val EXCEPT ![r] = v]
          /\ verdict' = [verdict EXCEPT ![r] = told] /\ told \in Told
        BY <1>7, Unwritten DEF ScanRound, Goto
    <2>2. step \in {"scan", "mget", "done"} /\ step # "done" /\ told = None
        BY <1>1 DEF Swept
    <2>3. pc'[r] = step /\ verdict'[r] = told /\ work'[r] = w => Swept(r)'
        BY <1>4, <1>5, <1>7, <2>2 DEF Swept, Steady, Found
    <2> HIDE DEF v, told, step
    <2> QED
        BY <1>2, <2>1, <2>2, <2>3, SweepStep
<1> QED
    BY <1>6, <1>7

LEMMA BatchKeeps ==
    ASSUME IInv, AnswerInv, NEW r \in Requests, item[r] = "csv", pc[r] = "mget",
           UNCHANGED <<cms, gen, certs, item, token>>, RealmInv',
           work' = [work EXCEPT ![r].found = @ \cup AddedBy(r), ![r].batch = {}],
           IF work[r].last THEN Answer(r, "ok", None) ELSE Goto(r, "scan")
    PROVE  AnswerInv'
<1> DEFINE old == work[r]
           w == [old EXCEPT !.found = @ \cup AddedBy(r), !.batch = {}]
<1>1. old \in Sweeps /\ Swept(r)
    BY DEF AnswerInv, Swept
<1>2. \A t \in Tenants : cms[t]["attributes"] \in Editions
    BY DEF IInv, Shape, Items, Editions
<1>3. old.batch \subseteq Tenants
    BY <1>1 DEF Sweeps
<1>4. AddedBy(r) \subseteq AllColumns
    BY <1>2, <1>3 DEF AddedBy, AllColumns
<1>5. \A t \in old.batch : Form[cms[t]["attributes"]] = "good" =>
        Columns[cms[t]["attributes"]] \subseteq AddedBy(r)
    BY DEF AddedBy
<1>6. work' = [work EXCEPT ![r] = w]
    OBVIOUS
<1> HIDE DEF old
<1>7. /\ w \in Sweeps /\ w.batch = {} /\ w.left = old.left /\ w.last = old.last
      /\ w.found = old.found \cup AddedBy(r) /\ w.before = old.before
    BY <1>1, <1>4 DEF Sweeps
<1> HIDE DEF w
<1>8. \A t \in Tenants :
        /\ w.before[t] <= cms[t]["attributes"]
        /\ cms[t]["attributes"] = w.before[t] /\ Form[cms[t]["attributes"]] = "good" =>
            \/ t \in w.left /\ ~w.last
            \/ Columns[cms[t]["attributes"]] \subseteq w.found
    BY <1>1, <1>5, <1>7 DEF Swept, Steady, Found, old
<1>9. CASE work[r].last
    <2> DEFINE v == None
               told == "ok"
               step == "done"
    <2>1. /\ pc' = [pc EXCEPT ![r] = step] /\ val' = [val EXCEPT ![r] = v]
          /\ verdict' = [verdict EXCEPT ![r] = told] /\ told \in Told
        BY <1>9 DEF Answer, Told
    <2>2. step \in {"scan", "mget", "done"} /\ (step = "done" => v = None)
        OBVIOUS
    <2>3. pc'[r] = step /\ verdict'[r] = told /\ work'[r] = w => Swept(r)'
        BY <1>7, <1>8, <1>9 DEF Swept, Steady, Found, old
    <2> HIDE DEF v, told, step
    <2> QED
        BY <1>6, <2>1, <2>2, <2>3, SweepStep
<1>10. CASE ~work[r].last
    <2> DEFINE v == val[r]
               told == verdict[r]
               step == "scan"
    <2>1. /\ pc' = [pc EXCEPT ![r] = step] /\ val' = [val EXCEPT ![r] = v]
          /\ verdict' = [verdict EXCEPT ![r] = told] /\ told \in Told
        BY <1>10, Unwritten DEF Goto
    <2>2. step \in {"scan", "mget", "done"} /\ step # "done" /\ told = None
        BY <1>1 DEF Swept
    <2>3. pc'[r] = step /\ verdict'[r] = told /\ work'[r] = w => Swept(r)'
        BY <1>7, <1>8, <2>2 DEF Swept, Steady, Found
    <2> HIDE DEF v, told, step
    <2> QED
        BY <1>6, <2>1, <2>2, <2>3, SweepStep
<1> QED
    BY <1>9, <1>10

LEMMA SweepingKeeps ==
    ASSUME IInv, AnswerInv, NEW r \in Requests, item[r] = "csv", Scan(r) \/ GetBatch(r)
    PROVE  AnswerInv'
<1>1. UNCHANGED <<cms, gen, certs, item, token, mem, shared>>
    BY DEF Scan, GetBatch, data, caches, what
<1>2. RealmInv'
    BY <1>1, RealmStays
<1>3. CASE Answer(r, "500", None) /\ UNCHANGED work
    BY <1>1, <1>2, <1>3, SweepFails
<1>4. CASE Scan(r)
    <2>1. Configured \subseteq Tenants /\ pc[r] = "scan"
        BY <1>4 DEF Scan, Configured
    <2>2. ASSUME NEW keys \in SUBSET Configured, NEW last \in BOOLEAN,
                 ScanRound(r, keys, last)
          PROVE  AnswerInv'
        BY <1>1, <1>2, <2>1, <2>2, ScanRoundKeeps
    <2> QED
        BY <1>3, <1>4, <2>2 DEF Scan
<1>5. CASE GetBatch(r)
    BY <1>1, <1>2, <1>3, <1>5, BatchKeeps DEF GetBatch
<1> QED
    BY <1>4, <1>5

-----------------------------------------------------------------------------
(* A request begins. *)

LEMMA BeginningKeeps ==
    ASSUME IInv, AnswerInv, NEW r \in Requests, NEW s, NEW t, NEW i, NEW tok,
           Begin(r, s, t, i, tok), UNCHANGED mem,
           NEW step, NEW v, NEW told \in Told, NEW w,
           pc' = [pc EXCEPT ![r] = step], val' = [val EXCEPT ![r] = v],
           verdict' = [verdict EXCEPT ![r] = told], work' = [work EXCEPT ![r] = w],
           pc'[r] = step /\ val'[r] = v /\ verdict'[r] = told /\ work'[r] = w
               /\ item'[r] = i => Judged(r)' /\ Swept(r)'
    PROVE  AnswerInv'
<1>1. /\ item' = [item EXCEPT ![r] = i] /\ token' = [token EXCEPT ![r] = tok]
      /\ UNCHANGED <<cms, gen, shared, certs>>
    BY DEF Begin, data
<1>2. IsMap(work', Requests) /\ work'[r] = w /\ \A q \in Requests \ {r} : work'[q] = work[q]
    <2>1. work = [q \in Requests |-> work[q]]
        BY DEF AnswerInv, AnswerShape, IsMap
    <2>2. work' = [q \in Requests |-> IF q = r THEN w ELSE work[q]]
        BY <2>1
    <2> QED
        BY <2>2 DEF IsMap
<1>3. IsMap(token', Requests) /\ \A q \in Requests \ {r} : token'[q] = token[q]
    <2>1. token = [q \in Requests |-> token[q]]
        BY DEF AnswerInv, AnswerShape, IsMap
    <2>2. token' = [q \in Requests |-> IF q = r THEN tok ELSE token[q]]
        BY <1>1, <2>1
    <2> QED
        BY <2>2 DEF IsMap
<1>4. /\ pc'[r] = step /\ val'[r] = v /\ verdict'[r] = told /\ item'[r] = i
      /\ \A q \in Requests \ {r} :
            /\ pc'[q] = pc[q] /\ val'[q] = val[q] /\ verdict'[q] = verdict[q]
            /\ item'[q] = item[q]
      /\ verdict' \in [Requests -> Told]
    BY <1>1 DEF AnswerInv, AnswerShape, IInv, Shape
<1>5. AnswerShape' /\ RealmInv'
    BY <1>1, <1>2, <1>3, <1>4, RealmStays DEF AnswerInv, AnswerShape
<1>6. CertsInv'
    BY <1>1, CertsStay
<1>7. Judged(r)' /\ Swept(r)'
    BY <1>2, <1>4
<1>8. ASSUME NEW q \in Requests \ {r} PROVE Judged(q)' /\ Swept(q)'
    <2>1. Rests(q)
        BY <1>2, <1>3, <1>4 DEF Rests
    <2> QED
        BY <1>1, <2>1, Standing, RestingKeeps
<1> QED
    BY <1>5, <1>6, <1>7, <1>8 DEF AnswerInv

\* It does not sweep; what it is given is a realm, or judges nothing.
LEMMA ArrivalKeeps ==
    ASSUME IInv, AnswerInv, NEW r \in Requests, NEW s, NEW t, NEW i, NEW tok,
           Begin(r, s, t, i, tok), UNCHANGED <<mem, work>>, i # "csv",
           NEW step \in {"cms", "certs", "done"}, NEW v, NEW told \in Told,
           pc' = [pc EXCEPT ![r] = step], val' = [val EXCEPT ![r] = v],
           verdict' = [verdict EXCEPT ![r] = told],
           step = "certs" => v.edition \in Editions,
           step = "done" => v = None \/ told # "401"
    PROVE  AnswerInv'
<1> DEFINE w == work[r]
<1>1. work' = [work EXCEPT ![r] = w]
    BY Unwritten
<1>2. pc'[r] = step /\ val'[r] = v /\ verdict'[r] = told /\ work'[r] = w /\ item'[r] = i
        => Judged(r)' /\ Swept(r)'
    BY DEF Judged, Swept, Answered
<1> HIDE DEF w
<1> QED
    BY <1>1, <1>2, BeginningKeeps

LEMMA ComingKeeps ==
    ASSUME IInv, AnswerInv, NEW r \in Requests, NEW s \in Servers, NEW head,
           NEW i \in Items, Come(r, s, head, i)
    PROVE  AnswerInv'
<1>1. "csv" \notin Items /\ "realm" # "csv" /\ None # "csv"
    BY TenantConfigAssumption DEF Items
<1>2. CASE Turned(r, s, head)
    BY <1>1, <1>2, ArrivalKeeps DEF Turned, Answer, Told
<1>3. CASE Anonymous(r, s, head)
    BY <1>1, <1>3, ArrivalKeeps DEF Anonymous, Answer, Told
<1>4. ASSUME NEW tok, Ask(r, s, head, i, tok) PROVE AnswerInv'
    <2> DEFINE t == head.tenant
    <2>1. t \in Tenants /\ Begin(r, s, t, i, tok) /\ UNCHANGED <<mem, work>> /\ item'[r] = i
        BY <1>4 DEF Ask, Admitted, TenantFits, Begin, IInv, Shape
    <2>2. CASE mem[s][t][i] # None /\ Recall(r, mem[s][t][i])
        <3> DEFINE v == mem[s][t][i].value
        <3>1. /\ pc' = [pc EXCEPT ![r] = IF i = "realm" THEN "certs" ELSE "done"]
              /\ verdict' = [verdict EXCEPT ![r] = IF i = "realm" THEN None ELSE "ok"]
              /\ val' = [val EXCEPT ![r] = v]
            BY <2>1, <2>2 DEF Recall
        <3>2. i = "realm" => v.edition \in Editions
            BY <2>1, <2>2 DEF AnswerInv, RealmInv
        <3> HIDE DEF v, t
        <3>3. CASE i = "realm"
            BY <1>1, <2>1, <3>1, <3>2, <3>3, ArrivalKeeps DEF Told
        <3>4. CASE i # "realm"
            BY <1>1, <2>1, <3>1, <3>4, ArrivalKeeps DEF Told
        <3> QED
            BY <3>3, <3>4
    <2>3. CASE /\ pc' = [pc EXCEPT ![r] = "cms"] /\ val' = [val EXCEPT ![r] = None]
               /\ verdict' = [verdict EXCEPT ![r] = None]
        BY <1>1, <2>1, <2>3, ArrivalKeeps DEF Told
    <2> QED
        BY <1>4, <2>2, <2>3 DEF Ask
<1> QED
    BY <1>2, <1>3, <1>4 DEF Come

LEMMA AskingCsvKeeps ==
    ASSUME IInv, AnswerInv, NEW r \in Requests, NEW s \in Servers, AskCsv(r, s)
    PROVE  AnswerInv'
<1> DEFINE w == [left |-> Configured, batch |-> {}, rounds |-> 0, found |-> {},
                 before |-> [t \in Tenants |-> cms[t]["attributes"]], last |-> FALSE]
<1>1. \A t \in Tenants : cms[t]["attributes"] \in Editions /\ cms[t]["attributes"] \in Nat
    BY TtlTypes DEF IInv, Shape, Items, Editions
<1>2. w \in Sweeps
    BY <1>1 DEF Sweeps, Configured
<1>3. /\ \A t \in Tenants : w.before[t] = cms[t]["attributes"]
      /\ \A t \in Tenants : Form[cms[t]["attributes"]] = "good" => t \in w.left
    BY DEF Configured
<1>4. /\ Begin(r, s, None, "csv", None) /\ UNCHANGED mem
      /\ pc' = [pc EXCEPT ![r] = "scan"] /\ val' = [val EXCEPT ![r] = None]
      /\ verdict' = [verdict EXCEPT ![r] = None] /\ work' = [work EXCEPT ![r] = w]
      /\ UNCHANGED cms
    BY DEF AskCsv, Begin, data
<1> HIDE DEF w
<1>5. ASSUME pc'[r] = "scan", val'[r] = None, verdict'[r] = None, work'[r] = w, item'[r] = "csv"
      PROVE  Judged(r)' /\ Swept(r)'
    <2>1. Judged(r)'
        BY <1>5 DEF Judged, Answered
    <2>2. Swept(r)'
        BY <1>1, <1>2, <1>3, <1>4, <1>5 DEF Swept, Steady
    <2> QED
        BY <2>1, <2>2
<1> QED
    BY <1>4, <1>5, BeginningKeeps DEF Told

-----------------------------------------------------------------------------
(* Caches are cleared, the CMS and Keycloak go on, and time passes. *)

\* Nothing happens to the requests.
LEMMA AllRest ==
    ASSUME IInv, AnswerInv, UNCHANGED <<pc, what, val, verdict, work, certs>>, RealmInv',
           gen' \in [Editions -> Nat \ {0}], Grows
    PROVE  AnswerInv'
<1>1. AnswerShape'
    BY DEF AnswerInv, AnswerShape, what, IsMap
<1>2. CertsInv'
    <2>1. \A m \in Editions : gen'[m] = 1 => gen[m] = 1
        BY DEF Grows, AnswerInv, AnswerShape
    <2> QED
        BY <2>1 DEF AnswerInv, CertsInv, Genuine
<1>3. ASSUME NEW q \in Requests PROVE Judged(q)' /\ Swept(q)'
    <2>1. Rests(q)
        BY DEF Rests, what
    <2> QED
        BY <2>1, RestingKeeps
<1> QED
    BY <1>1, <1>2, <1>3 DEF AnswerInv

LEMMA OutsideKeeps ==
    ASSUME IInv, AnswerInv PROVE
        /\ \A t \in Tenants, i \in Items : Publish(t, i) => AnswerInv'
        /\ \A t \in Tenants : PublishStrapi(t) => AnswerInv'
        /\ \A m \in Editions : Rotate(m) => AnswerInv'
<1>1. /\ gen \in [Editions -> Nat \ {0}] /\ cms \in [Tenants -> [Items -> Editions]]
      /\ \A e \in Editions : e \in Nat
      /\ "attributes" \in Items
    BY TtlTypes DEF AnswerInv, AnswerShape, IInv, Shape, Editions, Items
<1>2. ASSUME NEW t \in Tenants, NEW i \in Items, Publish(t, i) PROVE AnswerInv'
    <2>1. cms' = [cms EXCEPT ![t][i] = @ + 1] /\ gen' = gen /\ cms[t][i] + 1 \in Editions
        BY <1>1, <1>2, TtlTypes DEF Publish, Editions
    <2>2. \A u \in Tenants :
            \/ cms'[u]["attributes"] = cms[u]["attributes"]
            \/ u = t /\ i = "attributes" /\ cms'[u]["attributes"] = cms[u]["attributes"] + 1
        BY <1>1, <2>1
    <2>3. Grows
        BY <1>1, <2>1, <2>2 DEF Grows
    <2> QED
        BY <1>1, <1>2, <2>1, <2>3, AllRest, RealmStays DEF Publish, caches
<1>3. ASSUME NEW t \in Tenants, PublishStrapi(t) PROVE AnswerInv'
    BY <1>1, <1>3, AllRest, RealmStays, Standing DEF PublishStrapi, caches
<1>4. ASSUME NEW m \in Editions, Rotate(m) PROVE AnswerInv'
    <2>1. gen' = [gen EXCEPT ![m] = @ + 1] /\ cms' = cms
        BY <1>4 DEF Rotate
    <2>2. gen' \in [Editions -> Nat \ {0}] /\ \A n \in Editions : gen[n] <= gen'[n]
        BY <1>1, <2>1
    <2>3. Grows
        BY <1>1, <2>1, <2>2 DEF Grows
    <2> QED
        BY <1>4, <2>2, <2>3, AllRest, RealmStays DEF Rotate, caches
<1> QED
    BY <1>2, <1>3, <1>4

LEMMA ClearingKeeps ==
    ASSUME IInv, AnswerInv, NEW s \in Servers, NEW ts \in SUBSET Tenants, Clear(s, ts)
    PROVE  AnswerInv'
<1>1. mem \in [Servers -> [Tenants -> [Items -> Entries \cup {None}]]] /\ "realm" \in Items
    BY DEF IInv, Shape, Items
<1>2. /\ mem' = [mem EXCEPT ![s] = [t \in Tenants |->
            IF t \in ts THEN [i \in Items |-> IF i \in Cleared THEN None ELSE mem[s][t][i]]
            ELSE mem[s][t]]]
      /\ UNCHANGED <<cms, gen, shared, certs, pc, what, val, verdict, work>>
    BY DEF Clear, Forget, data
<1>3. \A z \in Servers, t \in Tenants :
        mem'[z][t]["realm"] = mem[z][t]["realm"] \/ mem'[z][t]["realm"] = None
    BY <1>1, <1>2
<1>4. RealmInv'
    BY <1>2, <1>3 DEF AnswerInv, RealmInv
<1> QED
    BY <1>2, <1>4, AllRest, Standing DEF AnswerInv, AnswerShape

LEMMA TickKeeps == ASSUME IInv, AnswerInv, Tick PROVE AnswerInv'
<1>1. /\ UNCHANGED <<cms, gen, certs, pc, what, val, verdict, work>> /\ "realm" \in Items
      /\ mem' = [s \in Servers |-> [t \in Tenants |-> [i \in Items |->
                    At(mem[s][t][i], now + 1)]]]
      /\ shared' = [t \in Tenants |-> At(shared[t], now + 1)]
    BY DEF Tick, data, Items
<1>2. \A e, n : At(e, n) # None => At(e, n) = e /\ e # None
    BY DEF At
<1>3. RealmInv'
    <2>1. ASSUME NEW s \in Servers, NEW t \in Tenants, mem'[s][t]["realm"] # None
          PROVE  mem'[s][t]["realm"].value.edition \in Editions
        <3>1. mem'[s][t]["realm"] = At(mem[s][t]["realm"], now + 1)
            BY <1>1
        <3> QED
            BY <1>2, <2>1, <3>1 DEF AnswerInv, RealmInv
    <2>2. ASSUME NEW t \in Tenants, shared'[t] # None
          PROVE  shared'[t].value.edition \in Editions
        BY <1>1, <1>2, <2>2 DEF AnswerInv, RealmInv
    <2> QED
        BY <1>1, <2>1, <2>2 DEF RealmInv
<1> QED
    BY <1>1, <1>3, AllRest, Standing DEF AnswerInv, AnswerShape

LEMMA InitAnswers == Init => AnswerInv
<1> SUFFICES ASSUME Init PROVE AnswerInv
    OBVIOUS
<1>1. AnswerShape
    BY DEF Init, Rest, AnswerShape, Told, IsMap, Editions
<1>2. CertsInv /\ RealmInv
    BY DEF Init, Rest, CertsInv, RealmInv, Editions, Items
<1>3. None # "csv"
    BY TenantConfigAssumption
<1>4. \A r \in Requests : Judged(r) /\ Swept(r)
    BY <1>3 DEF Init, Rest, Judged, Swept, Answered
<1> QED
    BY <1>1, <1>2, <1>4 DEF AnswerInv

LEMMA NextAnswers == ASSUME IInv, AnswerInv, [Next]_vars PROVE AnswerInv'
<1>1. ASSUME NEW r \in Requests, Advance(r) PROVE AnswerInv'
    <2>1. Scan(r) \/ GetBatch(r) => item[r] = "csv"
        BY DEF Scan, GetBatch, AnswerInv, Swept
    <2> QED
        BY <1>1, <2>1, ReadingKeeps, FillingKeeps, TokenKeeps, SweepingKeeps DEF Advance
<1>2. ASSUME NEW r \in Requests, NEW s \in Servers,
             \/ AskCsv(r, s)
             \/ \E head \in Heads, i \in Items : Come(r, s, head, i)
      PROVE  AnswerInv'
    BY <1>2, AskingCsvKeeps, ComingKeeps
<1>3. ASSUME NEW s \in Servers, Clear(s, Tenants) \/ \E t \in Tenants : Clear(s, {t})
      PROVE  AnswerInv'
    BY <1>3, ClearingKeeps
<1>4. ASSUME NEW t \in Tenants, PublishStrapi(t) \/ \E i \in Items : Publish(t, i)
      PROVE  AnswerInv'
    BY <1>4, OutsideKeeps
<1>5. ASSUME NEW m \in 1..MaxEdition, Rotate(m) PROVE AnswerInv'
    BY <1>5, OutsideKeeps DEF Editions
<1>6. CASE Tick
    BY <1>6, TickKeeps
<1>7. CASE UNCHANGED vars
    BY <1>7, AllRest, RealmStays, Standing DEF vars, data, caches, AnswerInv, AnswerShape
<1> QED
    BY <1>1, <1>2, <1>3, <1>4, <1>5, <1>6, <1>7 DEF Next

-----------------------------------------------------------------------------
(***************************************************************************)
(* The inductive invariant: certificates are genuine until a rotation, and *)
(* a sweep has met, has in hand or is still to meet what stood still.      *)
(***************************************************************************)
THEOREM AnswerInvHolds == Spec => []AnswerInv
<1>1. Init => AnswerInv
    BY InitAnswers
<1>2. IInv /\ AnswerInv /\ [Next]_vars => AnswerInv'
    BY NextAnswers
<1> QED
    BY <1>1, <1>2, IInvHolds, PTL DEF Spec

(***************************************************************************)
(* A good token of the realm of the tenant, signed with its first key, is  *)
(* refused only after the realm has got another.                           *)
(***************************************************************************)
THEOREM OnlyRotationLocksOut == Spec => []LockedOutOnlyByRotation
<1>1. AnswerInv => LockedOutOnlyByRotation
    BY DEF AnswerInv, Judged, LockedOutOnlyByRotation
<1> QED
    BY <1>1, AnswerInvHolds, PTL

(***************************************************************************)
(* A sweep that succeeds has every attribute of every tenant whose         *)
(* configuration stood still since it began.                               *)
(***************************************************************************)
THEOREM SweepsAreComplete == Spec => []CsvComplete
<1>1. ASSUME AnswerInv, NEW r \in Requests, item[r] = "csv", verdict[r] = "ok",
             NEW t \in Tenants, Steady(r, t)
      PROVE  Found(r, t)
    <2>1. pc[r] = "done"
        BY <1>1, TenantConfigAssumption DEF AnswerInv, Swept
    <2> QED
        BY <1>1, <2>1 DEF AnswerInv, Swept
<1>2. AnswerInv => CsvComplete
    BY <1>1 DEF Steady, Found, CsvComplete
<1> QED
    BY <1>2, AnswerInvHolds, PTL

=============================================================================
