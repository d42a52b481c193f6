---------------------------- MODULE FavoriteLists ----------------------------
(***************************************************************************)
(* The favourite lists of users (src/favorite-list/favorite-list.service   *)
(* and src/favorite/favorite.service): create, purge and delete a list,    *)
(* add a resource to it and remove one, and sync the list a client kept    *)
(* locally.  Every request is a process whose awaits interleave.           *)
(*                                                                         *)
(* Names, descriptions and privacy, which "update" replaces and no other   *)
(* operation reads, are left out.                                          *)
(***************************************************************************)
EXTENDS Naturals, SequencesExt

CONSTANTS
    Requests,      \* the requests clients may send, one call each
    Users,         \* the owners of lists
    Tenants,       \* the tenants a request may name
    Resources,     \* the resource ids, as numbers in their string order
    Kinds,         \* the kinds of requests that are sent
    InitialLists,  \* the collections the program may be started on
    MaxInFlight,   \* how many requests may be running at once
    None           \* nothing yet, or a list that was made without a tenant

ASSUME FavoritesAssumption ==
    /\ Resources \subseteq Nat
    /\ Kinds \subseteq {"add", "remove", "purge", "delete", "create", "sync"}
    /\ MaxInFlight \in Nat \ {0}

VARIABLES
    lists,  \* lists[l]: the stored list whose _id is l
    pc,     \* pc[r]: the next step of request r, or its answer
    job,    \* job[r]: what the client asked for
    copy    \* copy[r]: the list read into memory

vars == <<lists, pc, job, copy>>

\* v: Mongoose's __v.
List == [owner : Users, tenant : Tenants \cup {None}, favs : Seq(Resources), v : Nat]

\* The _id of a list the program creates is named after the request.
StartIds == UNION {DOMAIN ls : ls \in InitialLists}
ListIds  == StartIds \cup Requests

ASSUME InitialListsAssumption ==
    /\ StartIds \cap Requests = {}
    /\ \A ls \in InitialLists : ls \in [DOMAIN ls -> List]
    /\ \A ls \in InitialLists : \A l \in DOMAIN ls : IsInjective(ls[l].favs)

ItemJob == [kind : Kinds \cap {"add", "remove"},
            user : Users, list : ListIds, resource : Resources]
ListJob == [kind : Kinds \cap {"purge", "delete"}, user : Users, list : ListIds]
MakeJob == [kind : Kinds \cap {"create"}, user : Users, tenant : Tenants]
SyncJob == [kind : Kinds \cap {"sync"}, user : Users, tenant : Tenants,
            resources : {R \in SUBSET Resources \ {{}} : IsFiniteSet(R)}]
Job == ItemJob \cup ListJob \cup MakeJob \cup SyncJob

Answers == {"ok", "exists", "notFound", "conflict", "failed"}

Init ==
    /\ lists \in InitialLists
    /\ pc = [r \in Requests |-> "idle"]
    /\ job = [r \in Requests |-> None]
    /\ copy = [r \in Requests |-> None]

Running(r) == pc[r] \notin Answers \cup {"idle"}

\* The filter {_id, ownerId} of every operation on one list.
Owned(r) == job[r].list \in DOMAIN lists /\ lists[job[r].list].owner = job[r].user

Write(l, list) ==
    lists' = [x \in DOMAIN lists \cup {l} |-> IF x = l THEN list ELSE lists[x]]

Goto(r, step) == pc' = [pc EXCEPT ![r] = step]

\* normalizeResourceIds: without duplicates, in ascending order.
Normalized(resources) ==
    CHOOSE s \in [1..Cardinality(resources) -> resources] :
        \A i, k \in DOMAIN s : i < k => s[i] < s[k]

\* hasSameFavorites: every stored favourite equals the one at its index.
SameFavorites(favs, resources) ==
    IsPrefix(Normalized(ToSet(favs)), Normalized(resources))

-----------------------------------------------------------------------------

Start(r) ==
    /\ pc[r] = "idle"
    /\ Cardinality({q \in Requests : Running(q)}) < MaxInFlight
    /\ \E j \in Job : job' = [job EXCEPT ![r] = j] /\ Goto(r, j.kind)
    /\ UNCHANGED <<lists, copy>>

NotFound(r) ==
    /\ pc[r] \in {"add", "remove", "purge", "delete"}
    /\ ~Owned(r)
    /\ Goto(r, "notFound")
    /\ UNCHANGED <<lists, job, copy>>

\* FavoriteService.create: find the list, refuse a favourite it has, push.
ReadForAdd(r) ==
    /\ pc[r] = "add" /\ Owned(r)
    /\ copy' = [copy EXCEPT ![r] = lists[job[r].list]]
    /\ Goto(r, IF job[r].resource \in ToSet(lists[job[r].list].favs)
               THEN "conflict" ELSE "push")
    /\ UNCHANGED <<lists, job>>

(***************************************************************************)
(* save() sends the push as {$push, $inc: {__v: 1}} for the _id alone: it  *)
(* applies to whatever the list holds by now.  The slip leaves __v alone.  *)
(***************************************************************************)
PushUnversioned(r) ==
    LET l == job[r].list IN
    /\ pc[r] = "push" /\ l \in DOMAIN lists
    /\ Write(l, [lists[l] EXCEPT !.favs = Append(@, job[r].resource)])
    /\ Goto(r, "ok")
    /\ UNCHANGED <<job, copy>>

Push(r) ==
    LET l == job[r].list IN
    /\ pc[r] = "push" /\ l \in DOMAIN lists
    /\ Write(l, [lists[l] EXCEPT !.favs = Append(@, job[r].resource), !.v = @ + 1])
    /\ Goto(r, "ok")
    /\ UNCHANGED <<job, copy>>

\* FavoriteService.remove: find the list, splice the favourite, save.
ReadForRemove(r) ==
    /\ pc[r] = "remove" /\ Owned(r)
    /\ copy' = [copy EXCEPT ![r] = lists[job[r].list]]
    /\ Goto(r, "saveRemoved")
    /\ UNCHANGED <<lists, job>>

\* The favourites without the removed one.
Spliced(r) == RemoveFirst(copy[r].favs, job[r].resource)

(***************************************************************************)
(* After a splice, save() sends the whole array, for the _id and the __v   *)
(* that was read, and increments __v.  When the favourite was not there,   *)
(* it only looks whether the list still exists.  The slip: no __v in the   *)
(* filter.                                                                 *)
(***************************************************************************)
SaveUnversioned(r) ==
    LET l == job[r].list IN
    /\ pc[r] = "saveRemoved" /\ l \in DOMAIN lists
    /\ Write(l, [lists[l] EXCEPT !.favs = Spliced(r), !.v = @ + 1])
    /\ Goto(r, "ok")
    /\ UNCHANGED <<job, copy>>

SaveRemoved(r) ==
    LET l == job[r].list IN
    /\ pc[r] = "saveRemoved" /\ l \in DOMAIN lists
    /\ \/ /\ Spliced(r) # copy[r].favs /\ lists[l].v = copy[r].v
          /\ Write(l, [lists[l] EXCEPT !.favs = Spliced(r), !.v = @ + 1])
       \/ Spliced(r) = copy[r].favs /\ UNCHANGED lists
    /\ Goto(r, "ok")
    /\ UNCHANGED <<job, copy>>

\* save() of a deleted or changed document is refused and answers 500.
SaveRefused(r) ==
    /\ \/ pc[r] \in {"push", "saveRemoved"} /\ job[r].list \notin DOMAIN lists
       \/ /\ pc[r] = "saveRemoved" /\ job[r].list \in DOMAIN lists
          /\ Spliced(r) # copy[r].favs /\ lists[job[r].list].v # copy[r].v
    /\ Goto(r, "failed")
    /\ UNCHANGED <<lists, job, copy>>

\* updateOne({_id, ownerId}, {$set: {favorites: []}}) leaves __v alone.
Purge(r) ==
    /\ pc[r] = "purge" /\ Owned(r)
    /\ Write(job[r].list, [lists[job[r].list] EXCEPT !.favs = <<>>])
    /\ Goto(r, "ok")
    /\ UNCHANGED <<job, copy>>

Delete(r) ==
    /\ pc[r] = "delete" /\ Owned(r)
    /\ lists' = [l \in DOMAIN lists \ {job[r].list} |-> lists[l]]
    /\ Goto(r, "ok")
    /\ UNCHANGED <<job, copy>>

\* The document that is made.
NewList(r, favs) ==
    [owner |-> job[r].user, tenant |-> job[r].tenant, favs |-> favs, v |-> 0]

Create(r) ==
    /\ pc[r] = "create"
    /\ Write(r, NewList(r, <<>>))
    /\ Goto(r, "ok")
    /\ UNCHANGED <<job, copy>>

\* The user's lists for the tenant, with as many favourites as were sent; the
\* slip leaves out the size.
AnySize(r) ==
    {l \in DOMAIN lists :
        lists[l].owner = job[r].user /\ lists[l].tenant = job[r].tenant}
Candidates(r) ==
    {l \in DOMAIN lists :
        /\ lists[l].owner = job[r].user /\ lists[l].tenant = job[r].tenant
        /\ Len(lists[l].favs) = Cardinality(job[r].resources)}

\* syncLocalList: the aggregate, and the search for an identical list in it.
ReadCandidates(r) ==
    /\ pc[r] = "sync"
    /\ Goto(r, IF \E l \in Candidates(r) :
                    SameFavorites(lists[l].favs, job[r].resources)
               THEN "exists" ELSE "createSynced")
    /\ UNCHANGED <<lists, job, copy>>

CreateSynced(r) ==
    /\ pc[r] = "createSynced"
    /\ Write(r, NewList(r, Normalized(job[r].resources)))
    /\ Goto(r, "ok")
    /\ UNCHANGED <<job, copy>>

Advance(r) ==
    \/ NotFound(r)
    \/ ReadForAdd(r) \/ Push(r)
    \/ ReadForRemove(r) \/ SaveRemoved(r) \/ SaveRefused(r)
    \/ Purge(r) \/ Delete(r) \/ Create(r)
    \/ ReadCandidates(r) \/ CreateSynced(r)

\* Every request has been answered and no client sends another one.
Finished ==
    /\ \A r \in Requests : pc[r] \in Answers
    /\ UNCHANGED vars

Next == (\E r \in Requests : Start(r) \/ Advance(r)) \/ Finished

Spec == Init /\ [][Next]_vars

-----------------------------------------------------------------------------
(* Properties. *)

TypeOK ==
    /\ DOMAIN lists \subseteq ListIds
    /\ lists \in [DOMAIN lists -> List]
    /\ pc \in [Requests -> Answers \cup Kinds \cup
                  {"idle", "push", "saveRemoved", "createSynced"}]
    /\ job \in [Requests -> Job \cup {None}]
    /\ copy \in [Requests -> List \cup {None}]

Favorites(ls, l) == IF l \in DOMAIN ls THEN ToSet(ls[l].favs) ELSE {}

\* Request r of the list's owner, for the list l, takes this step.
ActsOn(r, l) ==
    /\ pc'[r] # pc[r]
    /\ job[r] \in ItemJob \cup ListJob
    /\ job[r].list = l
    /\ l \in DOMAIN lists => job[r].user = lists[l].owner

(***************************************************************************)
(* A favourite disappears from a list only because the owner of the list   *)
(* removes it, or purges or deletes the list.  A removal writes back the   *)
(* array it read: the version check keeps it from losing a concurrent add. *)
(***************************************************************************)
OnlyTargetDisappears ==
    [][\A l \in DOMAIN lists : \A x \in Favorites(lists, l) \ Favorites(lists', l) :
          \E r \in Requests :
              /\ ActsOn(r, l)
              /\ \/ job[r].kind = "remove" /\ job[r].resource = x
                 \/ job[r].kind \in {"purge", "delete"}]_vars

(***************************************************************************)
(* A favourite appears in a list only because the owner adds it, or, since *)
(* a purge does not change __v, because a removal that read the list       *)
(* before it was purged writes the other favourites back.                  *)
(***************************************************************************)
OnlyAddedAppears ==
    [][\A l \in DOMAIN lists : \A x \in Favorites(lists', l) \ Favorites(lists, l) :
          \E r \in Requests :
              /\ ActsOn(r, l)
              /\ \/ job[r].kind = "add" /\ job[r].resource = x
                 \/ job[r].kind = "remove" /\ lists[l].favs = <<>>]_vars

(***************************************************************************)
(* The version check is sound: while the __v a removal read is the stored  *)
(* one, the stored favourites are those it read, unless they were purged.  *)
(***************************************************************************)
VersionGuardsFavorites ==
    \A r \in Requests :
        pc[r] = "saveRemoved" /\ job[r].list \in DOMAIN lists =>
            LET list == lists[job[r].list] IN
            /\ copy[r].v <= list.v
            /\ list.v = copy[r].v => list.favs \in {copy[r].favs, <<>>}

\* The user's list for the tenant that holds exactly the resources sent.
Identical(ls, r) ==
    {l \in DOMAIN ls :
        /\ ls[l].owner = job[r].user /\ ls[l].tenant = job[r].tenant
        /\ ToSet(ls[l].favs) = job[r].resources}

\* A sync answered 204 found an identical list.
SyncExistsIsIdentical ==
    [][\A r \in Requests :
          pc[r] = "sync" /\ pc'[r] = "exists" => Identical(lists, r) # {}]_vars

-----------------------------------------------------------------------------
(***************************************************************************)
(* The inductive invariant behind VersionGuardsFavorites: versions are     *)
(* numbers, and no one has read a list that is still to be made, so that a *)
(* list that is deleted never comes back with another history.             *)
(***************************************************************************)
Unmade == {q \in Requests : pc[q] \in {"idle", "create", "sync", "createSynced"}}

GuardInv ==
    /\ VersionGuardsFavorites
    /\ \A l \in DOMAIN lists :
          /\ {"favs", "v"} \subseteq DOMAIN lists[l] /\ lists[l].v \in Nat
          /\ l \notin Unmade
    /\ DOMAIN copy = Requests
    /\ pc = [r \in Requests |-> pc[r]]
    /\ \A r \in Requests : pc[r] = "saveRemoved" =>
          copy[r].v \in Nat /\ job[r].list \notin Unmade

=============================================================================
