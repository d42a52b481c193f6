------------------------- MODULE FavoriteListsInTurn -------------------------
(***************************************************************************)
(* The favourite lists when no client sends a request before the last one  *)
(* is answered: what the operations promise holds then, and can be lost    *)
(* when requests overlap.  In a behaviour either requests overlap as they  *)
(* please or they come one after another.                                  *)
(***************************************************************************)
EXTENDS FavoriteLists

VARIABLE inTurn  \* whether they come one after another

AnyRunning == \E r \in Requests : Running(r)

TurnInit == inTurn \in BOOLEAN /\ Init

TurnNext ==
    /\ \/ (inTurn => ~AnyRunning) /\ \E r \in Requests : Start(r)
       \/ \E r \in Requests : Advance(r)
       \/ Finished
    /\ UNCHANGED inTurn

TurnSpec == TurnInit /\ [][TurnNext]_<<vars, inTurn>>

-----------------------------------------------------------------------------
\* What a removal and a sync answer is so.
Exact(r) ==
    /\ pc[r] = "saveRemoved" /\ pc'[r] = "ok" =>
            job[r].resource \notin Favorites(lists', job[r].list)
    /\ pc[r] = "sync" /\ pc'[r] = "exists" => Identical(lists, r) # {}
    /\ pc[r] = "createSynced" /\ pc'[r] = "ok" => Identical(lists, r) = {}

NoFavoriteTwice == \A l \in DOMAIN lists : IsInjective(lists[l].favs)
NoneRefused == \A r \in Requests : pc[r] # "failed"

(***************************************************************************)
(* When requests come one after another, no list holds a favourite twice   *)
(* and no save is refused; a removal that is answered 200 leaves the       *)
(* favourite out of the list, a sync answered 204 found a list of exactly  *)
(* the resources sent, and one that makes a list had found none.           *)
(***************************************************************************)
ExactInTurn ==
    /\ [](inTurn => NoFavoriteTwice /\ NoneRefused)
    /\ [][inTurn => \A r \in Requests : Exact(r)]_vars

(***************************************************************************)
(* The inductive invariant behind it: one request runs at a time, and what *)
(* it read is still so.                                                    *)
(***************************************************************************)
Current(r) ==
    /\ pc[r] \in {"push", "saveRemoved"} =>
            job[r].list \in DOMAIN lists /\ copy[r] = lists[job[r].list]
    /\ pc[r] = "push" => job[r].resource \notin Favorites(lists, job[r].list)
    /\ pc[r] = "createSynced" => Identical(lists, r) = {}

TurnInv ==
    inTurn => /\ \A q, r \in Requests : Running(q) /\ Running(r) => q = r
              /\ \A r \in Requests : Current(r)
              /\ NoFavoriteTwice /\ NoneRefused

=============================================================================
