------------------------------- MODULE UrlMap -------------------------------
(***************************************************************************)
(* What the short-URL service promises: a map from URLs to short ids that  *)
(* only grows and gives no id twice, consulted and extended in one step.   *)
(* A request is answered with the id of its URL, or fails.                 *)
(***************************************************************************)
CONSTANTS Requests, Urls, Ids, None

VARIABLES
    map,     \* map[u]: the short id of URL u, for the URLs that have one
    asked,   \* asked[r]: the URL of request r, or None
    answer   \* answer[r]: the short id r was given, None, or "failed"

mapVars == <<map, asked, answer>>

MapInit ==
    /\ map = [u \in {} |-> None]
    /\ asked = [r \in Requests |-> None]
    /\ answer = [r \in Requests |-> None]

Ask(r, u) ==
    /\ asked[r] = None
    /\ asked' = [asked EXCEPT ![r] = u]
    /\ UNCHANGED <<map, answer>>

Waiting(r) == asked[r] # None /\ answer[r] = None

Get(r) ==
    /\ Waiting(r)
    /\ asked[r] \in DOMAIN map
    /\ answer' = [answer EXCEPT ![r] = map[asked[r]]]
    /\ UNCHANGED <<map, asked>>

Create(r) ==
    /\ Waiting(r)
    /\ asked[r] \notin DOMAIN map
    /\ \E i \in Ids :
        /\ \A u \in DOMAIN map : map[u] # i
        /\ map' = [u \in DOMAIN map \cup {asked[r]} |->
                      IF u = asked[r] THEN i ELSE map[u]]
        /\ answer' = [answer EXCEPT ![r] = i]
    /\ UNCHANGED asked

Fail(r) ==
    /\ Waiting(r)
    /\ answer' = [answer EXCEPT ![r] = "failed"]
    /\ UNCHANGED <<map, asked>>

MapNext ==
    \E r \in Requests :
        (\E u \in Urls : Ask(r, u)) \/ Get(r) \/ Create(r) \/ Fail(r)

MapSpec == MapInit /\ [][MapNext]_mapVars

=============================================================================
