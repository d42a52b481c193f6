------------------------------ MODULE ShortUrl ------------------------------
(***************************************************************************)
(* getOrCreateWithUpsert of src/short-url/short-url.service.ts: find the   *)
(* URL, else upsert it with a random id, and retry when the id is taken.   *)
(* MongoDB keeps originalUrl and shortId unique; its upsert looks for the  *)
(* URL first and inserts in a second step, so that it may meet a duplicate *)
(* that another request inserted in between.                               *)
(***************************************************************************)
EXTENDS Naturals

CONSTANTS
    Requests,    \* the requests clients may send, one URL each
    Urls,        \* the URLs they shorten
    Misleading,  \* the URLs that contain the text "shortId"
    Ids,         \* the ids nanoid may draw
    MaxRetries,  \* how often an id may be taken before the request gives up
    None         \* nothing yet

ASSUME ShortUrlAssumption ==
    /\ Misleading \subseteq Urls
    /\ MaxRetries \in Nat \ {0}
    /\ None \notin Urls \cup Ids \cup {"failed"}
    /\ "failed" \notin Ids

VARIABLES
    store,    \* store[u]: the shortId of the document whose originalUrl is u
    pc,       \* pc[r]: the next step of request r
    url,      \* url[r]: the URL it shortens
    id,       \* id[r]: the id it drew last
    retries,  \* retries[r]: how many times its id was taken
    answer    \* answer[r]: the id it answers with, or "failed"

vars == <<store, pc, url, id, retries, answer>>

Init ==
    /\ store = [u \in {} |-> None]
    /\ pc = [r \in Requests |-> "idle"]
    /\ url = [r \in Requests |-> None]
    /\ id = [r \in Requests |-> None]
    /\ retries = [r \in Requests |-> 0]
    /\ answer = [r \in Requests |-> None]

Known(r) == url[r] \in DOMAIN store

\* The unique index on shortId; the slip is not to declare it.
IdNotUnique(r) == FALSE
IdTaken(r) == \E u \in DOMAIN store : store[u] = id[r]

Request(r, u) ==
    /\ pc[r] = "idle"
    /\ url' = [url EXCEPT ![r] = u]
    /\ pc' = [pc EXCEPT ![r] = "find"]
    /\ UNCHANGED <<store, id, retries, answer>>

Answer(r, a) ==
    /\ answer' = [answer EXCEPT ![r] = a]
    /\ pc' = [pc EXCEPT ![r] = "done"]

\* findOne({originalUrl}); when there is none, nanoid draws an id.
Find(r) ==
    /\ pc[r] = "find"
    /\ \/ /\ Known(r)
          /\ Answer(r, store[url[r]])
          /\ UNCHANGED id
       \/ /\ ~Known(r)
          /\ \E i \in Ids : id' = [id EXCEPT ![r] = i]
          /\ pc' = [pc EXCEPT ![r] = "match"]
          /\ UNCHANGED answer
    /\ UNCHANGED <<store, url, retries>>

\* findOneAndUpdate(upsert), first half: $setOnInsert leaves a match alone.
\* The slip, $set, gives it the new id.
MatchOverwrites(r) ==
    /\ pc[r] = "match"
    /\ \/ /\ Known(r)
          /\ store' = [store EXCEPT ![url[r]] = id[r]]
          /\ Answer(r, id[r])
       \/ /\ ~Known(r)
          /\ pc' = [pc EXCEPT ![r] = "insert"]
          /\ UNCHANGED <<store, answer>>
    /\ UNCHANGED <<url, id, retries>>

Match(r) ==
    /\ pc[r] = "match"
    /\ \/ /\ Known(r)
          /\ Answer(r, store[url[r]])
       \/ /\ ~Known(r)
          /\ pc' = [pc EXCEPT ![r] = "insert"]
          /\ UNCHANGED answer
    /\ UNCHANGED <<store, url, id, retries>>

\* Second half: neither unique index is violated.
Insert(r) ==
    /\ pc[r] = "insert"
    /\ ~Known(r) /\ ~IdTaken(r)
    /\ store' = [u \in DOMAIN store \cup {url[r]} |->
                    IF u = url[r] THEN id[r] ELSE store[u]]
    /\ Answer(r, id[r])
    /\ UNCHANGED <<url, id, retries>>

(***************************************************************************)
(* The insert meets a duplicate key (11000), and the message of the error, *)
(* which quotes the duplicate key, contains "shortId": try again.  The     *)
(* slip does not count.                                                    *)
(***************************************************************************)
RetryUncounted(r) ==
    /\ pc[r] = "insert" /\ IdTaken(r)
    /\ pc' = [pc EXCEPT ![r] = "find"]
    /\ UNCHANGED <<store, url, id, retries, answer>>

Retry(r) ==
    /\ pc[r] = "insert"
    /\ IdTaken(r) \/ (Known(r) /\ url[r] \in Misleading)
    /\ retries' = [retries EXCEPT ![r] = @ + 1]
    /\ \/ /\ retries[r] + 1 < MaxRetries
          /\ pc' = [pc EXCEPT ![r] = "find"]
          /\ UNCHANGED answer
       \/ /\ retries[r] + 1 >= MaxRetries
          /\ Answer(r, "failed")
    /\ UNCHANGED <<store, url, id>>

(***************************************************************************)
(* The insert meets a duplicate originalUrl: another request has stored    *)
(* it.  The server may try the whole upsert again by itself, or else       *)
(* reports the duplicate key.                                              *)
(***************************************************************************)
ServerRetries(r) ==
    /\ pc[r] = "insert" /\ Known(r)
    /\ pc' = [pc EXCEPT ![r] = "match"]
    /\ UNCHANGED <<store, url, id, retries, answer>>

\* The slip throws the error on.
UrlTakenThrows(r) ==
    /\ pc[r] = "insert" /\ Known(r) /\ url[r] \notin Misleading
    /\ Answer(r, "failed")
    /\ UNCHANGED <<store, url, id, retries>>

UrlTaken(r) ==
    /\ pc[r] = "insert"
    /\ Known(r) /\ url[r] \notin Misleading
    /\ pc' = [pc EXCEPT ![r] = "refetch"]
    /\ UNCHANGED <<store, url, id, retries, answer>>

Refetch(r) ==
    /\ pc[r] = "refetch"
    /\ \/ Known(r) /\ Answer(r, store[url[r]])
       \/ ~Known(r) /\ Answer(r, "failed")
    /\ UNCHANGED <<store, url, id, retries>>

Advance(r) ==
    \/ Find(r) \/ Match(r) \/ Insert(r) \/ Retry(r)
    \/ ServerRetries(r) \/ UrlTaken(r) \/ Refetch(r)

\* Every request has been answered and no client sends another one.
Finished == (\A r \in Requests : pc[r] = "done") /\ UNCHANGED vars

Next ==
    \/ \E r \in Requests : (\E u \in Urls : Request(r, u)) \/ Advance(r)
    \/ Finished

Spec == Init /\ [][Next]_vars

\* Every await of a running request is eventually answered.
FairSpec == Spec /\ \A r \in Requests : WF_vars(Advance(r))

-----------------------------------------------------------------------------
(* Properties. *)

TypeOK ==
    /\ DOMAIN store \subseteq Urls
    /\ store \in [DOMAIN store -> Ids]
    /\ pc \in [Requests -> {"idle", "find", "match", "insert", "refetch", "done"}]
    /\ url \in [Requests -> Urls \cup {None}]
    /\ id \in [Requests -> Ids \cup {None}]
    /\ retries \in [Requests -> 0..MaxRetries]
    /\ answer \in [Requests -> Ids \cup {None, "failed"}]

\* findById: the URLs a short id leads to.
Targets(i) == {u \in DOMAIN store : store[u] = i}

(***************************************************************************)
(* A link that was handed out leads to the URL it was asked for, and to no *)
(* other one, for good: whichever of several concurrent requests for the   *)
(* URL stored it, and however often ids collided on the way.               *)
(***************************************************************************)
LinksResolve ==
    \A r \in Requests :
        answer[r] \in Ids => Targets(answer[r]) = {url[r]}

(***************************************************************************)
(* The loop never gives up because several requests shorten the same URL:  *)
(* only after MaxRetries errors, the last of them about a taken id, or, by *)
(* the wording of the error, about a URL that contains "shortId".  The     *)
(* document that raised a duplicate URL is always found again.             *)
(***************************************************************************)
FailsOnlyOnTakenIds ==
    \A r \in Requests :
        answer[r] = "failed" =>
            /\ retries[r] = MaxRetries
            /\ IdTaken(r) \/ (Known(r) /\ url[r] \in Misleading)

(***************************************************************************)
(* The service implements the abstract map: the find, the upsert, the      *)
(* retries and the refetch look like one atomic get-or-create.             *)
(***************************************************************************)
Map == INSTANCE UrlMap WITH map <- store, asked <- url
ImplementsMap == Map!MapSpec

\* Every request that was sent is answered, after finitely many retries.
EveryRequestAnswered ==
    \A r \in Requests : pc[r] = "find" ~> pc[r] = "done"

-----------------------------------------------------------------------------
(***************************************************************************)
(* The inductive invariant behind these: no id is given twice, a request   *)
(* has a URL once it was sent and an answer once it is done, and it looks  *)
(* for a document again only when there is one, since none is deleted.     *)
(***************************************************************************)
IdsUnique == \A u, w \in DOMAIN store : store[u] = store[w] => u = w

StepFits(r) ==
    /\ pc[r] = "idle" <=> url[r] = None
    /\ pc[r] = "done" <=> answer[r] # None
    /\ pc[r] \in {"match", "insert", "refetch"} => id[r] \in Ids
    /\ pc[r] = "refetch" => Known(r)
    /\ pc[r] # "done" => retries[r] < MaxRetries

AnswerFits(r) ==
    /\ answer[r] \in Ids => Known(r) /\ store[url[r]] = answer[r]
    /\ answer[r] = "failed" =>
          retries[r] = MaxRetries /\ (IdTaken(r) \/ (Known(r) /\ url[r] \in Misleading))

IInv ==
    /\ TypeOK
    /\ IdsUnique
    /\ \A r \in Requests : StepFits(r) /\ AnswerFits(r)

=============================================================================
