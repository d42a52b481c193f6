--------------------------- MODULE ShortUrlProofs ---------------------------
(***************************************************************************)
(* The short-URL service implements the atomic map of UrlMap, and a link   *)
(* it handed out stays the link of its URL, for any number of requests,    *)
(* URLs, ids and retries.                                                  *)
(***************************************************************************)
EXTENDS ShortUrl, TLAPS

\* Initially nothing is stored and no request was sent.
LEMMA InitIInv == Init => IInv
  <1> SUFFICES ASSUME Init PROVE IInv
    OBVIOUS
  <1>1. TypeOK
    BY ShortUrlAssumption DEF Init, TypeOK
  <1>2. IdsUnique
    BY DEF Init, IdsUnique
  <1>3. \A r \in Requests : StepFits(r) /\ AnswerFits(r)
    <2> SUFFICES ASSUME NEW r \in Requests PROVE StepFits(r) /\ AnswerFits(r)
      OBVIOUS
    <2>1. /\ pc[r] = "idle" /\ url[r] = None /\ answer[r] = None
          /\ retries[r] = 0
      BY DEF Init
    <2>2. None \notin Ids /\ None # "failed" /\ 0 < MaxRetries
      BY ShortUrlAssumption
    <2> QED
      BY <2>1, <2>2 DEF StepFits, AnswerFits
  <1> QED
    BY <1>1, <1>2, <1>3 DEF IInv

(***************************************************************************)
(* What the other requests may rely on: a step of r only adds to the store *)
(* and touches no variable of q.                                           *)
(***************************************************************************)
StoreGrows ==
    /\ DOMAIN store \subseteq DOMAIN store'
    /\ \A u \in DOMAIN store : store'[u] = store[u]

SameRequest(q) ==
    /\ pc'[q] = pc[q] /\ url'[q] = url[q] /\ id'[q] = id[q]
    /\ retries'[q] = retries[q] /\ answer'[q] = answer[q]

\* A request that does not move keeps its part of the invariant.
LEMMA OthersKeepFitting ==
    ASSUME NEW q \in Requests, SameRequest(q), StoreGrows,
           StepFits(q), AnswerFits(q)
    PROVE  StepFits(q)' /\ AnswerFits(q)'
  BY DEF SameRequest, StoreGrows, StepFits, AnswerFits, Known, IdTaken

\* A step that leaves the store alone, seen from the request that takes it.
LEMMA MoverKeepsInvariant ==
    ASSUME NEW r \in Requests, IInv, TypeOK', IdsUnique', StoreGrows,
           StepFits(r)', AnswerFits(r)',
           \A q \in Requests \ {r} : SameRequest(q)
    PROVE  IInv'
  BY OthersKeepFitting DEF IInv

\* Sending a request stores nothing.
LEMMA RequestKeepsIInv ==
    ASSUME IInv, NEW r \in Requests, NEW u \in Urls, Request(r, u)
    PROVE  IInv'
  <1> USE DEF Request
  <1>1. TypeOK'
    BY DEF IInv, TypeOK
  <1>2. IdsUnique' /\ StoreGrows
    BY DEF IInv, IdsUnique, StoreGrows
  <1>3. StepFits(r)' /\ AnswerFits(r)'
    BY ShortUrlAssumption DEF IInv, TypeOK, StepFits, AnswerFits, Known
  <1>4. \A q \in Requests \ {r} : SameRequest(q)
    BY DEF IInv, TypeOK, SameRequest
  <1> QED
    BY <1>1, <1>2, <1>3, <1>4, MoverKeepsInvariant

\* The steps of a running request that do not store anything.
LEMMA QuietStepsKeepIInv ==
    ASSUME IInv, NEW r \in Requests,
           \/ Find(r) \/ Match(r) \/ Retry(r)
           \/ ServerRetries(r) \/ UrlTaken(r) \/ Refetch(r)
    PROVE  IInv'
  <1>1. IdsUnique' /\ StoreGrows
    BY DEF IInv, IdsUnique, StoreGrows, Find, Match, Retry, ServerRetries,
           UrlTaken, Refetch
  <1>2. \A q \in Requests \ {r} : SameRequest(q)
    BY DEF IInv, TypeOK, SameRequest, Find, Match, Retry, ServerRetries,
           UrlTaken, Refetch, Answer
  <1>3. TypeOK' /\ StepFits(r)' /\ AnswerFits(r)'
    <2> USE ShortUrlAssumption DEF IInv, TypeOK, StepFits, AnswerFits, Known
    <2>1. CASE Find(r)
      BY <2>1 DEF Find, Answer
    <2>2. CASE Match(r)
      BY <2>2 DEF Match, Answer
    <2>3. CASE Retry(r)
      BY <2>3 DEF Retry, Answer, IdTaken
    <2>4. CASE ServerRetries(r)
      BY <2>4 DEF ServerRetries
    <2>5. CASE UrlTaken(r)
      BY <2>5 DEF UrlTaken
    <2>6. CASE Refetch(r)
      BY <2>6 DEF Refetch, Answer
    <2> QED
      BY <2>1, <2>2, <2>3, <2>4, <2>5, <2>6
  <1> QED
    BY <1>1, <1>2, <1>3, MoverKeepsInvariant

\* Both unique indexes let the insert through.
LEMMA InsertKeepsIInv ==
    ASSUME IInv, NEW r \in Requests, Insert(r)
    PROVE  IInv'
  <1> USE DEF Insert, Answer
  <1>1. url[r] \in Urls /\ id[r] \in Ids /\ url[r] \notin DOMAIN store
    BY DEF IInv, TypeOK, StepFits, Known
  <1>2. DOMAIN store' = DOMAIN store \cup {url[r]}
    OBVIOUS
  <1>3. store'[url[r]] = id[r] /\ \A u \in DOMAIN store : store'[u] = store[u]
    BY <1>1
  <1>4. StoreGrows
    BY <1>2, <1>3 DEF StoreGrows
  <1>5. IdsUnique'
    BY <1>2, <1>3 DEF IInv, IdsUnique, IdTaken
  <1>6. TypeOK'
    BY <1>1, <1>2, <1>3 DEF IInv, TypeOK
  <1>7. StepFits(r)' /\ AnswerFits(r)'
    BY <1>1, <1>2, <1>3, ShortUrlAssumption
    DEF IInv, TypeOK, StepFits, AnswerFits, Known
  <1>8. \A q \in Requests \ {r} : SameRequest(q)
    BY DEF IInv, TypeOK, SameRequest
  <1> QED
    BY <1>4, <1>5, <1>6, <1>7, <1>8, MoverKeepsInvariant

\* Nothing moves.
LEMMA StutterKeepsIInv == ASSUME IInv, UNCHANGED vars PROVE IInv'
  BY DEF vars, IInv, TypeOK, IdsUnique, StepFits, AnswerFits, Known, IdTaken

(***************************************************************************)
(* THEOREM: the inductive invariant holds of every behaviour of the short- *)
(* URL service.                                                            *)
(***************************************************************************)
THEOREM IInvHolds == Spec => []IInv
  <1>1. ASSUME IInv, [Next]_vars PROVE IInv'
    BY <1>1, RequestKeepsIInv, QuietStepsKeepIInv, InsertKeepsIInv,
       StutterKeepsIInv
    DEF Next, Advance, Finished
  <1> QED
    BY InitIInv, <1>1, PTL DEF Spec

\* The variables have their types.
THEOREM TypeCorrect == Spec => []TypeOK
  BY IInvHolds, PTL DEF IInv

(***************************************************************************)
(* THEOREM: a link that was handed out leads to the URL it was asked for   *)
(* and to no other one.                                                    *)
(***************************************************************************)
THEOREM LinksAlwaysResolve == Spec => []LinksResolve
  <1>1. IInv => LinksResolve
    BY DEF IInv, IdsUnique, AnswerFits, Known, LinksResolve, Targets
  <1> QED
    BY <1>1, IInvHolds, PTL

(***************************************************************************)
(* THEOREM: a request fails only after MaxRetries errors, the last of them *)
(* about a taken id or a URL that is mistaken for one.                     *)
(***************************************************************************)
THEOREM FailsOnlyOnCollisions == Spec => []FailsOnlyOnTakenIds
  <1>1. IInv => FailsOnlyOnTakenIds
    BY DEF IInv, AnswerFits, FailsOnlyOnTakenIds
  <1> QED
    BY <1>1, IInvHolds, PTL

\* A request is answered: each way to answer it is a step of the map.
LEMMA StepsRefine ==
    ASSUME IInv, [Next]_vars
    PROVE  [Map!MapNext]_(Map!mapVars)
  <1> USE DEF Map!mapVars
  <1>1. CASE UNCHANGED vars
    BY <1>1 DEF vars
  <1>2. ASSUME NEW r \in Requests, NEW u \in Urls, Request(r, u)
        PROVE  Map!Ask(r, u)
    BY <1>2 DEF Request, Map!Ask, IInv, StepFits
  <1>3. ASSUME NEW r \in Requests, Advance(r)
        PROVE  \/ UNCHANGED <<store, url, answer>>
               \/ Map!Get(r) \/ Map!Create(r) \/ Map!Fail(r)
    <2>1. pc[r] \in {"find", "match", "insert", "refetch"} => Map!Waiting(r)
      BY DEF IInv, StepFits, Map!Waiting
    <2>2. CASE Find(r)
      BY <2>1, <2>2 DEF Find, Answer, Known, Map!Get
    <2>3. CASE Match(r)
      BY <2>1, <2>3 DEF Match, Answer, Known, Map!Get
    <2>4. CASE Insert(r)
      <3>1. id[r] \in Ids
        BY <2>4 DEF Insert, IInv, StepFits
      <3> QED
        BY <2>1, <2>4, <3>1 DEF Insert, Answer, Known, IdTaken, Map!Create
    <2>5. CASE Retry(r)
      BY <2>1, <2>5 DEF Retry, Answer, Map!Fail
    <2>6. CASE ServerRetries(r) \/ UrlTaken(r)
      BY <2>6 DEF ServerRetries, UrlTaken
    <2>7. CASE Refetch(r)
      BY <2>1, <2>7 DEF Refetch, Answer, Known, Map!Get, Map!Fail
    <2> QED
      BY <1>3, <2>2, <2>3, <2>4, <2>5, <2>6, <2>7 DEF Advance
  <1> QED
    BY <1>1, <1>2, <1>3 DEF Next, Finished, Map!MapNext

(***************************************************************************)
(* THEOREM: find, upsert, retry and refetch together look like one atomic  *)
(* get-or-create of the map.                                               *)
(***************************************************************************)
THEOREM ServiceImplementsMap == Spec => ImplementsMap
  <1>1. Init => Map!MapInit
    BY DEF Init, Map!MapInit
  <1> QED
    BY <1>1, StepsRefine, IInvHolds, PTL DEF Spec, ImplementsMap, Map!MapSpec

=============================================================================
