------------------------- MODULE MCTaxonomyScorecard -------------------------
(***************************************************************************)
(* Small collections of scorecards to start the requests on.               *)
(***************************************************************************)
EXTENDS TaxonomyScorecardInTurn, TLC

CONSTANTS r1, r2, r3, t1, c1, c2, n0, n1, n2

Collections(docs0) == UNION {[S -> docs0] : S \in SUBSET (Codes \X Owners)}

\* One code: the tenant has no document yet, or a legacy one.
OneCode ==
    {d \in Collections(LegacyDocs) :
        <<c1, Default>> \in DOMAIN d => d[c1, Default] = Legacy(n0, TRUE)}

\* The same, whichever other codes there are.
FirstCode ==
    {d \in Collections(LegacyDocs) :
        /\ DOMAIN d \subseteq {c1} \X Owners
        /\ <<c1, Default>> \in DOMAIN d => d[c1, Default] = Legacy(n0, TRUE)}

\* Two codes, of which the second may have no configuration at all.
TwoCodes ==
    {d \in Collections({Legacy(n0, TRUE)}) :
        <<c1, Default>> \in DOMAIN d /\ <<c2, t1>> \notin DOMAIN d}

OneOrTwoCodes == FirstCode \cup TwoCodes

(***************************************************************************)
(* In a behaviour r1 and r2 overlap as they please, or r1, r2 and r3 come  *)
(* one after another (any other order is the same but for their names).    *)
(***************************************************************************)
Sent == {r \in Requests : pc[r] # "idle"}
MayStart(r) ==
    IF inTurn THEN ~AnyRunning /\ (r # r1 => r1 \in Sent) /\ (r = r3 => r2 \in Sent)
    ELSE r # r3

MCNext ==
    /\ \/ \E r \in Requests : MayStart(r) /\ Start(r)
       \/ \E r \in Requests : Advance(r)
       \/ ~AnyRunning /\ Cardinality(Sent) >= 2 /\ UNCHANGED vars
    /\ UNCHANGED inTurn

\* Every await of a running request is eventually answered.
MCSpec ==
    /\ TurnInit
    /\ [][MCNext]_<<vars, inTurn>>
    /\ \A r \in Requests : WF_vars(Advance(r))

=============================================================================
