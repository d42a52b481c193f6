----------------------- MODULE TaxonomyScorecardInTurn -----------------------
(***************************************************************************)
(* The customisation of scorecards when no client sends a request before   *)
(* the last one is answered: what the documentation says of versions,      *)
(* drafts and the active version holds then, and can be lost when requests *)
(* overlap.  In a behaviour either requests overlap as they please or they *)
(* come one after another.                                                 *)
(***************************************************************************)
EXTENDS TaxonomyScorecard

VARIABLE inTurn  \* whether they come one after another

AnyRunning == \E r \in Requests : Running(r)

TurnInit == inTurn \in BOOLEAN /\ Init

TurnNext ==
    /\ \/ (inTurn => ~AnyRunning) /\ \E r \in Requests : Start(r)
       \/ \E r \in Requests : Advance(r)
       \/ Finished
    /\ UNCHANGED inTurn

TurnSpec == TurnInit /\ [][TurnNext]_<<vars, inTurn>>

-----------------------------------------------------------------------------
\* A draft of a document there is changes neither its scorecard nor its active version.
SavesDraft(r) ==
    pc[r] = "save" /\ pc'[r] # "save" /\ job[r].kind = "draft" /\ Own(r) \in DOMAIN docs

DraftKeepsActive(r) ==
    SavesDraft(r) =>
        /\ ActiveVersion(docs'[Own(r)]) = ActiveVersion(docs[Own(r)])
        /\ docs'[Own(r)].scorecard = docs[Own(r)].scorecard

NoneRefused == \A r \in Requests : pc[r] # "conflict"

(***************************************************************************)
(* When updates and enables come one after another, each version an update *)
(* saved stays as it was submitted, the scorecard being served is that of  *)
(* the active version, no save is refused, and a draft changes neither the *)
(* scorecard nor the active version.  (None of it holds when they overlap.)*)
(***************************************************************************)
RightInTurn ==
    /\ [](inTurn => SavedVersionsKept /\ ServedIsActive /\ NoneRefused)
    /\ [][inTurn => \A r \in Requests : DraftKeepsActive(r)]_vars

(***************************************************************************)
(* The inductive invariant behind it: one request runs at a time, what it  *)
(* read is still what is stored, and the counter of a document is past its *)
(* versions.                                                               *)
(***************************************************************************)
Whole(d) ==
    /\ \A id \in DOMAIN d.versions : id < NextVersionId(d)
    /\ ActiveVersion(d) # None =>
            /\ ActiveVersion(d) \in DOMAIN d.versions
            /\ d.scorecard = d.versions[ActiveVersion(d)].scorecard

Current(r) ==
    /\ pc[r] = "save" /\ fresh[r] => Own(r) \notin DOMAIN docs /\ Whole(copy[r])
    /\ pc[r] = "saveEnable" \/ (pc[r] = "save" /\ ~fresh[r]) => copy[r] = docs[Own(r)]

Kept(r) ==
    /\ pc[r] = "idle" => saved[r] = {}
    /\ \A s \in saved[r] :
          LET k == <<s[1], job[r].tenant>>
          IN  /\ k \in DOMAIN docs /\ s[2] \in DOMAIN docs[k].versions
              /\ docs[k].versions[s[2]] = [scorecard |-> job[r].need, by |-> r]

TurnInv ==
    inTurn => /\ \A q, r \in Requests : Running(q) /\ Running(r) => q = r
              /\ \A k \in DOMAIN docs : Whole(docs[k])
              /\ \A r \in Requests : Current(r) /\ Kept(r) /\ pc[r] # "conflict"

=============================================================================
