------------------------ MODULE MCPrintableDirectory ------------------------
(***************************************************************************)
(* A directory with two sections, of which the first has two sources.      *)
(***************************************************************************)
EXTENDS PrintableDirectory

CONSTANTS d1, d2, s1, s2, x1, x2, u1, u2, t1, a, g

Item(i, order) == [id |-> i, order |-> order, text |-> a]

Sections ==
    << [id |-> s1, order |-> 0, text |-> a, sources |-> <<Item(x1, 0), Item(x2, 1)>>],
       [id |-> s2, order |-> 1, text |-> a, sources |-> <<>>] >>

Dir(policy) ==
    [owner |-> u1, tenant |-> t1, policy |-> policy, slug |-> None,
     sections |-> Sections, v |-> 0]

OneDirectory == {[d \in {d1} |-> Dir(p)] : p \in {"private", "shared-edit"}}

\* Or a second one, that has taken the slug.
TwoDirectories ==
    {[d \in {d1, d2} |-> IF d = d1 THEN Dir("shared-edit")
                         ELSE [Dir("private") EXCEPT !.slug = g, !.sections = <<>>]]}

Collections == OneDirectory \cup TwoDirectories

\* Two requests may be any; a third one is sent only if all of them edit the
\* sections of one user's directory.
EditsOwn(j) == j.user = u1 /\ j.kind \notin {"create", "update", "remove"}
Sent == {r \in Requests : pc[r] # "idle"}

MCNext ==
    \/ \E r \in Requests : Advance(r)
    \/ Cardinality(Sent) < 2 /\ \E r \in Requests : Start(r)
    \/ /\ Cardinality(Sent) = 2 /\ d2 \notin DOMAIN dirs
       /\ \A r \in Sent : EditsOwn(job[r])
       /\ \E r \in Requests : Start(r) /\ EditsOwn(job'[r])
    \/ /\ Cardinality(Sent) >= 2
       /\ \A r \in Sent : pc[r] \in Answers
       /\ UNCHANGED vars

MCSpec == Init /\ [][MCNext]_vars

RequestSymmetry == Permutations(Requests)

=============================================================================
