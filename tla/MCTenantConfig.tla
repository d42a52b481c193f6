--------------------------- MODULE MCTenantConfig ---------------------------
(***************************************************************************)
(* One kind of item per behaviour, since they do not meet: what the memory *)
(* holds of one is read and written by requests for it alone.  A token,    *)
(* which takes a realm and its certificates, is judged once at a time.  A  *)
(* realm that only the old CMS knows is asked of two servers, for two      *)
(* ticks more, as it may rightly be older; one that the CMS knows at times *)
(* is asked of one server while its memory is cleared.                     *)
(***************************************************************************)
EXTENDS TenantConfig, TLC

CONSTANTS t1, t2, s1, s2, r1, r2

VARIABLE focus

MCForm == <<"misshapen", "good", "missing">>
MCColumns == <<{}, {"a"}, {}>>

Tag(base, q) == [base |-> base, q |-> q]
Asks(t, urlT, tags, urlL) ==
    [tenant |-> t, urlTenant |-> urlT, languages |-> tags, urlLocale |-> urlL]
MCHeads ==
    { Asks(t1, t1, <<Tag("en", 5), Tag("es", 0)>>, "es"),
      Asks(t1, t2, <<>>, None),
      Asks(None, None, <<>>, None) }

MCTokens == {[kid |-> <<1, 1>>, valid |-> TRUE], [kid |-> <<1, 2>>, valid |-> TRUE],
             [kid |-> <<2, 1>>, valid |-> FALSE], [kid |-> None, valid |-> TRUE]}

Unsigned == [kid |-> None, valid |-> TRUE]

\* The item a behaviour that begins with several editions is about.
About == IF focus = "cleared" THEN "realm" ELSE focus

FocusInit ==
    /\ focus \in Items \cup {"csv", "shared", "cleared"}
    /\ now = 0
    /\ cms \in {[t \in Tenants |-> [i \in Items |->
                    IF (t = t1 /\ i = About) \/ (focus = "csv" /\ i = "attributes")
                    THEN start[t] ELSE MaxEdition]] : start \in [Tenants -> 1..MaxEdition]}
    /\ strapi = [t \in Tenants |-> MaxEdition - 1]
    /\ Rest

\* Two requests that judge a token or sweep are too many for the bounds.
Askers ==
    IF focus \in {"realm", "csv"}
    THEN {r \in Requests : \A q \in Requests \ {r} : pc[q] = "idle"}
    ELSE Requests

\* One of the caches is cleared for all tenants, the others for one.
Wiped == IF focus = "search" THEN Tenants ELSE {t1}

Realm ==
    \/ \E r \in Askers, head \in Heads : Come(r, s1, head, "realm")
    \/ Publish(t1, "realm")
    \/ PublishStrapi(t1)
    \/ Rotate(1)

\* The realm alone, for requests that have no use for its certificates.
AskRealm(s) ==
    \E r \in Askers, head \in Heads :
        Admitted(head) /\ Ask(r, s, head, "realm", Unsigned)

\* A tenant the CMS does not know is asked for at both servers,
Shared == \E s \in Servers : AskRealm(s)

\* one that comes and goes at one, the memory of which is cleared.
Dropped ==
    \/ AskRealm(s1)
    \/ Clear(s1, {t1})
    \/ Publish(t1, "realm")

Sweep ==
    \/ \E r \in Askers : AskCsv(r, s1)
    \/ \E t \in Tenants : Publish(t, "attributes")

Item ==
    \/ \E r \in Askers, head \in Heads : Come(r, s1, head, focus)
    \/ Clear(s1, Wiped)
    \/ Publish(t1, focus)

FocusNext ==
    /\ \/ \E r \in Requests : Advance(r)
       \/ focus = "realm" /\ Realm
       \/ focus = "shared" /\ Shared
       \/ focus = "cleared" /\ Dropped
       \/ focus = "csv" /\ Sweep
       \/ focus \in Items \ {"realm"} /\ Item
       \/ focus # "csv" /\ (focus = "shared" \/ now < MaxClock - 2) /\ Tick
    /\ UNCHANGED focus
FocusSpec == FocusInit /\ [][FocusNext]_<<vars, focus>>

Symmetry == Permutations(Requests)

=============================================================================
