-------------------------- MODULE MCResponseCache --------------------------
(***************************************************************************)
(* One key of each kind, and a heatmap, a range whose factory leaves out   *)
(* what it cannot geocode.  Keys share nothing but the time, so a          *)
(* behaviour asks for one of them, its focus, as often as it likes.  The   *)
(* range closes while its values are about, and gets two ticks more: those *)
(* an answer takes to be older than an open range allows.  The heatmap and *)
(* the names, whose values may be stand-ins in two caches, get fewer.      *)
(***************************************************************************)
EXTENDS ResponseCache

CONSTANTS range, heatmap, sessions, catalog, names, count
VARIABLE focus

MCKind ==
    [k \in Keys |-> CASE k \in {range, heatmap} -> "range" [] k = sessions -> "sessions"
                      [] k = catalog -> "catalog" [] k = names -> "names"
                      [] k = count -> "count"]
MCCloses == [k \in Keys |-> IF k = range THEN 3 ELSE 0]

InFocus ==
    /\ UNCHANGED focus
    /\ \A r \in Requests : key'[r] \in {None, focus}
    /\ now' <= MaxClock - CASE focus = range -> 0
                             [] focus = names -> 3
                             [] focus = heatmap -> 4
                             [] OTHER -> 2

FocusInit == focus \in Keys /\ Init

\* Redis and the source answer or fail: each step of a flight is taken.
FocusSpec ==
    /\ FocusInit
    /\ [][Next /\ InFocus]_<<vars, focus>>
    /\ \A r \in Requests : WF_vars(Advance(r))

=============================================================================
