--------------------------- MODULE MCFavoriteLists ---------------------------
(***************************************************************************)
(* Small collections of favourite lists to start the requests on.          *)
(***************************************************************************)
EXTENDS FavoriteListsInTurn

CONSTANTS l1, l2, u1, u2, t1

L(user, favs) == [owner |-> user, tenant |-> t1, favs |-> favs, v |-> 0]

\* One list, empty or with favourites that are not in ascending order.
OneList == {[l \in {l1} |-> L(u1, favs)] : favs \in {<<>>, <<2, 1>>}}

\* Or the lists of two users.
TwoOwners == {[l \in {l1, l2} |-> IF l = l1 THEN L(u1, <<2, 1>>) ELSE L(u2, <<1>>)]}

Collections == OneList \cup TwoOwners

RequestSymmetry == Permutations(Requests)

=============================================================================
