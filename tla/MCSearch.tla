------------------------------ MODULE MCSearch ------------------------------
(***************************************************************************)
(* Four documents of two tenants, and one query of each form and option.   *)
(***************************************************************************)
EXTENDS Search, TLC

MCTranslated == [young |-> "ninos", old |-> "ancianos", all |-> "todos"]
MCRank == [young |-> 2, old |-> 1, all |-> 0,
           ninos |-> 2, ancianos |-> 0, todos |-> 3]

Doc(id, tenant, place, codes, en, pinned, priority) ==
    [id |-> id, tenant |-> tenant, point |-> place, area |-> {1, 2},
     minAge |-> IF id = 1 THEN 5 ELSE None, maxAge |-> IF id = 2 THEN 10 ELSE None,
     codes |-> codes, words |-> {"food"}, title |-> IF id = 2 THEN {"food"} ELSE {},
     attributes |-> IF id = 1 THEN {"shelter"} ELSE {},
     meaning |-> IF id = 3 THEN {"food"} ELSE {},
     facets |-> [k \in {"kind"} |-> {MCTranslated[v] : v \in en}],
     facetsEn |-> [k \in {"kind"} |-> en],
     pinned |-> pinned, priority |-> priority, name |-> 1, org |-> id]

MCDocs ==
    { Doc(1, "a", 1, {"c1"}, {"young"}, FALSE, 0),
      Doc(2, "a", None, {"c1", "c2"}, {"young", "old", "all"}, FALSE, 0),
      Doc(3, "a", 3, {"c2"}, {"young", "old"}, TRUE, 1),
      Doc(4, "b", 1, {"c1"}, {"young"}, TRUE, 1) }

Plain ==
    [tenant |-> "a", type |-> "text", form |-> "text", word |-> None, codes |-> {},
     tree |-> None, scope |-> {}, filters |-> {}, age |-> None, geoType |-> None,
     coords |-> None, distance |-> 0, geometry |-> None, sort |-> "relevance",
     limit |-> 2, meant |-> {}]

Leaf(c) == [code |-> c, or |-> None, and |-> None]
Or(list) == [code |-> None, or |-> list, and |-> None]
And(list) == [code |-> None, or |-> None, and |-> list]
Complex(tree) == [Plain EXCEPT !.type = "taxonomy", !.form = "complex", !.tree = tree]
Hybrids(word) == [Plain EXCEPT !.type = "hybrid", !.word = word, !.meant = {"c2"}]

\* What a user does with an option.
Scoped == [Hybrids(None) EXCEPT !.scope = {"c1", "c2"}]

MCQueries ==
    { Plain,
      [Plain EXCEPT !.word = "food", !.sort = "distance", !.coords = 1, !.distance = 1],
      [Plain EXCEPT !.word = "shelter"],
      [Plain EXCEPT !.form = "codes"],
      [Plain EXCEPT !.type = "taxonomy", !.codes = {"c"}],
      [Plain EXCEPT !.type = "taxonomy", !.codes = {"c1", "c2"}, !.coords = 1],
      [Plain EXCEPT !.type = "more_like_this", !.word = "food", !.age = 11, !.sort = "organization"],
      [Plain EXCEPT !.geoType = "boundary", !.coords = 4, !.geometry = {1, 4}, !.sort = "name"],
      [Plain EXCEPT !.geoType = "boundary"],
      Complex(<<And(<<2, 3>>), Leaf("c1"), Or(<<4, 5>>), Leaf("c2"), Leaf("c1")>>),
      Complex(<<Or(<<2>>), Leaf("c1")>>),
      Complex(<<Or(<<>>)>>),
      Hybrids(None),
      [Hybrids("food") EXCEPT !.geoType = "proximity", !.coords = 1, !.distance = 1],
      [Hybrids("food") EXCEPT !.scope = {"c1"}, !.filters = {<<"kind", "ancianos">>}],
      Scoped }


MCFoundBy == [c1 |-> {"c", "c1"}, c2 |-> {"c", "c2"}]
MCScope == [n1 |-> {"c1", "c2"}, n2 |-> {}]
Answer1(lowInfo, labels, high, multiple) ==
    [lowInfo |-> lowInfo, labels |-> labels, high |-> high, multiple |-> multiple,
     needs |-> IF multiple THEN {"n1", "n2"} ELSE {"n1"}]
MCBroker == { Answer1(TRUE, 2, FALSE, FALSE), Answer1(TRUE, 1, FALSE, FALSE),
              Answer1(FALSE, 2, TRUE, TRUE), Answer1(FALSE, 1, FALSE, FALSE) }

(***************************************************************************)
(* A behaviour is about searches or about options.  Classifications meet a *)
(* search only in the search an option leads to, and for their counts it   *)
(* takes no more than three documents.                                     *)
(***************************************************************************)
VARIABLE focus

AboutOptions ==
    /\ \A d \in index : d.id # 3
    /\ query \in {None, Scoped} /\ page <= 1

FocusInit == focus \in {"searches", "options"} /\ Init /\ (focus = "options" => AboutOptions)
FocusNext ==
    /\ Next /\ UNCHANGED focus
    /\ IF focus = "searches" THEN UNCHANGED ai ELSE AboutOptions'
FocusSpec == FocusInit /\ [][FocusNext]_<<vars, focus>>

=============================================================================
