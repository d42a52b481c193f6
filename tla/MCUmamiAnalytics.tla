-------------------------- MODULE MCUmamiAnalytics --------------------------
(***************************************************************************)
(* Two requests that share a token, and one request of each report over    *)
(* logs with something for every report in them.                           *)
(***************************************************************************)
EXTENDS UmamiAnalytics, TLC

CONSTANTS r1, r2, w1, w2, w3

E(name, text, place) == [name |-> name, text |-> text, place |-> place]

View == E("view", "/search/1", Nothing)
Root == E("view", "/search?text", Nothing)
Text == E("search_text", "food", "zip1")
Taxonomy == E("search_taxonomy", "", "zip1")
Zero == E(ZeroResults, "food", "zip1")
Blank == E(ZeroResults, "", Nothing)
Session == E("session", "", "town")
Village == E("session", "", "village")
Hamlet == E("session", "", "hamlet")
Water == E("search_text", "water", Nothing)

MCQuery == [p \in {"/search/1", "/search?text"} |->
                IF p = "/search/1" THEN Nothing ELSE <<"text", "food">>]
MCCoord == [a \in {"town", "village", "hamlet"} |-> IF a = "village" THEN "there" ELSE "here"]
MCArrivals == {Text, View, Session}

Only(K) == [r \in Reports |-> IF r = r1 THEN K ELSE {}]
Both(K) == [r \in Reports |-> K]
Log(a, b) == (w1 :> a) @@ (w2 :> b)
Scenario(L, k, n) == [log |-> L, kinds |-> k, arrivals |-> n]

MCScenarios ==
    { Scenario(Log(<<View, Root>>, <<View>>), Both({"stats"}), 0),
      Scenario(Log(<<View, Root, Zero>>, <<View, Text>>), Only({"metrics"}), 0),
      Scenario(Log(<<View, Root, Zero>>, <<View, Blank, Root>>),
               Only({"pageviews", "resource-metrics", "searches", ZeroResults, "event-values"}), 1),
      Scenario(Log(<<Water, Text, Zero>>, <<Taxonomy, Zero>>),
               Only({"export", "area-searches", "event-catalog"}), 1),
      Scenario(Log(<<Session, Village>>, <<Hamlet>>), Only({"heatmap", "sessions"}), 1) }

=============================================================================
