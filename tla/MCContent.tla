----------------------------- MODULE MCContent -----------------------------
(***************************************************************************)
(* Resources of tenant a, with and without a public id, translated or not  *)
(* (the one of database id m4 may be either, and be translated meanwhile); *)
(* further ones of tenants b and c that share their public ids.            *)
(***************************************************************************)
EXTENDS Content

Copy(sal, mongo, tenant, translated) ==
    [sal |-> sal, mongo |-> mongo, orig |-> mongo, tenant |-> tenant, translated |-> translated]

MCCopies == { Copy("s1", "m1", "a", TRUE), Copy("s1", "m2", "b", TRUE),
              Copy("s1", "m3", "c", FALSE), Copy("s2", "m4", "a", FALSE),
              Copy("s3", "m5", "b", TRUE), Copy("s2", "m4", "a", TRUE),
              Copy("s3", "m6", "c", TRUE) }

List(owner, favorites) == [id |-> "l", owner |-> owner, tenant |-> "a", favorites |-> favorites]
MCLists == { List("u", <<"s1">>), List("u", <<>>), List("v", <<"s3", "s1">>) }

Request(kind, ids) == [kind |-> kind, tenant |-> "a", ids |-> ids]
Of(kind, ids) == [type |-> kind, ids |-> ids, list |-> "l"]
Section(limit, sources) == [limit |-> limit, sources |-> sources]
Preview(user, sections) ==
    [kind |-> "preview", tenant |-> "a", user |-> user, owner |-> "u", sections |-> sections]

MCRequests ==
    { Request("single", <<id>>) : id \in {"s1", "m1", "x"} } \cup
    { Request("original", <<"m1">>), Request("titles", <<"s1", "m4">>),
      Request("batch", <<"s1", "s2", "x">>), Request("batch", <<"m1", "s3", "m1">>),
      Preview("u", <<Section(2, <<Of("resource_ids", <<"s3", "m1">>),
                                  Of("resource_ids", <<"s1">>)>>)>>),
      Preview(None, <<Section(1, <<Of("favorites_list", <<>>), Of("query", <<>>)>>),
                      Section(1, <<Of("resource_ids", <<"s1", "s3">>)>>)>>),
      Preview("v", <<Section(2, <<Of("favorites_list", <<>>), Of("resource_ids", <<"m1">>)>>)>>) }

MCHits == { <<>>, <<"s3", "s2">> }

=============================================================================
