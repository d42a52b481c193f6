----------------------------- MODULE MCShortUrl -----------------------------
(***************************************************************************)
(* Three requests for two URLs, one of which contains the text "shortId",  *)
(* and so few ids that collisions happen.                                  *)
(***************************************************************************)
EXTENDS ShortUrl

=============================================================================
