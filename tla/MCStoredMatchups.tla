--------------------------- MODULE MCStoredMatchups ---------------------------
(***************************************************************************)
(* A season of two weeks that is archived, then read with -S.              *)
(***************************************************************************)
EXTENDS StoredMatchups
==============================================================================
