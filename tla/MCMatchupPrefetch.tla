-------------------------- MODULE MCMatchupPrefetch --------------------------
(***************************************************************************)
(* MatchupPrefetch with the three parts a matchup has in the code.         *)
(***************************************************************************)
EXTENDS MatchupPrefetch
==============================================================================
