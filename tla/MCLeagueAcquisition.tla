------------------------- MODULE MCLeagueAcquisition -------------------------
(***************************************************************************)
(* Three teams on two workers, six players and pages of one: a team left   *)
(* without players, two transactions in any order, and more free agents    *)
(* than the pages allow happen.                                            *)
(***************************************************************************)
EXTENDS LeagueAcquisition

MCOwners == {<<1, 0, 2, 0, 0, 3>>, <<0, 1, 2, 0, 3, 1>>, <<0, 1, 0, 2, 1, 1>>}
==============================================================================
