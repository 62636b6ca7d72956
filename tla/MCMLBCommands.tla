---------------------------- MODULE MCMLBCommands ----------------------------
(***************************************************************************)
(* Two commands of any kind, one club, no date after today; every dataset  *)
(* is fresh for the tick it was saved in.                                  *)
(***************************************************************************)
EXTENDS MLBCommands, TLC

CONSTANTS p1, p2, a

MCSymmetry == Permutations({p1, p2})
MCClubs == <<a>>
MCFutureDates == <<>>
MCTTL == [i \in Datasets |-> 1]
==============================================================================
