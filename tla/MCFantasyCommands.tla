------------------------- MODULE MCFantasyCommands -------------------------
(***************************************************************************)
(* One league under its canonical key.                                     *)
(***************************************************************************)
EXTENDS FantasyCommands

CONSTANT l1

MCCanon == [n \in Names |-> n]
=============================================================================
