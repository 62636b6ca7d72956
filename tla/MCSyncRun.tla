------------------------------ MODULE MCSyncRun ------------------------------
(***************************************************************************)
(* One league under its canonical key.                                     *)
(***************************************************************************)
EXTENDS SyncRun

CONSTANT l1

MCCanon == [n \in Names |-> n]
==============================================================================
