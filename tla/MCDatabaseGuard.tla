--------------------------- MODULE MCDatabaseGuard ---------------------------
(***************************************************************************)
(* One fantasy command with the synchronization it may run, one            *)
(* synchronization of its own, one status command and up to two resets.    *)
(***************************************************************************)
EXTENDS DatabaseGuard, TLC

CONSTANTS c1, s0, s1, i1, r1, r2

MCParent == [s \in Syncs |-> IF s = s1 THEN c1 ELSE Nobody]
Symmetry == Permutations({r1, r2})
==============================================================================
