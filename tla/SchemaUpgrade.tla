---------------------------- MODULE SchemaUpgrade ----------------------------
(***************************************************************************)
(* What opening a database promises about its schema, with no process, no  *)
(* lock and no step in sight: the schema is the one the database came      *)
(* with, until one atomic upgrade makes it current; the dashboard row      *)
(* outlives the upgrade, is written only under the current schema and is    *)
(* never blank again; a database that is not skout's is never touched.     *)
(* Migration implements this specification.                                *)
(***************************************************************************)
CONSTANTS
  Values,        \* what the dashboard row may hold
  Blank,         \* the row as it is created
  Sources,       \* the schema states that can be upgraded
  Current        \* the current one

VARIABLES
  schema,        \* the state of the schema
  dashboard      \* the dashboard row, Blank while there is none

Upgrade ==
  /\ schema # Current /\ schema' = Current
  /\ schema \in Sources
  /\ UNCHANGED dashboard

Use ==
  /\ schema = Current
  /\ dashboard' \in Values \ {Blank}
  /\ UNCHANGED schema

Next == Use \/ Upgrade

Spec == [][Next]_<<schema, dashboard>>
=============================================================================
