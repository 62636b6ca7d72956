---------------------------- MODULE LocalDatabase ----------------------------
(***************************************************************************)
(* What skout promises about its local database, with no lock, no pc and   *)
(* no file family in sight: processes come and go, a process that needs    *)
(* the database brings it into being, and the database disappears only     *)
(* at a moment when no process is using it.                                *)
(* DatabaseGuard implements this specification.                            *)
(***************************************************************************)
CONSTANT Users      \* the processes that may hold a connection

VARIABLES
  users,            \* the processes that hold a connection now
  present           \* whether the primary database file exists

localVars == <<users, present>>

Init ==
  /\ users = {}
  /\ present \in BOOLEAN

\* A process connects; the database exists from then on.
Join(u) ==
  /\ u \in Users \ users
  /\ users' = users \cup {u}
  /\ present' = TRUE

\* One process, or a process and the synchronization it runs, disconnects.
Leave(S) ==
  /\ S # {}
  /\ users' = users \ S
  /\ UNCHANGED present

\* Reset: the database goes away, and only while nobody is connected.
Delete ==
  /\ users = {}
  /\ present
  /\ present' = FALSE
  /\ UNCHANGED users

Next ==
  \/ \E u \in Users : Join(u)
  \/ \E S \in SUBSET Users : Leave(S)
  \/ Delete

Spec == Init /\ [][Next]_localVars
==============================================================================
