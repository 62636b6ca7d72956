------------------------------ MODULE MCLiveness ------------------------------
(***************************************************************************)
(* What must end: the processes at the two locks, with one reset beside a  *)
(* command that may run a synchronization, a synchronization by hand and a *)
(* status command; in other behaviours, a matchup command of three parts   *)
(* with its goroutines; in others, two synchronizations of one league with *)
(* a reconciling and a historical step. The three share nothing, and the   *)
(* parts that do not move have ended.                                      *)
(***************************************************************************)
EXTENDS MatchupPrefetch, TLC

CONSTANTS Nobody, None, l1

VARIABLES
  part,                                                       \* the part that moves
  pc, mode, syncLock, files, needed, pending, removed, report, \* DatabaseGuard
  now, lapsed, finished, config, status, success, data, final, \* SyncRun
  archived, manifest, runs, board, place, job

Guard == INSTANCE DatabaseGuard WITH
  Commands <- {"c1"}, Syncs <- {"s0", "s1"}, Inspectors <- {"i1"}, Resets <- {"r1"},
  Parent <- ("s0" :> Nobody) @@ ("s1" :> "c1")

Sync == INSTANCE SyncRun WITH
  at <- place, Keys <- {l1}, Names <- {l1}, Canon <- l1 :> l1, Owners <- {"c1"},
  K <- 2, Reconciling <- {1}, Historical <- {2}, SyncTTL <- 0, FailureLimit <- 2,
  Ending <- {}, MaxTime <- 0, MaxRuns <- 2

guardVars == <<pc, mode, syncLock, files, needed, pending, removed, report>>
syncVars == <<now, lapsed, finished, config, status, success, data, final, archived,
              manifest, runs, board, place, job>>

\* A matchup command that has ended.
NoMatchup ==
  /\ period = "week" /\ daily = FALSE /\ at = "exited" /\ left = Parts
  /\ step = [t \in Threads |-> "none"] /\ txn = "none" /\ conn = "nil"
  /\ dirty = {} /\ stored = {} /\ acked = {}
  /\ schedule = "failed" /\ odds = "sent" /\ fault = FALSE /\ outcome = "view"

LiveInit ==
  /\ part \in {"guard", "matchup", "sync"}
  /\ IF part = "matchup" THEN Init ELSE NoMatchup
  /\ Guard!Init /\ (part # "guard" => files = {})
  /\ Sync!Init

LiveNext ==
  /\ UNCHANGED part
  /\ \/ part = "guard" /\ Guard!Next /\ UNCHANGED <<vars, syncVars>>
     \/ part = "matchup" /\ Next /\ UNCHANGED <<guardVars, syncVars>>
     \/ part = "sync" /\ Sync!Next /\ UNCHANGED <<vars, guardVars>>

LiveSpec ==
  /\ LiveInit /\ [][LiveNext]_<<part, vars, guardVars, syncVars>>
  /\ Guard!Fairness /\ Fairness /\ Sync!Fairness

\* A reset the user confirmed comes to an end, granted or refused.
ConfirmedResetEnds == Guard!ConfirmedResetEnds

\* Every path, the failing ones included, gives the operation lock back.
GuardIsReturned == Guard!GuardIsReturned

\* A synchronization comes to an end: every outcome of an item moves on to the next.
SyncEnds == Sync!SyncEnds
==============================================================================
