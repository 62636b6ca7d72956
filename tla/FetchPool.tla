------------------------------ MODULE FetchPool ------------------------------
(***************************************************************************)
(* The bounded worker pool that fetches one Yahoo resource per item: a     *)
(* collector (the caller's goroutine), W workers, and two channels with a  *)
(* buffer of W each. acquireMatchupHistory (one item per fantasy week) and *)
(* LeagueRosters (one item per team) are the same algorithm.               *)
(*                                                                         *)
(* internal/app/sync.go                 acquireMatchupHistory              *)
(* internal/providers/yahoo_public.go   LeagueRosters                      *)
(***************************************************************************)
EXTENDS Integers, Sequences, FiniteSets

CONSTANTS
  N,            \* how many items there are: weeks so far, teams
  Limit         \* yahooSyncParallelLimit, yahooParallelLimit

ASSUME SizesAssumption == N \in Nat \ {0} /\ Limit \in Nat \ {0}

Items == 1..N
W == IF Limit < N THEN Limit ELSE N
Workers == 1..W
None == 0

VARIABLES
  at,           \* where the collector stands
  next,         \* the next item to schedule
  outstanding,  \* items scheduled and not yet collected
  kept,         \* items whose result the collector has kept
  firstErr,     \* the item whose error is returned, or None
  jobs,         \* channel of items, oldest first
  closed,       \* whether jobs is closed
  results,      \* channel of items fetched, oldest first
  failed,       \* items whose fetch returned an error
  stage,        \* where each worker stands
  hand          \* the item a worker has in hand

vars == <<at, next, outstanding, kept, firstErr, jobs, closed, results, failed,
          stage, hand>>
collectorVars == <<at, next, outstanding, kept, firstErr, closed>>
workerVars == <<stage, hand, failed>>

Init ==
  /\ at = "priming"
  /\ next = 1
  /\ outstanding = 0
  /\ kept = {}
  /\ firstErr = None
  /\ jobs = <<>>
  /\ closed = FALSE
  /\ results = <<>>
  /\ failed = {}
  /\ stage = [w \in Workers |-> "idle"]
  /\ hand = [w \in Workers |-> None]

(***************************************************************************)
(* The collector.                                                          *)
(***************************************************************************)

\* jobs <- next: blocks while the buffer is full.
Schedule ==
  /\ Len(jobs) < W
  /\ jobs' = Append(jobs, next)
  /\ next' = next + 1
  /\ outstanding' = outstanding + 1

\* Fault: priming schedules everything at once.
PrimeEverything == next <= N

MorePriming == outstanding < W /\ next <= N

Prime ==
  /\ at = "priming"
  /\ MorePriming
  /\ Schedule
  /\ UNCHANGED <<at, kept, firstErr, closed, results, workerVars>>

EndPriming ==
  /\ at = "priming"
  /\ ~MorePriming
  /\ at' = "collecting"
  /\ UNCHANGED <<next, outstanding, kept, firstErr, jobs, closed, results, workerVars>>

\* Fault: after an error the result is kept and its slot refilled as before.
CollectIgnoringError ==
  /\ at = "collecting"
  /\ outstanding > 0
  /\ results # <<>>
  /\ results' = Tail(results)
  /\ outstanding' = outstanding - 1
  /\ firstErr' = IF Head(results) \in failed THEN Head(results) ELSE firstErr
  /\ kept' = kept \cup {Head(results)}
  /\ at' = IF next <= N THEN "refilling" ELSE at
  /\ UNCHANGED <<next, jobs, closed, workerVars>>

\* Fault: the first error ends the loop with fetches still under way.
CollectUntilError ==
  /\ at = "collecting"
  /\ outstanding > 0
  /\ results # <<>>
  /\ results' = Tail(results)
  /\ IF Head(results) \in failed
       THEN outstanding' = 0 /\ firstErr' = Head(results) /\ UNCHANGED <<kept, at>>
       ELSE /\ outstanding' = outstanding - 1
            /\ kept' = kept \cup {Head(results)}
            /\ at' = IF next <= N THEN "refilling" ELSE at
            /\ UNCHANGED firstErr
  /\ UNCHANGED <<next, jobs, closed, workerVars>>

\* <-results. A result that comes after the first error is dropped: the loop
\* only drains what is under way.
Collect ==
  /\ at = "collecting"
  /\ outstanding > 0
  /\ results # <<>>
  /\ results' = Tail(results)
  /\ outstanding' = outstanding - 1
  /\ LET item == Head(results) IN
       IF firstErr # None
         THEN UNCHANGED <<at, kept, firstErr>>
         ELSE IF item \in failed
           THEN firstErr' = item /\ UNCHANGED <<at, kept>>
           ELSE /\ kept' = kept \cup {item}
                /\ at' = IF next <= N THEN "refilling" ELSE at
                /\ UNCHANGED firstErr
  /\ UNCHANGED <<next, jobs, closed, workerVars>>

Refill ==
  /\ at = "refilling"
  /\ Schedule
  /\ at' = "collecting"
  /\ UNCHANGED <<kept, firstErr, closed, results, workerVars>>

CloseJobs ==
  /\ at = "collecting"
  /\ outstanding = 0
  /\ closed' = TRUE
  /\ at' = "waiting"
  /\ UNCHANGED <<next, outstanding, kept, firstErr, jobs, results, workerVars>>

\* workers.Wait(), then the answer.
Return ==
  /\ at = "waiting"
  /\ \A w \in Workers : stage[w] = "gone"
  /\ at' = "returned"
  /\ UNCHANGED <<next, outstanding, kept, firstErr, jobs, closed, results, workerVars>>

(***************************************************************************)
(* The workers.                                                            *)
(***************************************************************************)
Take(w) ==
  /\ stage[w] = "idle"
  /\ jobs # <<>>
  /\ hand' = [hand EXCEPT ![w] = Head(jobs)]
  /\ jobs' = Tail(jobs)
  /\ stage' = [stage EXCEPT ![w] = "fetching"]
  /\ UNCHANGED <<collectorVars, results, failed>>

\* The fetch answers: an entry or an error.
Fetch(w) ==
  /\ stage[w] = "fetching"
  /\ stage' = [stage EXCEPT ![w] = "sending"]
  /\ failed' \in {failed, failed \cup {hand[w]}}
  /\ UNCHANGED <<collectorVars, jobs, results, hand>>

\* Fault: a fetch that fails ends its worker without a result.
SendUnlessFailed(w) ==
  /\ stage[w] = "sending"
  /\ IF hand[w] \in failed
       THEN stage' = [stage EXCEPT ![w] = "gone"] /\ UNCHANGED results
       ELSE /\ Len(results) < W
            /\ results' = Append(results, hand[w])
            /\ stage' = [stage EXCEPT ![w] = "idle"]
  /\ hand' = [hand EXCEPT ![w] = None]
  /\ UNCHANGED <<collectorVars, jobs, failed>>

\* results <- ...: blocks while the buffer is full.
Send(w) ==
  /\ stage[w] = "sending"
  /\ Len(results) < W
  /\ results' = Append(results, hand[w])
  /\ stage' = [stage EXCEPT ![w] = "idle"]
  /\ hand' = [hand EXCEPT ![w] = None]
  /\ UNCHANGED <<collectorVars, jobs, failed>>

\* The range over jobs ends when the channel is closed and empty.
Leave(w) ==
  /\ stage[w] = "idle"
  /\ closed /\ jobs = <<>>
  /\ stage' = [stage EXCEPT ![w] = "gone"]
  /\ UNCHANGED <<collectorVars, jobs, results, failed, hand>>

Collector ==
  Prime \/ EndPriming \/ Collect \/ Refill \/ CloseJobs \/ Return
Worker(w) == Take(w) \/ Fetch(w) \/ Send(w) \/ Leave(w)

Done == at = "returned" /\ UNCHANGED vars

Next == Collector \/ (\E w \in Workers : Worker(w)) \/ Done

Spec == Init /\ [][Next]_vars

\* The Go scheduler runs every goroutine that can run, and a fetch answers:
\* the transport gives every request a deadline.
FairSpec == Spec /\ WF_vars(Collector) /\ \A w \in Workers : WF_vars(Worker(w))

(***************************************************************************)
(* Properties                                                              *)
(***************************************************************************)
Busy == {w \in Workers : stage[w] \in {"fetching", "sending"}}

\* Every variable has its type.
TypeOK ==
  /\ at \in {"priming", "collecting", "refilling", "waiting", "returned"}
  /\ next \in 1..N + 1
  /\ outstanding \in 0..W
  /\ kept \subseteq Items
  /\ firstErr \in Items \cup {None}
  /\ jobs \in Seq(Items)
  /\ closed \in BOOLEAN
  /\ results \in Seq(Items)
  /\ failed \subseteq Items
  /\ stage \in [Workers -> {"idle", "fetching", "sending", "gone"}]
  /\ hand \in [Workers -> Items \cup {None}]

\* The collector's count is the truth: what it still waits for is queued, in a
\* worker's hands or waiting to be collected, and nothing is lost or doubled.
Conservation == outstanding = Len(jobs) + Cardinality(Busy) + Len(results)

\* No send ever blocks: when the collector has an item to schedule jobs has
\* room, and when a worker has a result to deliver results has room. So the
\* collector and the workers cannot wait on each other's full channels.
NoBlockedSend ==
  /\ (at = "priming" /\ MorePriming) \/ at = "refilling" => Len(jobs) < W
  /\ (\E w \in Workers : stage[w] = "sending") => Len(results) < W

\* The caller gets an answer for all items or an error, and when it does, no
\* request is under way behind its back.
CompleteOrError ==
  at = "returned" =>
    /\ firstErr = None => kept = Items /\ failed = {}
    /\ firstErr # None => firstErr \in failed /\ firstErr \notin kept
    /\ Busy = {} /\ jobs = <<>> /\ results = <<>>

\* The pool keeps the promise of ParallelFetch.
Answer == IF at # "returned" THEN "none" ELSE IF firstErr = None THEN "all" ELSE "error"
Abstract == INSTANCE ParallelFetch
              WITH acquired <- kept, answer <- Answer,
                   failure <- IF firstErr = None THEN {} ELSE {firstErr}
ImplementsParallelFetch == Abstract!Spec
==============================================================================
