--------------------------- MODULE MatchupPrefetch ---------------------------
(***************************************************************************)
(* One matchup command. Two goroutines fetch the schedule and the odds     *)
(* while the command itself acquires and saves Yahoo's matchup. The odds   *)
(* goroutine saves what it fetched, on the command's own connection; the   *)
(* command waits for its answer only if the schedule arrived, and closes   *)
(* the store at its end in any case.                                       *)
(*                                                                         *)
(* internal/app/matchup.go    startPrefetch, acquire, enrichView, Matchup  *)
(* internal/store/store.go    immediate and Close, on the one connection   *)
(*                                                                         *)
(* database/sql lets one statement at a time onto the connection; nothing  *)
(* keeps the statements of two transactions apart.                         *)
(***************************************************************************)
EXTENDS Integers

CONSTANT Parts   \* snapshots a matchup consists of: the pairing, two rosters

ASSUME PartsAssumption == Parts \in Nat \ {0}

Threads == {"main", "odds"}

VARIABLES
  period,     \* the current period comes in one feed, another part by part
  daily,      \* does the view show one day
  at,         \* where the command stands
  left,       \* parts it has still to acquire
  step,       \* step[t]: the statement of its transaction that t is at
  txn,        \* who began the transaction that the connection is in
  conn,       \* the connection: open, closed, or cleared from the store
  dirty,      \* rows of the open transaction
  stored,     \* rows committed
  acked,      \* rows whose save returned nil
  schedule,   \* the schedule goroutine and its channel
  odds,       \* the odds goroutine and its channel
  fault,      \* did a provider, the overlay or a statement fail by itself
  outcome     \* what the user gets

vars == <<period, daily, at, left, step, txn, conn, dirty, stored, acked, schedule,
          odds, fault, outcome>>
dbVars == <<step, txn, dirty, stored, acked>>
kindVars == <<period, daily>>

\* Odds within the reuse window are in the channel at once.
Init ==
  /\ period \in {"current", "week"} /\ daily \in BOOLEAN
  /\ at = "acquire" /\ left = Parts
  /\ step = [t \in Threads |-> "none"] /\ txn = "none" /\ conn = "open"
  /\ dirty = {} /\ stored = {} /\ acked = {}
  /\ schedule = "flying" /\ odds \in {"flying", "sent"}
  /\ fault = FALSE /\ outcome = "none"

-----------------------------------------------------------------------------
(***************************************************************************)
(* store.immediate: BEGIN IMMEDIATE, the statement, COMMIT or ROLLBACK.    *)
(***************************************************************************)
Writing == {"save", "mark", "overlay", "rescore"}

Wants(t) == IF t = "odds" THEN odds = "saving" ELSE at \in Writing

Row(t) == IF t = "odds" THEN <<"odds", 0>> ELSE <<at, left>>

AfterPart == IF left = 1 THEN "daily" ELSE IF period = "current" THEN "save" ELSE "acquire"

\* What a thread does with the result of its save: only the error of a part
\* that was acquired counts.
Continue(t, saved) ==
  /\ step' = [step EXCEPT ![t] = "none"]
  /\ acked' = IF saved THEN acked \cup {Row(t)} ELSE acked
  /\ \/ t = "odds" /\ odds' = "sent" /\ UNCHANGED <<left, outcome, at>>
     \/ t = "main" /\ UNCHANGED odds
        /\ \/ at = "save" /\ saved
              /\ left' = left - 1 /\ at' = AfterPart /\ UNCHANGED outcome
           \/ at = "save" /\ ~saved
              /\ at' = "close" /\ outcome' = "error" /\ UNCHANGED left
           \/ at = "mark" /\ at' = "reuse" /\ UNCHANGED <<left, outcome>>
           \/ at = "overlay" /\ at' = "schedule" /\ UNCHANGED <<left, outcome>>
           \/ at = "rescore" /\ at' = "close" /\ outcome' = "view" /\ UNCHANGED left

Pause == UNCHANGED <<acked, odds, left, outcome, at>>

\* Fault: a failing BEGIN is rolled back, like a failing statement.
BeginOrRollback(t) ==
  /\ Wants(t) /\ step[t] = "none" /\ conn # "nil"
  /\ UNCHANGED <<kindVars, conn, stored, schedule, fault>>
  /\ IF conn = "open" /\ txn = "none"
       THEN txn' = t /\ step' = [step EXCEPT ![t] = "body"] /\ UNCHANGED dirty /\ Pause
       ELSE txn' = "none" /\ dirty' = {} /\ Continue(t, FALSE)

\* Fault: the error of BEGIN is not looked at.
BeginUnchecked(t) ==
  /\ Wants(t) /\ step[t] = "none" /\ conn # "nil"
  /\ txn' = IF conn = "open" /\ txn = "none" THEN t ELSE txn
  /\ step' = [step EXCEPT ![t] = "body"]
  /\ Pause
  /\ UNCHANGED <<kindVars, conn, dirty, stored, schedule, fault>>

\* A transaction within a transaction is refused, and so is any on a closed
\* connection. Nothing is rolled back then.
Begin(t) ==
  /\ Wants(t) /\ step[t] = "none" /\ conn # "nil"
  /\ UNCHANGED <<kindVars, conn, dirty, stored, schedule, fault>>
  /\ IF conn = "open" /\ txn = "none"
       THEN txn' = t /\ step' = [step EXCEPT ![t] = "body"] /\ Pause
       ELSE Continue(t, FALSE) /\ UNCHANGED txn

\* A statement outside of any transaction commits by itself.
Body(t) ==
  /\ step[t] = "body" /\ conn # "nil"
  /\ step' = [step EXCEPT ![t] = IF conn = "open" THEN "commit" ELSE "rollback"]
  /\ dirty' = IF conn = "open" /\ txn # "none" THEN dirty \cup {Row(t)} ELSE dirty
  /\ stored' = IF conn = "open" /\ txn = "none" THEN stored \cup {Row(t)} ELSE stored
  /\ Pause
  /\ UNCHANGED <<kindVars, conn, txn, schedule, fault>>

Commit(t) ==
  /\ step[t] = "commit" /\ conn # "nil"
  /\ UNCHANGED <<kindVars, conn, schedule, fault>>
  /\ IF conn = "open" /\ txn # "none"
       THEN txn' = "none" /\ dirty' = {} /\ stored' = stored \cup dirty /\ Continue(t, TRUE)
       ELSE step' = [step EXCEPT ![t] = "rollback"] /\ UNCHANGED <<txn, dirty, stored>> /\ Pause

Rollback(t) ==
  /\ step[t] = "rollback" /\ conn # "nil"
  /\ txn' = IF conn = "open" THEN "none" ELSE txn
  /\ dirty' = IF conn = "open" THEN {} ELSE dirty
  /\ Continue(t, FALSE)
  /\ UNCHANGED <<kindVars, conn, stored, schedule, fault>>

\* BEGIN, the statement or COMMIT fails by itself: another process, the disk.
StatementFails(t) ==
  /\ conn = "open" /\ fault' = TRUE
  /\ UNCHANGED <<kindVars, conn, txn, dirty, stored, schedule>>
  /\ \/ Wants(t) /\ step[t] = "none" /\ txn = "none" /\ Continue(t, FALSE)
     \/ step[t] \in {"body", "commit"} /\ step' = [step EXCEPT ![t] = "rollback"] /\ Pause

\* A statement through the connection that Close has cleared: the goroutine
\* panics, and with it the process.
Panic ==
  /\ odds = "saving" /\ conn = "nil" /\ at = "returned"
  /\ at' = "exited" /\ outcome' = "crash"
  /\ UNCHANGED <<kindVars, left, dbVars, conn, schedule, odds, fault>>

Save(t) == Begin(t) \/ Body(t) \/ Commit(t) \/ Rollback(t) \/ StatementFails(t)
-----------------------------------------------------------------------------
(***************************************************************************)
(* The two goroutines. A channel holds the one answer it is sent.          *)
(***************************************************************************)
ScheduleArrives ==
  /\ schedule = "flying" /\ \E answer \in {"ok", "failed"} : schedule' = answer
  /\ UNCHANGED <<kindVars, at, left, dbVars, conn, odds, fault, outcome>>

\* Fault: the goroutine returns without an answer when the provider failed.
OddsUnsent ==
  /\ odds = "flying" /\ odds' \in {"saving", "gone"}
  /\ UNCHANGED <<kindVars, at, left, dbVars, conn, schedule, fault, outcome>>

\* Odds that arrived are saved before they are sent.
OddsArrive ==
  /\ odds = "flying" /\ odds' \in {"saving", "sent"}
  /\ UNCHANGED <<kindVars, at, left, dbVars, conn, schedule, fault, outcome>>
-----------------------------------------------------------------------------
(***************************************************************************)
(* The command: acquire.                                                   *)
(***************************************************************************)
Go(from, to) ==
  /\ at = from /\ at' = to
  /\ UNCHANGED <<kindVars, dbVars, conn, schedule, odds>>

\* A current matchup within the reuse window is served as it is stored.
Reused == Go("acquire", "daily") /\ period = "current" /\ UNCHANGED <<left, fault, outcome>>

\* A stored part is served as it is.
PartReused ==
  /\ Go("acquire", AfterPart) /\ period = "week"
  /\ left' = left - 1 /\ UNCHANGED <<fault, outcome>>

YahooAnswers == Go("acquire", "save") /\ UNCHANGED <<left, fault, outcome>>

\* Without the feed what is stored is served, or the local roster, or nothing.
FeedFails ==
  /\ period = "current" /\ fault' = TRUE /\ UNCHANGED left
  /\ \/ Go("acquire", "daily") /\ UNCHANGED outcome
     \/ Go("acquire", "close") /\ outcome' \in {"local", "error"}

PartFails == Go("acquire", "mark") /\ period = "week" /\ fault' = TRUE /\ UNCHANGED <<left, outcome>>

StalePart ==
  \/ Go("reuse", AfterPart) /\ left' = left - 1 /\ UNCHANGED <<fault, outcome>>
  \/ Go("reuse", "close") /\ outcome' \in {"local", "error"} /\ UNCHANGED <<left, fault>>

Acquire == Reused \/ PartReused \/ YahooAnswers \/ FeedFails \/ PartFails \/ StalePart
-----------------------------------------------------------------------------
(***************************************************************************)
(* enrichView and the end of the command.                                  *)
(***************************************************************************)
Overlay ==
  \/ Go("daily", "schedule") /\ UNCHANGED <<left, fault, outcome>>
  \/ Go("daily", "overlay") /\ daily /\ UNCHANGED <<left, fault, outcome>>
  \/ Go("daily", "close") /\ daily /\ fault' = TRUE /\ outcome' = "error" /\ UNCHANGED left

\* Fault: the odds are not waited for.
PassSchedule ==
  /\ schedule # "flying" /\ Go("schedule", "score")
  /\ UNCHANGED <<left, fault, outcome>>

WaitSchedule ==
  /\ UNCHANGED <<left, fault, outcome>>
  /\ \/ schedule = "ok" /\ Go("schedule", "odds")
     \/ schedule = "failed" /\ Go("schedule", "score")

WaitOdds == odds = "sent" /\ Go("odds", "score") /\ UNCHANGED <<left, fault, outcome>>

\* The pairing of a current view is overlaid by that of the week, which may
\* have to be fetched and saved, or marked stale.
Score ==
  /\ UNCHANGED left
  /\ \/ Go("score", "close") /\ outcome' = "view" /\ UNCHANGED fault
     \/ Go("score", "rescore") /\ period = "current" /\ fault' \in {fault, TRUE} /\ UNCHANGED outcome

\* Close: the connection goes first, and an open transaction with it; then
\* the store forgets the connection.
Close ==
  /\ UNCHANGED <<kindVars, left, stored, acked, step, schedule, odds, fault, outcome>>
  /\ \/ at = "close" /\ conn = "open" /\ conn' = "closed"
        /\ txn' = "none" /\ dirty' = {} /\ UNCHANGED at
     \/ at = "close" /\ conn = "closed" /\ conn' = "nil"
        /\ at' = "returned" /\ UNCHANGED <<txn, dirty>>

Exit == Go("returned", "exited") /\ UNCHANGED <<left, fault, outcome>>

Exited == at = "exited" /\ UNCHANGED vars

Command == Acquire \/ Overlay \/ WaitSchedule \/ WaitOdds \/ Score \/ Close \/ Exit \/ Save("main")
Running == at # "exited" /\ (Command \/ ScheduleArrives \/ OddsArrive \/ Save("odds") \/ Panic)

Next == Running \/ Exited

Spec == Init /\ [][Next]_vars

\* The providers' clients have timeouts, so every goroutine moves on.
Fairness ==
  /\ WF_vars(at # "exited" /\ Command) /\ WF_vars(at # "exited" /\ ScheduleArrives)
  /\ WF_vars(at # "exited" /\ OddsArrive) /\ WF_vars(at # "exited" /\ Save("odds"))

FairSpec == Spec /\ Fairness
-----------------------------------------------------------------------------
Rows == {<<"odds", 0>>} \cup (Writing \X (0..Parts))

\* The type of every variable.
TypeOK ==
  /\ period \in {"current", "week"} /\ daily \in BOOLEAN /\ left \in 0..Parts
  /\ at \in Writing \cup {"acquire", "reuse", "daily", "schedule", "odds", "score",
                          "close", "returned", "exited"}
  /\ step \in [Threads -> {"none", "body", "commit", "rollback"}]
  /\ txn \in Threads \cup {"none"} /\ conn \in {"open", "closed", "nil"}
  /\ dirty \subseteq Rows /\ stored \subseteq Rows /\ acked \subseteq Rows
  /\ schedule \in {"flying", "ok", "failed"} /\ odds \in {"flying", "saving", "sent"}
  /\ fault \in BOOLEAN /\ outcome \in {"none", "view", "local", "error", "crash"}

\* A save is stored exactly if it returned nil, though the two threads'
\* statements mix on one connection: neither commits, nor rolls back, a row
\* of the other (store.go immediate; matchup.go saveOddsSnapshot).
SaveIsAtomic == stored = acked

\* The store is closed under a goroutine that still saves only when the
\* command gave up before it looked at the odds: an error, the local roster,
\* or no schedule (matchup.go enrichView).
CloseAfterOdds ==
  conn # "open" /\ odds # "sent" => schedule # "ok" \/ outcome \in {"error", "local", "crash"}

\* The command ends, whatever the providers answer and however the goroutines
\* are scheduled.
CommandExits == <>(at = "exited")

\* A command for which every provider and every statement did its work prints
\* a view (matchup_test.go, the first render of the reuse test).
HealthyMatchupRenders == outcome = "error" => fault
==============================================================================
