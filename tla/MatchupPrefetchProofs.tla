------------------------ MODULE MatchupPrefetchProofs ------------------------
(***************************************************************************)
(* Two threads on one connection, for a matchup of any number of parts:    *)
(* every save is stored exactly if it returned nil, and an awaited odds    *)
(* goroutine is not left behind by Close. Inv is the inductive invariant.  *)
(***************************************************************************)
EXTENDS MatchupPrefetch, TLAPS

\* Before a part is through there is one left.
PartsLeft == at \in {"acquire", "save", "mark", "reuse"} => left >= 1

\* A thread within a transaction is where it wants one, and while the
\* connection is open that transaction is its own.
OwnTransaction ==
  \A t \in Threads : step[t] # "none" => Wants(t) /\ (conn = "open" => txn = t)

\* The open transaction holds what its thread has executed of it.
DirtyRow ==
  /\ txn = "none" => dirty = {}
  /\ \A t \in Threads :
       conn = "open" => /\ step[t] = "body" => dirty = {}
                        /\ step[t] = "commit" => dirty = {Row(t)}

\* The command closes the connection at its end, and nothing stays open in it.
ClosedAtEnd ==
  /\ conn # "open" => at \in {"close", "returned", "exited"} /\ txn = "none"
  /\ at \in {"returned", "exited"} => conn # "open"

\* Once the command is past the odds it has them, if the schedule arrived.
OddsAwaited ==
  /\ at = "odds" => schedule = "ok"
  /\ \/ at \in {"score", "rescore"}
     \/ at \in {"close", "returned", "exited"}
          /\ outcome \notin {"error", "local", "crash"}
     => schedule # "flying" /\ (schedule = "ok" => odds = "sent")

Inv ==
  /\ TypeOK
  /\ PartsLeft
  /\ OwnTransaction
  /\ DirtyRow
  /\ ClosedAtEnd
  /\ OddsAwaited
  /\ SaveIsAtomic

\* What a thread saves has the type of a row.
LEMMA RowType == ASSUME TypeOK, NEW t \in Threads, Wants(t) PROVE Row(t) \in Rows
BY DEF TypeOK, Threads, Wants, Row, Rows, Writing

\* The invariant holds before the command begins.
LEMMA InitInv == Init => Inv
<1> SUFFICES ASSUME Init PROVE Inv OBVIOUS
<1> USE PartsAssumption DEF Init
<1>1. TypeOK
  <2>1. step \in [Threads -> {"none", "body", "commit", "rollback"}] OBVIOUS
  <2>2. left \in 0..Parts OBVIOUS
  <2> QED BY <2>1, <2>2 DEF TypeOK
<1>2. PartsLeft BY DEF PartsLeft
<1>3. OwnTransaction BY DEF OwnTransaction
<1>4. DirtyRow BY DEF DirtyRow
<1>5. ClosedAtEnd BY DEF ClosedAtEnd
<1>6. OddsAwaited BY DEF OddsAwaited
<1>7. SaveIsAtomic BY DEF SaveIsAtomic
<1> QED BY <1>1, <1>2, <1>3, <1>4, <1>5, <1>6, <1>7 DEF Inv

\* Begin: granted, the transaction is the thread's and still empty; refused,
\* nothing has been written and the other thread's transaction stands.
LEMMA BeginInv == ASSUME Inv, NEW t \in Threads, Begin(t) PROVE Inv'
<1> USE PartsAssumption DEF Inv, Begin, Pause, Continue, AfterPart, kindVars, Threads
<1>1. TypeOK' BY DEF TypeOK, PartsLeft, Wants, Writing
<1>2. PartsLeft' BY DEF TypeOK, PartsLeft, Wants, Writing
<1>3. OwnTransaction' BY DEF TypeOK, OwnTransaction, Wants, Writing
<1>4. DirtyRow' BY DEF TypeOK, OwnTransaction, DirtyRow, Row, Wants, Writing
<1>5. ClosedAtEnd' BY DEF TypeOK, ClosedAtEnd, Wants, Writing
<1>6. OddsAwaited' BY DEF TypeOK, OddsAwaited, Wants, Writing
<1>7. SaveIsAtomic' BY DEF SaveIsAtomic
<1> QED BY <1>1, <1>2, <1>3, <1>4, <1>5, <1>6, <1>7

\* Body: with the connection open the row joins the thread's own transaction.
LEMMA BodyInv == ASSUME Inv, NEW t \in Threads, Body(t) PROVE Inv'
<1> USE DEF Inv, Body, Pause, kindVars, Threads
<1>1. TypeOK' BY RowType DEF TypeOK, OwnTransaction
<1>2. PartsLeft' BY DEF PartsLeft
<1>3. OwnTransaction' BY DEF TypeOK, OwnTransaction, Wants
<1>4. DirtyRow' BY DEF TypeOK, OwnTransaction, DirtyRow, Row
<1>5. ClosedAtEnd' BY DEF ClosedAtEnd
<1>6. OddsAwaited' BY DEF OddsAwaited
<1>7. SaveIsAtomic' BY DEF SaveIsAtomic, OwnTransaction
<1> QED BY <1>1, <1>2, <1>3, <1>4, <1>5, <1>6, <1>7

\* Commit: exactly the thread's row becomes stored, and is acknowledged.
LEMMA CommitInv == ASSUME Inv, NEW t \in Threads, Commit(t) PROVE Inv'
<1> USE PartsAssumption DEF Inv, Commit, Pause, Continue, AfterPart, kindVars, Threads
<1>0. Wants(t) /\ Row(t) \in Rows BY RowType DEF OwnTransaction
<1>1. TypeOK' BY <1>0 DEF TypeOK, PartsLeft, Wants, Writing
<1>2. PartsLeft' BY <1>0 DEF TypeOK, PartsLeft, Wants, Writing
<1>3. OwnTransaction' BY <1>0 DEF TypeOK, OwnTransaction, Wants, Writing
<1>4. DirtyRow' BY <1>0 DEF TypeOK, OwnTransaction, DirtyRow, Row, Wants, Writing
<1>5. ClosedAtEnd' BY <1>0 DEF TypeOK, ClosedAtEnd, Wants, Writing
<1>6. OddsAwaited' BY <1>0 DEF TypeOK, OddsAwaited, Wants, Writing
<1>7. SaveIsAtomic' BY DEF SaveIsAtomic, OwnTransaction, DirtyRow
<1> QED BY <1>1, <1>2, <1>3, <1>4, <1>5, <1>6, <1>7

\* Rollback: the thread's own transaction goes, and nothing else.
LEMMA RollbackInv == ASSUME Inv, NEW t \in Threads, Rollback(t) PROVE Inv'
<1> USE PartsAssumption DEF Inv, Rollback, Continue, AfterPart, kindVars, Threads
<1>0. Wants(t) BY DEF OwnTransaction
<1>1. TypeOK' BY <1>0 DEF TypeOK, PartsLeft, Wants, Writing
<1>2. PartsLeft' BY <1>0 DEF TypeOK, PartsLeft, Wants, Writing
<1>3. OwnTransaction' BY <1>0 DEF TypeOK, OwnTransaction, Wants, Writing
<1>4. DirtyRow' BY <1>0 DEF TypeOK, OwnTransaction, DirtyRow, Row, Wants, Writing
<1>5. ClosedAtEnd' BY <1>0 DEF TypeOK, ClosedAtEnd, Wants, Writing
<1>6. OddsAwaited' BY <1>0 DEF TypeOK, OddsAwaited, Wants, Writing
<1>7. SaveIsAtomic' BY DEF SaveIsAtomic
<1> QED BY <1>1, <1>2, <1>3, <1>4, <1>5, <1>6, <1>7

\* A failing statement leaves the transaction to its rollback.
LEMMA StatementFailsInv == ASSUME Inv, NEW t \in Threads, StatementFails(t) PROVE Inv'
<1> USE PartsAssumption DEF Inv, StatementFails, Pause, Continue, AfterPart, kindVars, Threads
<1>0. Wants(t) BY DEF OwnTransaction
<1>1. TypeOK' BY <1>0 DEF TypeOK, PartsLeft, Wants, Writing
<1>2. PartsLeft' BY <1>0 DEF TypeOK, PartsLeft, Wants, Writing
<1>3. OwnTransaction' BY <1>0 DEF TypeOK, OwnTransaction, Wants, Writing
<1>4. DirtyRow' BY <1>0 DEF TypeOK, OwnTransaction, DirtyRow, Row, Wants, Writing
<1>5. ClosedAtEnd' BY <1>0 DEF TypeOK, ClosedAtEnd, Wants, Writing
<1>6. OddsAwaited' BY <1>0 DEF TypeOK, OddsAwaited, Wants, Writing
<1>7. SaveIsAtomic' BY DEF SaveIsAtomic
<1> QED BY <1>1, <1>2, <1>3, <1>4, <1>5, <1>6, <1>7

\* The process ends; the database is as it was.
LEMMA PanicInv == ASSUME Inv, Panic PROVE Inv'
<1> USE DEF Inv, Panic, kindVars, dbVars, Threads
<1>1. TypeOK' BY DEF TypeOK, PartsLeft, Wants, Writing
<1>2. PartsLeft' BY DEF TypeOK, PartsLeft, Writing
<1>3. OwnTransaction' BY DEF TypeOK, OwnTransaction, Wants, Writing
<1>4. DirtyRow' BY DEF TypeOK, OwnTransaction, DirtyRow, Row, Wants, Writing
<1>5. ClosedAtEnd' BY DEF TypeOK, ClosedAtEnd
<1>6. OddsAwaited' BY DEF TypeOK, OddsAwaited
<1>7. SaveIsAtomic' BY DEF SaveIsAtomic
<1> QED BY <1>1, <1>2, <1>3, <1>4, <1>5, <1>6, <1>7

\* The goroutines touch neither the connection nor what is stored.
LEMMA GoroutineInv == ASSUME Inv, ScheduleArrives \/ OddsArrive PROVE Inv'
<1> USE DEF Inv, ScheduleArrives, OddsArrive, kindVars, dbVars, Threads
<1>1. TypeOK' BY DEF TypeOK, PartsLeft, Wants, Writing
<1>2. PartsLeft' BY DEF TypeOK, PartsLeft, Writing
<1>3. OwnTransaction' BY DEF TypeOK, OwnTransaction, Wants, Writing
<1>4. DirtyRow' BY DEF TypeOK, OwnTransaction, DirtyRow, Row, Wants, Writing
<1>5. ClosedAtEnd' BY DEF TypeOK, ClosedAtEnd
<1>6. OddsAwaited' BY DEF TypeOK, OddsAwaited
<1>7. SaveIsAtomic' BY DEF SaveIsAtomic
<1> QED BY <1>1, <1>2, <1>3, <1>4, <1>5, <1>6, <1>7

\* Acquiring moves on between transactions.
LEMMA AcquireInv == ASSUME Inv, Acquire PROVE Inv'
<1> USE PartsAssumption DEF Inv, Acquire, Reused, PartReused, YahooAnswers, FeedFails, PartFails, StalePart, Go,
            AfterPart, kindVars, dbVars, Threads
<1>1. TypeOK'
  <2> USE DEF TypeOK, PartsLeft, Writing
  <2>1. left' \in 0..Parts OBVIOUS
  <2>2. outcome' \in {"none", "view", "local", "error", "crash"} /\ fault' \in BOOLEAN OBVIOUS
  <2>3. UNCHANGED <<kindVars, dbVars, conn, schedule, odds>> OBVIOUS
  <2>4. at' \in {"daily", "save", "acquire", "mark", "close"} OBVIOUS
  <2> QED BY <2>1, <2>2, <2>3, <2>4
<1>2. PartsLeft' BY DEF TypeOK, PartsLeft, Writing
<1>3. OwnTransaction' BY DEF TypeOK, OwnTransaction, Wants, Writing
<1>4. DirtyRow' BY DEF TypeOK, OwnTransaction, DirtyRow, Row, Wants, Writing
<1>5. ClosedAtEnd' BY DEF TypeOK, ClosedAtEnd
<1>6. OddsAwaited' BY DEF TypeOK, OddsAwaited
<1>7. SaveIsAtomic' BY DEF SaveIsAtomic
<1> QED BY <1>1, <1>2, <1>3, <1>4, <1>5, <1>6, <1>7

\* The overlay and the waits move on between transactions.
LEMMA EnrichInv == ASSUME Inv, Overlay \/ WaitSchedule \/ WaitOdds \/ Score \/ Exit PROVE Inv'
<1> USE DEF Inv, Overlay, WaitSchedule, WaitOdds, Score, Exit, Go, kindVars, dbVars, Threads
<1>1. TypeOK' BY DEF TypeOK, PartsLeft, Wants, Writing
<1>2. PartsLeft' BY DEF TypeOK, PartsLeft, Writing
<1>3. OwnTransaction' BY DEF TypeOK, OwnTransaction, Wants, Writing
<1>4. DirtyRow' BY DEF TypeOK, OwnTransaction, DirtyRow, Row, Wants, Writing
<1>5. ClosedAtEnd' BY DEF TypeOK, ClosedAtEnd
<1>6. OddsAwaited' BY DEF TypeOK, OddsAwaited
<1>7. SaveIsAtomic' BY DEF SaveIsAtomic
<1> QED BY <1>1, <1>2, <1>3, <1>4, <1>5, <1>6, <1>7

\* Close rolls back what is open, which is nobody's saved row.
LEMMA CloseInv == ASSUME Inv, Close PROVE Inv'
<1> USE DEF Inv, Close, kindVars, Threads
<1>1. TypeOK' BY DEF TypeOK, PartsLeft, Wants, Writing
<1>2. PartsLeft' BY DEF TypeOK, PartsLeft, Writing
<1>3. OwnTransaction' BY DEF TypeOK, OwnTransaction, Wants, Writing
<1>4. DirtyRow' BY DEF TypeOK, OwnTransaction, DirtyRow, Row, Wants, Writing
<1>5. ClosedAtEnd' BY DEF TypeOK, ClosedAtEnd
<1>6. OddsAwaited' BY DEF TypeOK, OddsAwaited
<1>7. SaveIsAtomic' BY DEF SaveIsAtomic
<1> QED BY <1>1, <1>2, <1>3, <1>4, <1>5, <1>6, <1>7

\* Every step keeps it: of a thread that saves, of the command, and the end of the process.
LEMMA NextInv == ASSUME Inv, [Next]_vars PROVE Inv'
<1>1. CASE UNCHANGED vars
  BY <1>1 DEF vars, Inv, TypeOK, PartsLeft, OwnTransaction, DirtyRow, ClosedAtEnd,
              OddsAwaited, SaveIsAtomic, Wants, Row
<1>2. ASSUME NEW t \in Threads, Save(t) PROVE Inv'
  BY <1>2, BeginInv, BodyInv, CommitInv, RollbackInv, StatementFailsInv DEF Save
<1>3. "main" \in Threads /\ "odds" \in Threads BY DEF Threads
<1>4. CASE Running
  BY <1>2, <1>3, <1>4, PanicInv, GoroutineInv, AcquireInv, EnrichInv, CloseInv DEF Running, Command
<1> QED BY <1>1, <1>4 DEF Next, Exited

\* The invariant holds in every behaviour.
THEOREM Invariance == Spec => []Inv
BY InitInv, NextInv, PTL DEF Spec

\* Every variable keeps its type, whatever the number of parts.
THEOREM TypeCorrect == Spec => []TypeOK
<1>1. Inv => TypeOK BY DEF Inv
<1> QED BY <1>1, Invariance, PTL

\* On the shared connection a save is stored exactly if it returned nil:
\* neither thread ever commits or rolls back a row of the other.
THEOREM Atomicity == Spec => []SaveIsAtomic
<1>1. Inv => SaveIsAtomic BY DEF Inv
<1> QED BY <1>1, Invariance, PTL

\* The store is closed under the odds goroutine only if the command ended in
\* an error, with the local roster, or without a schedule.
THEOREM OddsBeforeClose == Spec => []CloseAfterOdds
<1>1. Inv => CloseAfterOdds BY DEF Inv, ClosedAtEnd, OddsAwaited, CloseAfterOdds
<1> QED BY <1>1, Invariance, PTL
==============================================================================
