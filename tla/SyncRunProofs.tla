---------------------------- MODULE SyncRunProofs ----------------------------
(***************************************************************************)
(* What a synchronization guarantees for any number of leagues, provider   *)
(* steps and runs, wherever it dies: fresh items vouch for stored data,    *)
(* archived seasons are stored ones and stay frozen, complete seasons have *)
(* their rows, and what runs report is what came of them.                  *)
(*                                                                         *)
(* JobOK says what the locals are at each line of the synchronization; the *)
(* other invariants are inductive beside it.                               *)
(***************************************************************************)
EXTENDS SyncRun, SequenceTheorems, FiniteSetTheorems, TLAPS

\* Before the run's row is there.
Early == {"idle", "config", "start"}

\* While an item has its turn, and while it is acquired and stored.
AtItem == {"item", "acquire", "replace", "archive", "save", "settle", "mark"}
Handling == AtItem \ {"item"}

RunStatus == {"running", "complete", "failed"}

Jobs == [owner : Owners \cup {Nobody}, asked : Names \cup {None},
         league : Keys \cup {None}, over : BOOLEAN, past : BOOLEAN,
         run : Nat, pos : Nat, won : Nat]

\* The locals of the synchronization follow from where it stands.
JobOK ==
  /\ job \in Jobs
  /\ at \notin {"idle", "config"} => job.league \in Keys
  /\ at \in {"idle", "config"} => ~job.over
  /\ at \in Early => job.run = 0 /\ job.pos = 0 /\ job.won = 0
  /\ at \in AtItem => job.pos \in 0..K
  /\ at \in {"archive", "save"} => job.pos = 0
  /\ at = "settle" => job.pos # 0
  /\ at \in {"complete", "recordSuccess"} => job.won > 0

\* The row of the run that is under way is its own, and a later one than the last whose
\* success is recorded.
OwnRow ==
  /\ board.succeeded <= Len(runs)
  /\ at \notin Early => board.succeeded < job.run
  /\ at \notin Early => job.run \in 1..Len(runs)
  /\ at \in AtItem \cup {"tally", "fail", "complete"} => runs[job.run] = "running"
  /\ at = "recordFailure" => runs[job.run] # "complete"

\* An item that is fresh has data no newer than its success, and none of the
\* records is newer than the clock; an item that is being handled is not fresh
\* until its data is in.
FreshnessInv ==
  /\ FreshnessHonest
  /\ \A k \in Items :
       /\ data[k] <= now /\ success[k] <= now
       /\ success[k] # Never => data[k] # Never
  /\ at \in Handling => status[Item] = "running"
  /\ at \in {"archive", "save", "settle", "mark"} => data[Item] # Never

\* What is about to be frozen is stored, and its season over.
ArchiveInv ==
  /\ ArchiveHasSnapshot
  /\ job.over => job.league \in finished

Core == TypeOK /\ JobOK /\ OwnRow /\ FreshnessInv /\ ArchiveInv

\* The item that is handled is an item: a league or a provider step.
LEMMA ItemIsItem ==
  ASSUME TypeOK, JobOK, at \in AtItem
  PROVE  Item \in Items /\ (job.pos # 0 => job.pos \in Steps)
BY SyncAssumption DEF TypeOK, JobOK, Item, Items, Steps, Early, AtItem

\* No row, no league, no data: the invariants hold at the start.
LEMMA InitCore == Init => Core
<1> SUFFICES ASSUME Init PROVE Core OBVIOUS
<1> USE SyncAssumption DEF Init, NoJob
<1>1. TypeOK BY EmptySeq DEF TypeOK, Times, Never
<1>2. JobOK BY DEF JobOK, Jobs, Early, AtItem
<1>3. OwnRow BY DEF OwnRow, Early, AtItem
<1>4. FreshnessInv BY DEF FreshnessInv, FreshnessHonest, Never, Handling, AtItem
<1>5. ArchiveInv BY DEF ArchiveInv, ArchiveHasSnapshot
<1> QED BY <1>1, <1>2, <1>3, <1>4, <1>5 DEF Core

(***************************************************************************)
(* The steps, one after the other, and what each does to the types, to the *)
(* locals and to the run's row.                                            *)
(***************************************************************************)
Frame == TypeOK /\ JobOK /\ OwnRow

\* An item is over: the next one has its turn, or the run is counted.
LEMMA NextItemFrame ==
  ASSUME Frame, at \in AtItem, NEW win \in {0, 1}, NextItem(win),
         UNCHANGED <<world, config, dataVars, runVars>>,
         status' \in [Items -> {"absent", "running", "complete", "failed"}],
         success' \in [Items -> Times \cup {Never}]
  PROVE  Frame'
<1> USE SyncAssumption DEF Frame, NextItem, world, dataVars, runVars
<1>1. job.pos \in 0..K /\ job.won \in 0..job.pos /\ job \in Jobs
  BY DEF TypeOK, JobOK
<1>2. job' \in Jobs /\ job'.pos = job.pos + 1 /\ job'.won = job.won + win
  <2>1. job' = [job EXCEPT !.pos = job.pos + 1, !.won = job.won + win] OBVIOUS
  <2>2. job.pos + 1 \in Nat /\ job.won + win \in Nat BY <1>1
  <2> QED BY <1>1, <2>1, <2>2 DEF Jobs
<1>3. job'.league = job.league /\ job'.run = job.run /\ job'.over = job.over
  BY <1>1 DEF Jobs
<1>4. TypeOK' BY <1>1, <1>2, <1>3 DEF TypeOK
<1>5. JobOK' BY <1>1, <1>2, <1>3 DEF JobOK, AtItem, Early
<1>6. OwnRow' BY <1>3 DEF OwnRow, AtItem, Early
<1> QED BY <1>4, <1>5, <1>6

\* A line that moves on without touching the locals or the runs.
LEMMA LineFrame ==
  ASSUME Frame, at \in AtItem, at' \in AtItem \ {"item"},
         UNCHANGED <<job, runVars, world>>,
         at' \in {"archive", "save"} => job.pos = 0,
         at' = "settle" => job.pos # 0,
         config' \in [league : Names \cup {None}, team : Keys \cup {None}],
         status' \in [Items -> {"absent", "running", "complete", "failed"}],
         success' \in [Items -> Times \cup {Never}],
         data' \in [Items -> Times \cup {Never}],
         final' \subseteq Keys, archived' \subseteq Keys,
         manifest' \subseteq Historical
  PROVE  Frame'
<1> USE DEF Frame, world, runVars
<1>1. TypeOK' BY DEF TypeOK, AtItem
<1>2. JobOK' BY DEF JobOK, AtItem, Early
<1>3. OwnRow' BY DEF OwnRow, AtItem, Early
<1> QED BY <1>1, <1>2, <1>3

\* The steps of an item.
LEMMA ItemStepFrame ==
  ASSUME Frame, ItemStep PROVE Frame' /\ at \in AtItem
<1> USE DEF AtItem
<1>0. /\ Item \in Items \/ at \notin AtItem
      /\ now \in Times
  BY ItemIsItem DEF Frame, TypeOK
<1>1. CASE SkipItem
  BY <1>1, NextItemFrame
  DEF SkipItem, Win, Frame, TypeOK, itemVars
<1>2. CASE CheckFails
  BY <1>2, NextItemFrame
  DEF CheckFails, Lose, Frame, TypeOK, itemVars
<1>3. CASE AttemptItem
  BY <1>0, <1>3, LineFrame
  DEF AttemptItem, MarkAttempt, Frame, TypeOK, dataVars
<1>4. CASE AcquireYahoo
  <2> USE <1>4 DEF AcquireYahoo, Frame, world, itemVars, dataVars, runVars
  <2>1. job \in Jobs /\ job' = [job EXCEPT !.over = job.league \in finished,
                                           !.past = job.league \in lapsed]
    BY DEF JobOK
  <2>2. job' \in Jobs
    <3> DEFINE over == job.league \in finished
               past == job.league \in lapsed
    <3>1. over \in BOOLEAN /\ past \in BOOLEAN OBVIOUS
    <3>2. job' = [job EXCEPT !.over = over, !.past = past] BY <2>1
    <3> HIDE DEF over, past
    <3> QED BY <2>1, <3>1, <3>2 DEF Jobs
  <2>2a. /\ job'.league = job.league /\ job'.pos = job.pos
         /\ job'.won = job.won /\ job'.run = job.run
    BY <2>1 DEF Jobs
  <2>3. TypeOK' BY <2>2a DEF TypeOK
  <2>4. JobOK' BY <2>2, <2>2a DEF JobOK, Early
  <2>5. OwnRow' BY <2>2a DEF OwnRow, Early
  <2> QED BY <2>3, <2>4, <2>5
<1>5. CASE Acquire
  BY <1>5, LineFrame DEF Acquire, Frame, TypeOK, itemVars, dataVars
<1>6. CASE ReplaceYahoo
  BY <1>0, <1>6, LineFrame
  DEF ReplaceYahoo, Frame, TypeOK, JobOK, Early, itemVars, Items
<1>7. CASE ArchiveYahoo
  BY <1>7, LineFrame
  DEF ArchiveYahoo, Frame, TypeOK, JobOK, Early, itemVars
<1>8. CASE SaveConfig
  BY <1>8, LineFrame, SyncAssumption
  DEF SaveConfig, Frame, TypeOK, JobOK, Early, itemVars, dataVars
<1>9. CASE Replace
  BY <1>0, <1>9, LineFrame
  DEF Replace, Frame, TypeOK, Item, itemVars
<1>10. CASE Settle
  BY <1>10, LineFrame DEF Settle, Frame, TypeOK, JobOK, itemVars
<1>11. CASE ActionFails
  BY <1>0, <1>11, NextItemFrame
  DEF ActionFails, ItemFails, MarkFailure, Lose, Frame, TypeOK, itemVars
<1>12. CASE MarkItem
  BY <1>0, <1>12, NextItemFrame
  DEF MarkItem, MarkSuccess, Win, Frame, TypeOK
<1> QED
  BY <1>1, <1>2, <1>3, <1>4, <1>5, <1>6, <1>7, <1>8, <1>9, <1>10, <1>11, <1>12
  DEF ItemStep, SkipItem, CheckFails, AttemptItem, AcquireYahoo, Acquire,
      ReplaceYahoo, ArchiveYahoo, SaveConfig, Replace, Settle, ActionFails,
      MarkItem

\* The locals of a synchronization that has not looked at anything yet.
Fresh(j) == j.league = None /\ ~j.over /\ j.run = 0 /\ j.pos = 0 /\ j.won = 0

\* The steps that begin a run, count it and record how it ended.
LEMMA RunStepFrame ==
  ASSUME Frame,
         \/ \E o \in Owners \cup {Nobody}, n \in Names \cup {None} : Begin(o, n)
         \/ ReadConfig \/ StartSyncRun \/ Tally \/ FailSyncRun \/ RecordFailure
         \/ CompleteSyncRun \/ RecordSuccess \/ Abandon
  PROVE  Frame'
<1> USE SyncAssumption DEF Frame, world, itemVars, dataVars, runVars
<1>0. runs \in Seq(RunStatus) /\ job \in Jobs /\ Len(runs) \in Nat
  <2>1. runs \in Seq(RunStatus) /\ job \in Jobs BY DEF TypeOK, JobOK, RunStatus
  <2> QED BY <2>1, LenProperties
<1>1. ASSUME NEW o \in Owners \cup {Nobody}, NEW n \in Names \cup {None},
             Begin(o, n)
      PROVE  Frame'
  <2>1. at' = "config"
        /\ UNCHANGED <<world, config, itemVars, dataVars, runVars>>
    BY <1>1 DEF Begin
  <2>2. job' \in Jobs /\ Fresh(job') BY <1>1 DEF Begin, NoJob, Jobs, Fresh
  <2>3. TypeOK' BY <1>0, <2>1, <2>2 DEF TypeOK, Fresh
  <2>4. JobOK' BY <2>1, <2>2 DEF JobOK, Early, AtItem, Fresh
  <2>5. OwnRow' BY <2>1 DEF OwnRow, Early, AtItem
  <2> QED BY <2>3, <2>4, <2>5
<1>2. CASE ReadConfig
  <2> USE <1>2 DEF ReadConfig
  <2>1. PICK n \in Names : job' = [job EXCEPT !.league = Canon[n]]
    BY DEF Requested, TypeOK, JobOK, Jobs
  <2>2. job' \in Jobs /\ job'.league \in Keys /\ job'.run = job.run
        /\ job'.pos = job.pos /\ job'.won = job.won /\ job'.over = job.over
    BY <1>0, <2>1 DEF Jobs
  <2>3. TypeOK' BY <2>2 DEF TypeOK
  <2>4. JobOK' BY <2>2 DEF JobOK, Early, AtItem
  <2>5. OwnRow' BY <2>2 DEF OwnRow, Early, AtItem
  <2> QED BY <2>3, <2>4, <2>5
<1>3. CASE StartSyncRun
  <2> USE <1>3 DEF StartSyncRun
  <2>1. /\ runs' \in Seq(RunStatus)
        /\ Len(runs') = Len(runs) + 1
        /\ runs'[Len(runs) + 1] = "running"
        /\ Len(runs) \in Nat
    BY <1>0, AppendProperties, LenProperties DEF RunStatus
  <2>2. job' \in Jobs /\ job'.run = Len(runs) + 1 /\ job'.league = job.league
        /\ job'.pos = job.pos /\ job'.won = job.won /\ job'.over = job.over
    BY <1>0, <2>1 DEF Jobs
  <2>3. TypeOK' BY <2>1, <2>2 DEF TypeOK, RunStatus
  <2>4. JobOK' BY <2>2 DEF JobOK, Early, AtItem
  <2>5. OwnRow'
    <3>1. board.succeeded \in Nat /\ board.succeeded <= Len(runs) /\ board' = board
      BY DEF TypeOK, OwnRow
    <3> QED BY <2>1, <2>2, <3>1 DEF OwnRow, Early, AtItem
  <2> QED BY <2>3, <2>4, <2>5
<1>4. CASE Tally
  <2>1. TypeOK' BY <1>4 DEF Tally, TypeOK
  <2>2. JobOK' BY <1>4 DEF Tally, TypeOK, JobOK, Early, AtItem
  <2>3. OwnRow' BY <1>4 DEF Tally, OwnRow, Early, AtItem
  <2> QED BY <2>1, <2>2, <2>3
<1>5. CASE FailSyncRun
  <2> USE <1>5 DEF FailSyncRun
  <2>1. job.run \in 1..Len(runs) /\ runs[job.run] = "running"
    BY DEF OwnRow, Early
  <2>2. /\ runs' \in Seq(RunStatus)
        /\ Len(runs') = Len(runs)
        /\ runs'[job.run] # "complete"
    BY <1>0, <2>1, ExceptSeq DEF RunStatus
  <2>3. TypeOK' BY <2>2 DEF TypeOK, RunStatus
  <2>4. JobOK' BY DEF JobOK, Early, AtItem
  <2>5. OwnRow' BY <2>1, <2>2 DEF OwnRow, Early, AtItem
  <2> QED BY <2>3, <2>4, <2>5
<1>6. CASE RecordFailure \/ RecordSuccess \/ Abandon
  <2> USE <1>6 DEF RecordFailure, RecordSuccess, Abandon, End
  <2>1. job' = NoJob BY <1>6
  <2>1a. job' \in Jobs /\ Fresh(job') BY <2>1 DEF NoJob, Jobs, Fresh
  <2>2. board' \in [failures : 0..FailureLimit, circuit : BOOLEAN, succeeded : Nat]
    <3>1. board.failures \in 0..FailureLimit /\ FailureLimit \in Nat \ {0}
      BY DEF TypeOK
    <3>2. CASE RecordFailure
      <4> DEFINE counted == IF board.failures < FailureLimit
                              THEN board.failures + 1 ELSE FailureLimit
                 opened == board.failures + 1 >= FailureLimit
      <4>1. counted \in 0..FailureLimit BY <3>1
      <4>2. opened \in BOOLEAN OBVIOUS
      <4>3. board' = [failures |-> counted, circuit |-> opened, succeeded |-> board.succeeded]
            /\ board.succeeded \in Nat
        BY <3>2 DEF TypeOK
      <4> HIDE DEF counted, opened
      <4> QED BY <4>1, <4>2, <4>3
    <3>3. CASE RecordSuccess BY <1>0, <3>1, <3>3 DEF Jobs
    <3>4. CASE Abandon BY <3>4 DEF TypeOK
    <3> QED BY <3>2, <3>3, <3>4
  <2>3. TypeOK' BY <1>0, <2>1a, <2>2 DEF TypeOK, Fresh
  <2>4. JobOK' BY <2>1a DEF JobOK, Early, AtItem, Fresh
  <2>5. OwnRow'
    <3>1. board'.succeeded <= Len(runs)
      <4>1. CASE RecordFailure BY <4>1 DEF OwnRow
      <4>2. CASE RecordSuccess BY <1>0, <4>2 DEF OwnRow, Early
      <4>3. CASE Abandon BY <4>3 DEF OwnRow
      <4> QED BY <1>6, <4>1, <4>2, <4>3
    <3> QED BY <3>1 DEF OwnRow, Early, AtItem
  <2> QED BY <2>3, <2>4, <2>5
<1>7. CASE CompleteSyncRun
  <2> USE <1>7 DEF CompleteSyncRun
  <2>1. job.run \in 1..Len(runs) BY DEF OwnRow, Early
  <2>2. /\ runs' \in Seq(RunStatus)
        /\ Len(runs') = Len(runs)
    BY <1>0, <2>1, ExceptSeq DEF RunStatus
  <2>3. TypeOK' BY <2>2 DEF TypeOK, RunStatus
  <2>4. JobOK' BY DEF JobOK, Early, AtItem
  <2>5. OwnRow' BY <2>1, <2>2 DEF OwnRow, Early, AtItem
  <2> QED BY <2>3, <2>4, <2>5
<1> QED BY <1>1, <1>2, <1>3, <1>4, <1>5, <1>6, <1>7

\* Time passes, a season ends, or nothing happens.
LEMMA WorldFrame ==
  ASSUME Frame, Tick \/ (\E k \in Ending : SeasonEnds(k)) \/ UNCHANGED vars
  PROVE  Frame'
<1> USE SyncAssumption
        DEF Frame, Tick, SeasonEnds, vars, itemVars, dataVars, runVars, Times
<1>1. TypeOK' BY DEF TypeOK
<1>2. JobOK' BY DEF JobOK
<1>3. OwnRow' BY DEF OwnRow
<1> QED BY <1>1, <1>2, <1>3

\* The types, the locals and the run's row, by every step.
LEMMA NextFrame == ASSUME Frame, [Next]_vars PROVE Frame'
BY ItemStepFrame, RunStepFrame, WorldFrame DEF Next, SyncStep, Rest

(***************************************************************************)
(* Freshness.                                                              *)
(***************************************************************************)

\* What a step may never do to an item: lose a success or its data.
KeepsItems ==
  \A k \in Items : success'[k] >= success[k] /\ data'[k] >= data[k]

\* A step that leaves the records alone, wherever it goes next.
LEMMA SameRecordsFreshness ==
  ASSUME Frame, FreshnessInv, UNCHANGED <<itemVars, data>>,
         now' \in {now, now + 1},
         \/ at' \notin Handling
         \/ at' = at /\ UNCHANGED job
         \/ /\ at \in Handling /\ UNCHANGED <<job.pos, job.league>>
            /\ at' \in {"archive", "save", "settle", "mark"} =>
                 at \in {"archive", "save", "settle", "mark"}
  PROVE  FreshnessInv' /\ KeepsItems
<1> USE DEF Frame, TypeOK, FreshnessInv, itemVars, Times, Never
<1>1. /\ now \in Int /\ now' \in Int /\ now' >= now
      /\ \A k \in Items : data[k] \in Int /\ success[k] \in Int
  OBVIOUS
<1>2. \A k \in Items : data'[k] <= now' /\ success'[k] <= now'
  BY <1>1
<1>3. FreshnessHonest' BY DEF FreshnessHonest
<1>4. KeepsItems BY <1>1 DEF KeepsItems
<1>5. at' \in Handling => status'[Item'] = "running" BY DEF Item, Handling, AtItem
<1>6. at' \in {"archive", "save", "settle", "mark"} => data'[Item'] # Never
  BY DEF Item, Handling, AtItem
<1> QED BY <1>2, <1>3, <1>4, <1>5, <1>6

\* An item's data is in: the item is still not fresh.
LEMMA StoreFreshness ==
  ASSUME Frame, FreshnessInv, at = "replace", UNCHANGED <<itemVars, job, now>>,
         data' = [data EXCEPT ![Item] = now], at' \in {"archive", "settle"}
  PROVE  FreshnessInv' /\ KeepsItems
<1> USE DEF Frame, TypeOK, FreshnessInv, itemVars, Times, Never
<1>1. Item \in Items BY ItemIsItem DEF AtItem
<1>2. /\ now \in Int /\ now # -1
      /\ \A k \in Items : data[k] \in Int /\ success[k] \in Int
  OBVIOUS
<1>3. data'[Item] = now /\ \A k \in Items \ {Item} : data'[k] = data[k]
  BY <1>1
<1>4. status[Item] = "running" BY DEF Handling, AtItem
<1>5. FreshnessHonest' BY <1>3, <1>4 DEF FreshnessHonest
<1>6. KeepsItems BY <1>1, <1>2, <1>3 DEF KeepsItems
<1>7. Item' = Item BY DEF Item
<1> QED BY <1>1, <1>2, <1>3, <1>4, <1>5, <1>6, <1>7

\* An item's row is written, with data or without.
LEMMA MarkFreshness ==
  ASSUME Frame, FreshnessInv, at \in AtItem, UNCHANGED <<data, now>>,
         \/ MarkAttempt(Item) /\ at' = "acquire" /\ UNCHANGED job
         \/ MarkFailure(Item) /\ at' \notin Handling
         \/ MarkSuccess(Item) /\ at = "mark" /\ at' \notin Handling
  PROVE  FreshnessInv' /\ KeepsItems
<1> USE DEF Frame, TypeOK, FreshnessInv, Times, Never
<1>1. Item \in Items BY ItemIsItem
<1>2. /\ now \in Int /\ now # -1
      /\ \A k \in Items : data[k] \in Int /\ success[k] \in Int
  OBVIOUS
<1>3. CASE MarkSuccess(Item) /\ at = "mark" /\ at' \notin Handling
  <2>1. /\ success'[Item] = now
        /\ \A k \in Items \ {Item} : success'[k] = success[k] /\ status'[k] = status[k]
    BY <1>1, <1>3 DEF MarkSuccess
  <2>2. data[Item] # Never BY <1>3
  <2>3. FreshnessHonest' BY <1>1, <1>2, <2>1, <2>2 DEF FreshnessHonest
  <2>4. KeepsItems
    <3>1. \A k \in Items : data'[k] >= data[k] BY <1>2
    <3>2. \A k \in Items : success[k] <= now OBVIOUS
    <3>3. ASSUME NEW k \in Items PROVE success'[k] >= success[k]
      <4>1. success[k] \in Int /\ success[k] <= now BY <1>2, <3>2
      <4>2. success'[k] = now \/ success'[k] = success[k] BY <2>1
      <4> HIDE DEF Frame, TypeOK, FreshnessInv
      <4> QED BY <1>2, <4>1, <4>2
    <3> QED BY <3>1, <3>3 DEF KeepsItems
  <2>5. \A k \in Items :
          /\ data'[k] <= now' /\ success'[k] <= now'
          /\ success'[k] # Never => data'[k] # Never
    BY <1>1, <1>2, <2>1, <2>2
  <2>6. at' \notin {"archive", "save", "settle", "mark"} BY <1>3 DEF Handling, AtItem
  <2> QED BY <1>3, <2>3, <2>4, <2>5, <2>6
<1>4. CASE \/ MarkAttempt(Item) /\ at' = "acquire" /\ UNCHANGED job
           \/ MarkFailure(Item) /\ at' \notin Handling
  <2>1. /\ status'[Item] \in {"running", "failed"}
        /\ at' = "acquire" => status'[Item] = "running" /\ Item' = Item
        /\ \A k \in Items \ {Item} : status'[k] = status[k]
        /\ success' = success
    BY <1>1, <1>4 DEF MarkAttempt, MarkFailure, Item, Handling, AtItem
  <2>2. FreshnessHonest' BY <1>1, <2>1 DEF FreshnessHonest
  <2>3. KeepsItems BY <1>2, <2>1 DEF KeepsItems
  <2> QED BY <1>1, <1>2, <1>4, <2>1, <2>2, <2>3 DEF Handling, AtItem
<1> QED BY <1>3, <1>4

\* Freshness stays honest, and no item loses anything, by every step.
LEMMA NextFreshness ==
  ASSUME Frame, FreshnessInv, [Next]_vars PROVE FreshnessInv' /\ KeepsItems
<1> USE DEF Handling, AtItem, world, itemVars, dataVars, runVars
<1>1. CASE SkipItem \/ CheckFails \/ (ActionFails /\ UNCHANGED itemVars)
  BY <1>1, SameRecordsFreshness
  DEF SkipItem, CheckFails, ActionFails, ItemFails, Win, Lose, NextItem
<1>2. CASE AttemptItem
  BY <1>2, MarkFreshness DEF AttemptItem
<1>3. CASE ActionFails /\ ~UNCHANGED itemVars
  BY <1>3, MarkFreshness DEF ActionFails, ItemFails, Lose, NextItem
<1>4. CASE MarkItem
  BY <1>4, MarkFreshness DEF MarkItem, Win, NextItem
<1>5. CASE ReplaceYahoo \/ Replace
  BY <1>5, StoreFreshness DEF ReplaceYahoo, Replace, Item
<1>6. CASE AcquireYahoo
  <2>1. UNCHANGED <<job.pos, job.league>>
    BY <1>6 DEF AcquireYahoo, Frame, JobOK, Jobs
  <2> QED BY <1>6, <2>1, SameRecordsFreshness DEF AcquireYahoo
<1>7. CASE Acquire \/ ArchiveYahoo \/ SaveConfig \/ Settle
  <2>1. at \in Handling /\ (at' = "replace" \/ at \in {"archive", "save", "settle"})
    BY <1>7 DEF Acquire, ArchiveYahoo, SaveConfig, Settle
  <2>2. UNCHANGED <<job, now, itemVars, data>> /\ at' \in {"replace", "save", "mark"}
    BY <1>7 DEF Acquire, ArchiveYahoo, SaveConfig, Settle
  <2> QED BY <2>1, <2>2, SameRecordsFreshness
<1>8. CASE \/ \E o \in Owners \cup {Nobody}, n \in Names \cup {None} : Begin(o, n)
           \/ ReadConfig \/ StartSyncRun \/ Tally \/ FailSyncRun \/ RecordFailure
           \/ CompleteSyncRun \/ RecordSuccess \/ Abandon
  <2>1. UNCHANGED <<now, itemVars, data>> /\ at' \notin Handling
    BY <1>8 DEF Begin, ReadConfig, StartSyncRun, Tally, FailSyncRun,
                RecordFailure, CompleteSyncRun, RecordSuccess, Abandon, End
  <2> QED BY <2>1, SameRecordsFreshness
<1>9. CASE Tick \/ (\E k \in Ending : SeasonEnds(k)) \/ UNCHANGED vars
  BY <1>9, SameRecordsFreshness DEF Tick, SeasonEnds, vars
<1> QED
  BY <1>1, <1>2, <1>3, <1>4, <1>5, <1>6, <1>7, <1>8, <1>9
  DEF Next, SyncStep, ItemStep, Rest

(***************************************************************************)
(* The archive and the manifest.                                           *)
(***************************************************************************)

\* What a step may never do to a frozen season: thaw it or write its rows.
KeepsArchive == \A k \in archived : k \in archived' /\ data'[k] = data[k]

\* Only Yahoo's snapshot and the flag itself can disturb the archive.
LEMMA NextArchive ==
  ASSUME Frame, FreshnessInv, ArchiveInv, [Next]_vars
  PROVE  ArchiveInv' /\ KeepsArchive
<1> USE DEF ArchiveInv, ArchiveHasSnapshot, KeepsArchive
<1>0. archived \subseteq Keys /\ Keys \subseteq Items /\ Keys \cap Steps = {}
  BY SyncAssumption DEF Frame, TypeOK, Items
<1>1. CASE ReplaceYahoo
  <2>1. job.league \in Keys /\ job.league \notin archived
    BY <1>1 DEF ReplaceYahoo, Frame, JobOK, IsArchived
  <2>2. \A k \in archived : data'[k] = data[k]
    BY <1>0, <1>1, <2>1 DEF ReplaceYahoo, Frame, TypeOK
  <2> QED BY <1>1, <2>2 DEF ReplaceYahoo, world
<1>2. CASE Replace
  <2>1. job.pos \in Steps
    BY <1>2, ItemIsItem DEF Replace, Frame, AtItem
  <2>2. \A k \in archived : data'[k] = data[k]
    BY <1>0, <1>2, <2>1 DEF Replace, Frame, TypeOK
  <2> QED BY <1>2, <2>2 DEF Replace, world
<1>3. CASE ArchiveYahoo
  <2>1. Item = job.league /\ data[job.league] # Never
    BY <1>3 DEF ArchiveYahoo, Frame, JobOK, FreshnessInv, Item
  <2> QED BY <1>3, <2>1 DEF ArchiveYahoo, world
<1>4. CASE AcquireYahoo
  <2>1. job'.over => job'.league \in finished
    BY <1>4 DEF AcquireYahoo, Frame, JobOK, Jobs
  <2> QED BY <1>4, <2>1 DEF AcquireYahoo, world, dataVars
<1>5. CASE ReadConfig
  <2>1. ~job'.over
    BY <1>5 DEF ReadConfig, Requested, Frame, JobOK, Jobs
  <2> QED BY <1>5, <2>1 DEF ReadConfig, world, dataVars
<1>6. CASE \/ SkipItem \/ CheckFails \/ ActionFails \/ MarkItem \/ StartSyncRun
  <2>1. /\ UNCHANGED <<lapsed, finished, data, archived>>
        /\ job'.over = job.over /\ job'.league = job.league
    BY <1>6
    DEF SkipItem, CheckFails, ActionFails, ItemFails, MarkItem, Win, Lose,
        NextItem, StartSyncRun, world, dataVars, Frame, JobOK, Jobs
  <2> QED BY <2>1
<1>7. CASE \/ \E o \in Owners \cup {Nobody}, n \in Names \cup {None} : Begin(o, n)
           \/ RecordFailure \/ RecordSuccess \/ Abandon
  <2>1. UNCHANGED <<lapsed, finished, data, archived>>
    BY <1>7 DEF Begin, RecordFailure, RecordSuccess, Abandon, world, dataVars
  <2>2. ASSUME NEW o \in Owners \cup {Nobody}, NEW n \in Names \cup {None},
               Begin(o, n)
        PROVE  ~job'.over
    BY <2>2 DEF Begin, NoJob
  <2>3. RecordFailure \/ RecordSuccess \/ Abandon => ~job'.over
    BY DEF RecordFailure, RecordSuccess, Abandon, End, NoJob
  <2> QED BY <1>7, <2>1, <2>2, <2>3
<1>8. CASE \/ AttemptItem \/ Acquire \/ SaveConfig \/ Settle \/ Tally
           \/ FailSyncRun \/ CompleteSyncRun \/ Tick \/ UNCHANGED vars
           \/ \E k \in Ending : SeasonEnds(k)
  <2>1. /\ UNCHANGED <<data, archived, job>>
        /\ lapsed \subseteq lapsed' /\ finished \subseteq finished'
    BY <1>8 DEF AttemptItem, Acquire, SaveConfig, Settle, Tally, FailSyncRun,
                CompleteSyncRun, Tick, SeasonEnds, vars, world, dataVars
  <2> QED BY <2>1
<1> QED
  BY <1>1, <1>2, <1>3, <1>4, <1>5, <1>6, <1>7, <1>8
  DEF Next, SyncStep, ItemStep, Rest

\* A season becomes complete when its rows are in, and they stay.
LEMMA NextManifest ==
  ASSUME Frame, FreshnessInv, ManifestHonest, KeepsItems, [Next]_vars
  PROVE  ManifestHonest'
<1> USE DEF ManifestHonest
<1>1. \A k \in Items : data[k] # Never => data'[k] # Never
  BY DEF KeepsItems, FreshnessInv, Frame, TypeOK, Times, Never
<1>2. manifest \subseteq Items BY SyncAssumption DEF Frame, TypeOK, Items
<1>3. CASE Settle
  <2>1. Item = job.pos /\ data[job.pos] # Never
    BY <1>3 DEF Settle, Frame, JobOK, FreshnessInv, Item
  <2> QED BY <1>3, <2>1 DEF Settle
<1>4. CASE ~Settle
  <2>1. manifest' = manifest
    BY <1>4
    DEF Next, SyncStep, ItemStep, Rest, Tick, SeasonEnds, Begin, ReadConfig,
        StartSyncRun, SkipItem, CheckFails, AttemptItem, AcquireYahoo,
        ReplaceYahoo, ArchiveYahoo, SaveConfig, Acquire, Replace, ActionFails,
        ItemFails, MarkItem, Tally, FailSyncRun, RecordFailure, CompleteSyncRun,
        RecordSuccess, Abandon, vars, dataVars
  <2> QED BY <1>1, <1>2, <2>1
<1> QED BY <1>3, <1>4

(***************************************************************************)
(* What is recorded of the runs. The dashboard never counts more failures  *)
(* than there are runs without success since the last one whose success it *)
(* recorded, the one under way left out; and an outcome that was counted   *)
(* has an item that ended well.                                            *)
(***************************************************************************)
Unsuccessful == {r \in 1..Len(runs) : r > board.succeeded /\ runs[r] # "complete"}
Behind == Unsuccessful \ {job.run}

CircuitInv ==
  /\ board.failures <= Cardinality(Behind)
  /\ board.circuit => board.failures >= FailureLimit

\* The item whose turn is at position i.
ItemAt(league, i) == IF i = 0 THEN league ELSE i

WitnessInv ==
  job.won > 0 =>
    \/ job.league \in archived
    \/ \E i \in 0..job.pos - 1 :
         \/ status[ItemAt(job.league, i)] = "complete"
         \/ ItemAt(job.league, i) \in manifest

OutcomeInv == CircuitInv /\ WitnessInv

\* A set of runs is finite and can be counted.
LEMMA RunsCanBeCounted ==
  ASSUME NEW s \in Seq(RunStatus), NEW T, T \subseteq 1..Len(s)
  PROVE  IsFiniteSet(T) /\ Cardinality(T) \in Nat
<1>1. Len(s) \in Nat BY LenProperties
<1>2. IsFiniteSet(1..Len(s)) BY <1>1, FS_Interval
<1>3. IsFiniteSet(T) BY <1>2, FS_Subset
<1> QED BY <1>3, FS_CardinalityType

\* As long as no run is forgotten and nothing is counted, the count is right.
LEMMA UncountedCircuit ==
  ASSUME Frame, Frame', CircuitInv, board' = board, Behind \subseteq Behind'
  PROVE  CircuitInv'
<1>1. runs' \in Seq(RunStatus) /\ runs \in Seq(RunStatus)
  BY DEF Frame, TypeOK, RunStatus
<1>2. Behind' \subseteq 1..Len(runs') /\ Behind \subseteq 1..Len(runs)
  BY DEF Behind, Unsuccessful
<1>3. IsFiniteSet(Behind') /\ Cardinality(Behind') \in Nat /\ Cardinality(Behind) \in Nat
  BY <1>1, <1>2, RunsCanBeCounted
<1>4. Cardinality(Behind) <= Cardinality(Behind') BY <1>3, FS_Subset
<1>5. board.failures \in Nat BY SyncAssumption DEF Frame, TypeOK
<1> QED BY <1>3, <1>4, <1>5 DEF CircuitInv

\* A failed run that is counted was not among those counted before.
LEMMA RecordFailureCircuit ==
  ASSUME Frame, CircuitInv, RecordFailure PROVE CircuitInv'
<1>1. job.run \in Unsuccessful
  <2>1. job.run \in Nat /\ board.succeeded \in Nat /\ Len(runs) \in Nat
    BY LenProperties DEF Frame, TypeOK, JobOK, Jobs
  <2> QED BY <2>1 DEF RecordFailure, Frame, OwnRow, Early, Unsuccessful
<1>2. Behind' = Unsuccessful
  BY DEF RecordFailure, End, NoJob, Behind, Unsuccessful
<1>3. IsFiniteSet(Unsuccessful) /\ Cardinality(Unsuccessful) \in Nat
  <2>1. runs \in Seq(RunStatus) BY DEF Frame, TypeOK, RunStatus
  <2>2. Unsuccessful \subseteq 1..Len(runs) BY DEF Unsuccessful
  <2> QED BY <2>1, <2>2, RunsCanBeCounted
<1>4. Cardinality(Behind) = Cardinality(Unsuccessful) - 1
  BY <1>1, <1>3, FS_RemoveElement DEF Behind
<1>5. board.failures \in 0..FailureLimit /\ FailureLimit \in Nat
  BY SyncAssumption DEF Frame, TypeOK
<1>6. /\ board'.failures = IF board.failures < FailureLimit
                              THEN board.failures + 1 ELSE FailureLimit
      /\ board'.circuit => board.failures + 1 >= FailureLimit
  BY DEF RecordFailure
<1>7. board.failures <= Cardinality(Behind) BY DEF CircuitInv
<1>8. board'.failures <= Cardinality(Behind')
  BY <1>2, <1>3, <1>4, <1>5, <1>6, <1>7
<1>9. board'.circuit => board'.failures >= FailureLimit BY <1>5, <1>6
<1> QED BY <1>8, <1>9 DEF CircuitInv

\* The circuit, by every step.
LEMMA NextCircuit ==
  ASSUME Frame, Frame', CircuitInv, [Next]_vars PROVE CircuitInv'
<1>1. CASE RecordFailure BY <1>1, RecordFailureCircuit
<1>2. CASE RecordSuccess
  <2>1. runs' \in Seq(RunStatus) BY DEF Frame, TypeOK, RunStatus
  <2>2. Behind' \subseteq 1..Len(runs') BY DEF Behind, Unsuccessful
  <2>3. Cardinality(Behind') \in Nat BY <2>1, <2>2, RunsCanBeCounted
  <2> QED BY <1>2, <2>3 DEF RecordSuccess, CircuitInv
<1>3. CASE StartSyncRun
  <2>1. job'.run = Len(runs) + 1 /\ job.run = 0 /\ board' = board
    BY <1>3 DEF StartSyncRun, Frame, JobOK, Jobs, Early, runVars
  <2>2. /\ Len(runs') = Len(runs) + 1 /\ Len(runs) \in Nat
        /\ \A r \in 1..Len(runs) : runs'[r] = runs[r]
    BY <1>3, AppendProperties, LenProperties DEF StartSyncRun, Frame, TypeOK
  <2>3. Behind \subseteq Behind' BY <2>1, <2>2 DEF Behind, Unsuccessful
  <2> QED BY <2>1, <2>3, UncountedCircuit
<1>4. CASE FailSyncRun \/ CompleteSyncRun
  <2>1. job' = job /\ board' = board /\ job.run \in 1..Len(runs)
    BY <1>4 DEF FailSyncRun, CompleteSyncRun, Frame, OwnRow, Early
  <2>2. /\ Len(runs') = Len(runs)
        /\ \A r \in 1..Len(runs) : r # job.run => runs'[r] = runs[r]
    BY <1>4, <2>1, ExceptSeq DEF FailSyncRun, CompleteSyncRun, Frame, TypeOK
  <2>3. Behind \subseteq Behind' BY <2>1, <2>2 DEF Behind, Unsuccessful
  <2> QED BY <2>1, <2>3, UncountedCircuit
<1>5. CASE \/ \E o \in Owners \cup {Nobody}, n \in Names \cup {None} : Begin(o, n)
           \/ Abandon
  <2>1. UNCHANGED runVars BY <1>5 DEF Begin, Abandon
  <2>2. ASSUME NEW o \in Owners \cup {Nobody}, NEW n \in Names \cup {None},
               Begin(o, n)
        PROVE  job'.run = 0
    BY <2>2 DEF Begin, NoJob
  <2>3. Abandon => job'.run = 0 BY DEF Abandon, End, NoJob
  <2>4. job'.run = 0 BY <1>5, <2>2, <2>3
  <2>5. Len(runs) \in Nat BY LenProperties DEF Frame, TypeOK
  <2>6. Behind \subseteq Behind'
    BY <2>1, <2>4, <2>5 DEF Behind, Unsuccessful, runVars
  <2> QED BY <2>1, <2>6, UncountedCircuit DEF runVars
<1>6. CASE \/ ReadConfig \/ ItemStep \/ Tally \/ Tick \/ UNCHANGED vars
           \/ \E k \in Ending : SeasonEnds(k)
  <2>1. UNCHANGED runVars /\ job'.run = job.run
    BY <1>6
    DEF ItemStep, Tick, SeasonEnds, ReadConfig, SkipItem, CheckFails, AttemptItem,
        AcquireYahoo, ReplaceYahoo, ArchiveYahoo, SaveConfig, Acquire, Replace,
        Settle, ActionFails, ItemFails, MarkItem, Win, Lose, NextItem, Tally,
        vars, Frame, JobOK, Jobs, runVars
  <2>2. Behind \subseteq Behind' BY <2>1 DEF Behind, Unsuccessful, runVars
  <2> QED BY <2>1, <2>2, UncountedCircuit DEF runVars
<1> QED
  BY <1>1, <1>2, <1>3, <1>4, <1>5, <1>6 DEF Next, SyncStep, Rest

\* Items that had their turn are not those that are handled later.
LEMMA EarlierItem ==
  ASSUME Frame, at \in AtItem, NEW i \in 0..job.pos - 1
  PROVE  ItemAt(job.league, i) \in Items \ {Item}
BY SyncAssumption DEF Frame, TypeOK, JobOK, Early, AtItem, ItemAt, Item, Items, Steps

\* A witness stays one while later items are handled.
LEMMA WitnessStays ==
  ASSUME Frame, WitnessInv, at \in AtItem,
         \A k \in Items \ {Item} : status'[k] = status[k],
         manifest \subseteq manifest', archived \subseteq archived',
         job'.league = job.league, job'.pos \in {job.pos, job.pos + 1},
         job'.won = job.won
  PROVE  WitnessInv'
<1>1. job.pos \in Int BY DEF Frame, TypeOK
<1>2. \A i \in 0..job.pos - 1 : i \in 0..job'.pos - 1 BY <1>1
<1> QED BY <1>2, EarlierItem DEF WitnessInv

\* An item that ends well is a witness of its own.
LEMMA WitnessWon ==
  ASSUME Frame, at \in AtItem, Win, manifest' = manifest, archived' = archived,
         \/ job.pos = 0 /\ job.league \in archived
         \/ job.pos \in manifest
         \/ status'[Item] = "complete"
  PROVE  WitnessInv'
<1>1. job.pos \in 0..K BY DEF Frame, JobOK
<1>2. job'.pos = job.pos + 1 /\ job'.league = job.league
  BY DEF Win, NextItem, Frame, JobOK, Jobs
<1>3. job.pos \in 0..job'.pos - 1 BY <1>1, <1>2
<1>4. ItemAt(job.league, job.pos) = Item BY DEF ItemAt, Item
<1>5. job.pos \in manifest => Item = job.pos
  BY SyncAssumption DEF Item, Frame, TypeOK, Steps
<1> QED BY <1>2, <1>3, <1>4, <1>5 DEF WitnessInv

\* The witness, by every step.
LEMMA NextWitness ==
  ASSUME Frame, WitnessInv, [Next]_vars PROVE WitnessInv'
<1> USE DEF Frame, world, itemVars, dataVars, runVars
<1>1. CASE SkipItem
  <2>1. Item \in Items /\ at \in AtItem BY <1>1, ItemIsItem DEF SkipItem, AtItem
  <2>2. ~Needs(Item, SyncTTL) => status[Item] = "complete" BY DEF Needs
  <2>3. Win /\ UNCHANGED <<manifest, archived, status>>
    BY <1>1 DEF SkipItem
  <2>4. \/ job.pos = 0 /\ job.league \in archived
        \/ job.pos \in manifest
        \/ status'[Item] = "complete"
    BY <1>1, <2>2, <2>3 DEF SkipItem, Skipped, IsArchived
  <2> QED BY <2>1, <2>3, <2>4, WitnessWon
<1>2. CASE MarkItem
  <2>1. Item \in Items /\ at \in AtItem BY <1>2, ItemIsItem DEF MarkItem, AtItem
  <2>2. status'[Item] = "complete"
    BY <1>2, <2>1 DEF MarkItem, MarkSuccess, TypeOK
  <2> QED BY <1>2, <2>1, <2>2, WitnessWon DEF MarkItem
<1>3. CASE CheckFails \/ ActionFails
  <2>1. at \in AtItem BY <1>3 DEF CheckFails, ActionFails, AtItem
  <2>2. /\ job'.pos = job.pos + 1 /\ job'.won = job.won
        /\ job'.league = job.league
    <3>1. job' = [job EXCEPT !.pos = job.pos + 1, !.won = job.won + 0]
      BY <1>3 DEF CheckFails, ActionFails, ItemFails, Lose, NextItem
    <3>2. job \in Jobs BY DEF JobOK
    <3> QED BY <3>1, <3>2 DEF Jobs
  <2>3. \A k \in Items \ {Item} : status'[k] = status[k]
    BY <1>3 DEF CheckFails, ActionFails, ItemFails, MarkFailure, TypeOK
  <2>4. manifest' = manifest /\ archived' = archived
    BY <1>3 DEF CheckFails, ActionFails, ItemFails
  <2> QED BY <2>1, <2>2, <2>3, <2>4, WitnessStays
<1>4. CASE \/ AttemptItem \/ AcquireYahoo \/ ReplaceYahoo \/ ArchiveYahoo
           \/ SaveConfig \/ Acquire \/ Replace \/ Settle
  <2>1. at \in AtItem
    BY <1>4 DEF AttemptItem, AcquireYahoo, ReplaceYahoo, ArchiveYahoo, SaveConfig,
                Acquire, Replace, Settle, AtItem
  <2>2. job'.pos = job.pos /\ job'.won = job.won /\ job'.league = job.league
    BY <1>4 DEF AttemptItem, AcquireYahoo, ReplaceYahoo, ArchiveYahoo, SaveConfig,
                Acquire, Replace, Settle, JobOK, Jobs
  <2>3. \A k \in Items \ {Item} : status'[k] = status[k]
    BY <1>4 DEF AttemptItem, MarkAttempt, AcquireYahoo, ReplaceYahoo,
                ArchiveYahoo, SaveConfig, Acquire, Replace, Settle, TypeOK
  <2>4. manifest \subseteq manifest' /\ archived \subseteq archived'
    BY <1>4 DEF AttemptItem, AcquireYahoo, ReplaceYahoo, ArchiveYahoo, SaveConfig,
                Acquire, Replace, Settle
  <2> QED BY <2>1, <2>2, <2>3, <2>4, WitnessStays
<1>5. CASE \/ Tally \/ FailSyncRun \/ CompleteSyncRun \/ Tick \/ UNCHANGED vars
           \/ \E k \in Ending : SeasonEnds(k)
  BY <1>5 DEF Tally, FailSyncRun, CompleteSyncRun, Tick, SeasonEnds, vars,
              WitnessInv
<1>6. CASE \/ \E o \in Owners \cup {Nobody}, n \in Names \cup {None} : Begin(o, n)
           \/ ReadConfig \/ StartSyncRun \/ RecordFailure \/ RecordSuccess
           \/ Abandon
  <2>1. ASSUME NEW o \in Owners \cup {Nobody}, NEW n \in Names \cup {None},
               Begin(o, n)
        PROVE  job'.won = 0
    BY <2>1 DEF Begin, NoJob
  <2>2. ReadConfig \/ StartSyncRun => job'.won = 0
    BY DEF ReadConfig, StartSyncRun, JobOK, Jobs, Early
  <2>3. RecordFailure \/ RecordSuccess \/ Abandon => job'.won = 0
    BY DEF RecordFailure, RecordSuccess, Abandon, End, NoJob
  <2>4. job'.won = 0 BY <1>6, <2>1, <2>2, <2>3
  <2> QED BY <2>4 DEF WitnessInv
<1> QED
  BY <1>1, <1>2, <1>3, <1>4, <1>5, <1>6 DEF Next, SyncStep, ItemStep, Rest

(***************************************************************************)
(* The theorems.                                                           *)
(***************************************************************************)

\* Every step keeps the core invariant, and never takes from an item or from
\* the archive what they have.
LEMMA NextCore ==
  ASSUME Core, [Next]_vars PROVE Core' /\ KeepsItems /\ KeepsArchive
<1>1. Frame /\ FreshnessInv /\ ArchiveInv BY DEF Core, Frame
<1>2. Frame' BY <1>1, NextFrame
<1>3. FreshnessInv' /\ KeepsItems BY <1>1, NextFreshness
<1>4. ArchiveInv' /\ KeepsArchive BY <1>1, NextArchive
<1> QED BY <1>2, <1>3, <1>4 DEF Core, Frame

\* The core invariant holds in every reachable state.
THEOREM CoreInvariance == Spec => []Core
<1>1. Core /\ [Next]_vars => Core' BY NextCore
<1> QED BY <1>1, InitCore, PTL DEF Spec

\* The variables of the synchronization keep their types.
THEOREM SyncTypeCorrect == Spec => []TypeOK
<1>1. Core => TypeOK BY DEF Core
<1> QED BY <1>1, CoreInvariance, PTL

\* An item that reads as fresh has the data it vouches for, and no attempt,
\* failure or crash takes a success or its data away.
THEOREM FreshnessIsKept == Spec => FreshnessKept
<1>1. Core => FreshnessHonest BY DEF Core, FreshnessInv
<1>2. Core /\ [Next]_vars =>
        [\A k \in Items : success'[k] >= success[k] /\ data'[k] >= data[k]]_vars
  BY NextCore DEF KeepsItems
<1> QED
  BY <1>1, <1>2, CoreInvariance, PTL DEF Spec, FreshnessKept, FailureKeepsSuccess

\* A frozen season is a stored one that is over; it is never thawed and its
\* rows are never written again.
THEOREM ArchiveStaysFrozen == Spec => ArchiveIsFrozen
<1>1. Core => ArchiveHasSnapshot BY DEF Core, ArchiveInv
<1>2. Core /\ [Next]_vars =>
        [\A k \in archived : k \in archived' /\ data'[k] = data[k]]_vars
  BY NextCore DEF KeepsArchive
<1> QED
  BY <1>1, <1>2, CoreInvariance, PTL DEF Spec, ArchiveIsFrozen, FrozenArchive

\* A season that will never be fetched again has its rows.
THEOREM ManifestIsHonest == Spec => []ManifestHonest
<1>1. Init => ManifestHonest BY DEF Init, ManifestHonest
<1>2. Core /\ ManifestHonest /\ [Next]_vars => ManifestHonest'
  BY NextCore, NextManifest DEF Core, Frame
<1> QED BY <1>1, <1>2, CoreInvariance, PTL DEF Spec

\* An open circuit has its failed runs and a complete run its item.
LEMMA OutcomesAreHonest ==
  ASSUME Core, OutcomeInv PROVE RunOutcomeIsHonest
<1> USE DEF Core, OutcomeInv
<1>1. CircuitHasCause
  <2>1. runs \in Seq(RunStatus) BY DEF TypeOK, RunStatus
  <2>2. Unsuccessful \subseteq 1..Len(runs) /\ Behind \subseteq Unsuccessful
    BY DEF Unsuccessful, Behind
  <2>3. /\ Cardinality(Unsuccessful) \in Nat /\ Cardinality(Behind) \in Nat
        /\ Cardinality(Behind) <= Cardinality(Unsuccessful)
    BY <2>1, <2>2, RunsCanBeCounted, FS_Subset
  <2>4. board.failures \in Nat /\ FailureLimit \in Nat
    BY SyncAssumption DEF TypeOK
  <2>5. board.circuit => Cardinality(Unsuccessful) >= FailureLimit
    BY <2>3, <2>4 DEF CircuitInv
  <2> QED BY <2>5 DEF CircuitHasCause, Unsuccessful
<1>2. CompletedRunHasItem
  <2> SUFFICES ASSUME at = "recordSuccess", job.league \notin archived
               PROVE  \E k \in {job.league} \cup Steps :
                        status[k] = "complete" \/ k \in manifest
    BY DEF CompletedRunHasItem
  <2>1. job.won > 0 BY DEF JobOK
  <2>2. PICK i \in 0..job.pos - 1 :
          \/ status[ItemAt(job.league, i)] = "complete"
          \/ ItemAt(job.league, i) \in manifest
    BY <2>1 DEF WitnessInv
  <2>3. ItemAt(job.league, i) \in {job.league} \cup Steps
    BY SyncAssumption DEF ItemAt, TypeOK, Steps
  <2> QED BY <2>2, <2>3
<1> QED BY <1>1, <1>2 DEF RunOutcomeIsHonest

\* What is recorded of runs is what came of them: the circuit is open only if so many runs
\* that are not complete have begun since the last run whose success the dashboard recorded
\* (RecordProviderSuccess and RecordProviderFailure, status.go), and a run recorded as
\* complete has an item that is up to date, whatever died between the transactions.
THEOREM RunOutcomesAreHonest == Spec => []RunOutcomeIsHonest
<1>1. Init => OutcomeInv
  <2>1. ASSUME Init PROVE OutcomeInv
    <3>1. Unsuccessful = {} BY <2>1 DEF Init, Unsuccessful
    <3>2. Cardinality(Behind) = 0 BY <3>1, FS_EmptySet DEF Behind
    <3> QED BY <2>1, <3>2 DEF Init, NoJob, OutcomeInv, CircuitInv, WitnessInv
  <2> QED BY <2>1
<1>2. Core /\ OutcomeInv /\ [Next]_vars => OutcomeInv'
  BY NextFrame, NextCircuit, NextWitness DEF Core, Frame, OutcomeInv
<1>3. Core /\ OutcomeInv => RunOutcomeIsHonest BY OutcomesAreHonest
<1> QED BY <1>1, <1>2, <1>3, CoreInvariance, PTL DEF Spec
==============================================================================
