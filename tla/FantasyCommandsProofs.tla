------------------------ MODULE FantasyCommandsProofs ------------------------
(***************************************************************************)
(* What holds for any number of commands beside a synchronization: its run *)
(* row stays its own, what is served without a synchronization is there,   *)
(* and freshness and archives are as honest as they are without commands.  *)
(* Most steps are steps of SyncRun (SyncRunProofs); the rest change the    *)
(* configuration or the rows of other runs.                                *)
(***************************************************************************)
EXTENDS FantasyCommands, SyncRunProofs

Lines == {"off", "season", "check", "sync", "wait", "decide", "read",
          "players", "notice", "pick", "write"} \cup Ended
Fates == {"none", "fresh", "unread", "synced", "failed"}
Configs == [league : Names \cup {None}, team : Keys \cup {None}]
Commands == [at : Lines, kind : Kinds, pick : BOOLEAN, over : Names \cup {None},
             league : Names \cup {None}, since : Times, fate : Fates,
             shown : Times \cup {Never}, told : BOOLEAN, held : Configs]

\* A team is only saved for a league that is stored, so under its key.
PicksKey == \A c \in Owners : cmd[c].at \in {"pick", "write"} => cmd[c].league \in Keys

\* Nobody waits for a synchronization that is over.
Waiting ==
  /\ \A c \in Owners : cmd[c].at = "wait" <=> job.owner = c
  /\ at = "idle" => job.owner = Nobody

\* Rows that are there or about to be; the refresh that is recorded is one of them,
\* and none of the synchronization's.
Claimed == Len(runs) + (IF at \in {"config", "start"} THEN 1 ELSE 0)
RowsOK ==
  /\ Claimed <= MaxRuns
  /\ refresh \in 0..Len(runs)
  /\ refresh # 0 => refresh # job.run

CommandsOK == cmd \in [Owners -> Commands] /\ PicksKey /\ Waiting /\ ServesStored

CommandsInv == Core /\ RowsOK /\ CommandsOK

(***************************************************************************)
(* What a step of one command needs to show.                               *)
(***************************************************************************)

\* A command that serves has something to serve.
HasData(r) ==
  r.at \in {"read", "players"} /\ r.fate \in {"fresh", "failed"}
    => r.league \in Keys /\ data'[r.league] # Never

\* Data stays: what was stored is stored.
LEMMA StoredStays ==
  ASSUME Core, Core', KeepsItems, NEW k \in Keys, data[k] # Never
  PROVE  data'[k] # Never
<1>1. k \in Items BY DEF Items
<1>2. /\ data[k] \in Times \cup {Never} /\ data'[k] \in Times \cup {Never}
      /\ data'[k] >= data[k]
  BY <1>1 DEF Core, TypeOK, KeepsItems
<1> QED BY <1>2, SyncAssumption DEF Times, Never

\* One command goes on as r; the others see nothing of it.
LEMMA OneCommand ==
  ASSUME CommandsOK, Core, Core', KeepsItems, NEW c \in Owners, NEW r \in Commands,
         cmd' = [cmd EXCEPT ![c] = r],
         r.at \in {"pick", "write"} => r.league \in Keys,
         r.at = "wait" <=> job'.owner = c,
         \A d \in Owners \ {c} : job'.owner = d <=> job.owner = d,
         at' = "idle" => job'.owner = Nobody,
         HasData(r)
  PROVE  CommandsOK'
<1> USE DEF CommandsOK
<1>1. /\ cmd' \in [Owners -> Commands] /\ cmd'[c] = r
      /\ \A d \in Owners \ {c} : cmd'[d] = cmd[d]
  OBVIOUS
<1>2. PicksKey' BY <1>1 DEF PicksKey
<1>3. Waiting' BY <1>1 DEF Waiting
<1>4. ServesStored'
  <2>1. ASSUME NEW d \in Owners, cmd'[d].at \in {"read", "players"},
               cmd'[d].fate \in {"fresh", "failed"}
        PROVE  cmd'[d].league \in Keys /\ data'[cmd'[d].league] # Never
    <3>1. CASE d = c BY <1>1, <2>1, <3>1 DEF HasData
    <3>2. CASE d # c
      <4>1. cmd'[d] = cmd[d] BY <1>1, <3>2
      <4>2. cmd[d].league \in Keys /\ data[cmd[d].league] # Never
        BY <2>1, <4>1 DEF ServesStored, Stored
      <4> QED BY <4>1, <4>2, StoredStays
    <3> QED BY <3>1, <3>2
  <2> QED BY <2>1 DEF ServesStored, Stored
<1> QED BY <1>1, <1>2, <1>3, <1>4

\* No command makes a step.
LEMMA NoCommand ==
  ASSUME CommandsOK, Core, Core', KeepsItems, UNCHANGED cmd,
         \A d \in Owners : job'.owner = d <=> job.owner = d,
         at' = "idle" => job'.owner = Nobody
  PROVE  CommandsOK'
<1> USE DEF CommandsOK
<1>1. PicksKey' BY DEF PicksKey
<1>2. Waiting' BY DEF Waiting
<1>3. ServesStored'
  <2>1. ASSUME NEW d \in Owners, cmd[d].at \in {"read", "players"},
               cmd[d].fate \in {"fresh", "failed"}
        PROVE  cmd[d].league \in Keys /\ data'[cmd[d].league] # Never
    BY <2>1, StoredStays DEF ServesStored, Stored
  <2> QED BY <2>1 DEF ServesStored, Stored
<1> QED BY <1>1, <1>2, <1>3

\* A command's next line is again a command.
LEMMA SetLine ==
  ASSUME NEW r \in Commands, NEW to \in Lines
  PROVE  /\ [r EXCEPT !.at = to] \in Commands
         /\ [r EXCEPT !.at = to].at = to
         /\ [r EXCEPT !.at = to].league = r.league
         /\ [r EXCEPT !.at = to].fate = r.fate
BY DEF Commands

(***************************************************************************)
(* What a synchronization does to the rows, and others to its own.         *)
(***************************************************************************)

\* A synchronization adds one row, which nobody else has.
LEMMA RowsBySync ==
  ASSUME Core, RowsOK, [Next]_vars, UNCHANGED refresh PROVE RowsOK'
<1> USE DEF RowsOK, Claimed
<1>0. runs \in Seq(RunStatus) /\ Len(runs) \in Nat /\ MaxRuns \in Nat /\ job \in Jobs
  <2>1. runs \in Seq(RunStatus) /\ job \in Jobs
    BY DEF Core, TypeOK, JobOK, RunStatus
  <2> QED BY <2>1, LenProperties, SyncAssumption
<1>1. CASE \E o \in Owners \cup {Nobody}, n \in Names \cup {None} : Begin(o, n)
  <2>1. PICK o \in Owners \cup {Nobody}, n \in Names \cup {None} : Begin(o, n) BY <1>1
  <2>2. /\ at = "idle" /\ at' = "config" /\ runs' = runs /\ Len(runs) < MaxRuns
        /\ job'.run = 0
    BY <2>1 DEF Begin, runVars, NoJob
  <2> QED BY <1>0, <2>2
<1>2. CASE ReadConfig
  <2>1. at = "config" /\ at' = "start" /\ runs' = runs /\ job'.run = job.run
    BY <1>0, <1>2 DEF ReadConfig, runVars, Jobs
  <2> QED BY <1>0, <2>1
<1>3. CASE StartSyncRun
  <2>1. /\ at = "start" /\ at' = "item" /\ Len(runs') = Len(runs) + 1
        /\ job'.run = Len(runs) + 1
    BY <1>0, <1>3, AppendProperties DEF StartSyncRun, Jobs, RunStatus
  <2> QED BY <1>0, <2>1
<1>4. CASE FailSyncRun \/ CompleteSyncRun
  <2>1. /\ Len(runs') = Len(runs) /\ job' = job
        /\ at \notin {"config", "start"} /\ at' \notin {"config", "start"}
    BY <1>0, <1>4, ExceptSeq
    DEF FailSyncRun, CompleteSyncRun, Core, OwnRow, Early
  <2> QED BY <1>0, <2>1
<1>5. CASE RecordFailure \/ RecordSuccess \/ Abandon
  <2>1. runs' = runs /\ at' = "idle" /\ job'.run = 0
    BY <1>5 DEF RecordFailure, RecordSuccess, Abandon, End, NoJob, runVars
  <2> QED BY <1>0, <2>1
<1>6. CASE ItemStep \/ Tally
  <2>1. /\ runs' = runs /\ job'.run = job.run
        /\ at \notin {"config", "start"} /\ at' \notin {"config", "start"}
    BY <1>0, <1>6
    DEF ItemStep, SkipItem, CheckFails, AttemptItem, AcquireYahoo, ReplaceYahoo,
        ArchiveYahoo, SaveConfig, Acquire, Replace, Settle, ActionFails, ItemFails,
        MarkItem, Win, Lose, NextItem, Tally, runVars, Jobs
  <2> QED BY <1>0, <2>1
<1>7. CASE Tick \/ (\E k \in Ending : SeasonEnds(k)) \/ UNCHANGED vars
  <2>1. runs' = runs /\ job' = job /\ at' = at
    BY <1>7 DEF Tick, SeasonEnds, vars, runVars
  <2> QED BY <1>0, <2>1
<1> QED
  BY <1>1, <1>2, <1>3, <1>4, <1>5, <1>6, <1>7 DEF Next, SyncStep, Rest

\* A step of the synchronization that does not end it stays with whoever waits for it.
LEMMA OwnerStays ==
  ASSUME Core, SyncStep, at' # "idle"
  PROVE  job'.owner = job.owner /\ at # "idle"
<1>1. job \in Jobs BY DEF Core, JobOK
<1> QED
  BY <1>1
  DEF SyncStep, ReadConfig, StartSyncRun, ItemStep, SkipItem, CheckFails, AttemptItem,
      AcquireYahoo, ReplaceYahoo, ArchiveYahoo, SaveConfig, Acquire, Replace, Settle,
      ActionFails, ItemFails, MarkItem, Win, Lose, NextItem, Tally, FailSyncRun,
      CompleteSyncRun, RecordFailure, RecordSuccess, End, Jobs

\* Nobody owns a synchronization that has ended.
LEMMA EndLeaves ==
  ASSUME RecordSuccess \/ RecordFailure \/ Abandon
  PROVE  at' = "idle" /\ job'.owner = Nobody
BY DEF RecordSuccess, RecordFailure, Abandon, End, NoJob

\* The configuration is somebody else's to change, too.
LEMMA ConfigCore ==
  ASSUME Core, config' \in Configs,
         UNCHANGED <<world, itemVars, dataVars, runVars, at, job>>
  PROVE  Core' /\ KeepsItems /\ KeepsArchive
<1> USE DEF Core, world, itemVars, dataVars, runVars
<1>1. TypeOK' BY DEF TypeOK, Configs
<1>2. JobOK' BY DEF JobOK
<1>3. OwnRow' BY DEF OwnRow
<1>4. FreshnessInv' BY DEF FreshnessInv, FreshnessHonest, Item
<1>5. ArchiveInv' BY DEF ArchiveInv, ArchiveHasSnapshot
<1>6. \A k \in Items : success[k] \in Int /\ data[k] \in Int
  BY SyncAssumption DEF TypeOK, Times, Never
<1>7. KeepsItems /\ KeepsArchive BY <1>6 DEF KeepsItems, KeepsArchive
<1> QED BY <1>1, <1>2, <1>3, <1>4, <1>5, <1>7

\* So are the rows of other runs.
LEMMA OtherRowsCore ==
  ASSUME Core, runs' \in Seq(RunStatus), Len(runs') >= Len(runs),
         \A r \in 1..Len(runs) : r = job.run => runs'[r] = runs[r],
         UNCHANGED <<world, config, itemVars, dataVars, board, at, job>>
  PROVE  Core' /\ KeepsItems /\ KeepsArchive
<1> USE DEF Core, world, itemVars, dataVars
<1>0. Len(runs) \in Nat /\ Len(runs') \in Nat
  BY LenProperties DEF TypeOK
<1>1. TypeOK' BY <1>0 DEF TypeOK, RunStatus
<1>2. JobOK' BY DEF JobOK
<1>3. OwnRow'
  <2>1. UNCHANGED <<board, at, job>> OBVIOUS
  <2>2. board.succeeded \in Nat /\ job.run \in Nat BY DEF TypeOK, JobOK, Jobs
  <2>3. board.succeeded <= Len(runs') BY <1>0, <2>2 DEF OwnRow
  <2>4. at \notin Early => board.succeeded < job.run /\ job.run \in 1..Len(runs') /\ runs'[job.run] = runs[job.run]
    BY <1>0, <2>2 DEF OwnRow
  <2>5. at \in AtItem \cup {"tally", "fail", "complete", "recordFailure"} => at \notin Early
    BY DEF AtItem, Early
  <2> QED BY <2>1, <2>3, <2>4, <2>5 DEF OwnRow, Early, AtItem
<1>4. FreshnessInv' BY DEF FreshnessInv, FreshnessHonest, Item
<1>5. ArchiveInv' BY DEF ArchiveInv, ArchiveHasSnapshot
<1>6. \A k \in Items : success[k] \in Int /\ data[k] \in Int
  BY SyncAssumption DEF TypeOK, Times, Never
<1>7. KeepsItems /\ KeepsArchive BY <1>6 DEF KeepsItems, KeepsArchive
<1> QED BY <1>1, <1>2, <1>3, <1>4, <1>5, <1>7

(***************************************************************************)
(* The steps.                                                              *)
(***************************************************************************)
KeepsAll == Core' /\ KeepsItems /\ KeepsArchive

\* Every step of the synchronization keeps its own invariant.
LEMMA SyncKeeps == ASSUME Core, [Next]_vars PROVE KeepsAll
BY NextCore DEF KeepsAll

\* Nobody has started.
LEMMA InitCommands == CommandsInit => CommandsInv
<1> SUFFICES ASSUME CommandsInit PROVE CommandsInv OBVIOUS
<1> USE SyncAssumption DEF CommandsInit
<1>1. Core BY InitCore
<1>2. RowsOK BY EmptySeq DEF RowsOK, Claimed, Init
<1>3. Idle \in Commands
  BY DEF Idle, Commands, Lines, Ended, Kinds, Fates, Configs, Times
<1>4. cmd \in [Owners -> Commands] /\ \A c \in Owners : cmd[c].at = "off"
  BY <1>3 DEF Idle
<1>5. PicksKey /\ ServesStored BY <1>4 DEF PicksKey, ServesStored
<1>6. Waiting BY <1>4 DEF Waiting, Init, NoJob
<1> QED BY <1>1, <1>2, <1>4, <1>5, <1>6 DEF CommandsInv, CommandsOK

\* A command that only looks: nothing but the command changes.
LEMMA LooksOnly ==
  ASSUME CommandsInv, NEW c \in Owners, cmd[c].at # "wait", UNCHANGED <<vars, refresh>>,
         NEW r \in Commands, r.at # "wait", cmd' = [cmd EXCEPT ![c] = r],
         r.at \in {"pick", "write"} => r.league \in Keys,
         r.at \in {"read", "players"} /\ r.fate \in {"fresh", "failed"} => Stored(r.league)
  PROVE  CommandsInv' /\ KeepsAll
<1> USE DEF CommandsInv
<1>1. KeepsAll BY SyncKeeps
<1>2. RowsOK' BY DEF RowsOK, Claimed, vars
<1>3. job.owner # c BY DEF CommandsOK, Waiting
<1>4. at' = "idle" => job'.owner = Nobody BY DEF CommandsOK, Waiting, vars
<1>5. HasData(r) BY DEF HasData, Stored, vars
<1>6. job' = job BY DEF vars
<1>7. CommandsOK' BY <1>1, <1>3, <1>4, <1>5, <1>6, OneCommand DEF KeepsAll
<1> QED BY <1>1, <1>2, <1>7 DEF KeepsAll

\* A new command has everything before it.
LEMMA StartCommandInv ==
  ASSUME CommandsInv, NEW c \in Owners, NEW kind \in Kinds,
         NEW over \in Names \cup {None}, NEW pick \in BOOLEAN,
         StartCommand(c, kind, over, pick)
  PROVE  CommandsInv' /\ KeepsAll
<1> DEFINE league == IF over # None THEN over ELSE config.league
           to == IF kind = "matchup" THEN "season" ELSE "check"
           r == [Idle EXCEPT !.at = to, !.kind = kind, !.pick = pick, !.over = over,
                             !.league = league]
<1>1. cmd' = [cmd EXCEPT ![c] = r] /\ UNCHANGED <<vars, refresh>> /\ cmd[c].at # "wait"
  BY DEF StartCommand, Ended
<1>2. league \in Names \cup {None} /\ to \in {"season", "check"}
  BY DEF CommandsInv, Core, TypeOK
<1>3. Idle \in Commands
  BY SyncAssumption DEF Idle, Commands, Lines, Ended, Kinds, Fates, Configs, Times
<1> HIDE DEF league, to
<1>4. r \in Commands /\ r.at = to BY <1>2, <1>3 DEF Commands, Lines
<1> HIDE DEF r
<1> QED BY <1>1, <1>2, <1>4, LooksOnly

\* The commands that only look, line by line.
LEMMA LookInv ==
  ASSUME CommandsInv, NEW c \in Owners,
         \/ FindSeason(c) \/ CheckFresh(c) \/ AutoSyncRefused(c) \/ Decide(c)
         \/ ReadTeams(c) \/ ReadPlayers(c) \/ YahooNotice(c) \/ ReadSettings(c)
         \/ CommandFails(c)
  PROVE  CommandsInv' /\ KeepsAll
<1> DEFINE r == cmd[c]
<1>0. /\ r \in Commands /\ cmd \in [Owners -> Commands]
      /\ r.at \in {"pick", "write"} => r.league \in Keys
      /\ r.at \in {"read", "players"} /\ r.fate \in {"fresh", "failed"} => Stored(r.league)
      /\ \A k \in Keys : success[k] # Never => Stored(k)
  BY DEF CommandsInv, CommandsOK, PicksKey, ServesStored, Core, FreshnessInv, Items, Stored
<1>1. CASE \E to \in {"check", "failed", "done", "error"} :
             Goto(c, to) /\ UNCHANGED <<vars, refresh>> /\ r.at # "wait"
  <2>1. PICK to \in {"check", "failed", "done", "error"} :
          Goto(c, to) /\ UNCHANGED <<vars, refresh>> /\ r.at # "wait"
    BY <1>1
  <2>2. to \in Lines BY DEF Lines, Ended
  <2>3. cmd' = [cmd EXCEPT ![c] = [r EXCEPT !.at = to]] BY <2>1 DEF Goto
  <2>4. [r EXCEPT !.at = to] \in Commands /\ [r EXCEPT !.at = to].at = to
    BY <1>0, <2>2, SetLine
  <2> QED BY <2>1, <2>3, <2>4, LooksOnly
<1>2. CASE FindSeason(c)
  BY <1>1, <1>2 DEF FindSeason
<1>3. CASE CommandFails(c)
  BY <1>1, <1>3 DEF CommandFails
<1>4. CASE CheckFresh(c)
  <2>1. r.at = "check" /\ UNCHANGED <<vars, refresh>> BY <1>4 DEF CheckFresh
  <2>2. CASE cmd' = [cmd EXCEPT ![c].at = "sync", ![c].since = now]
    <3>1. cmd' = [cmd EXCEPT ![c] = [r EXCEPT !.at = "sync", !.since = now]]
      BY <2>2
    <3>2. now \in Times BY DEF CommandsInv, Core, TypeOK
    <3>3. /\ [r EXCEPT !.at = "sync", !.since = now] \in Commands
          /\ [r EXCEPT !.at = "sync", !.since = now].at = "sync"
      BY <1>0, <3>2 DEF Commands, Lines
    <3> QED BY <2>1, <3>1, <3>3, LooksOnly
  <2>3. ASSUME NEW fate \in {"fresh", "unread"}, fate = "fresh" => ~TooOld(r.league),
               cmd' = [cmd EXCEPT ![c].at = "read", ![c].fate = fate]
        PROVE  CommandsInv' /\ KeepsAll
    <3> DEFINE s == [r EXCEPT !.at = "read", !.fate = fate]
    <3>1. cmd' = [cmd EXCEPT ![c] = s] BY <2>3
    <3>2. /\ s \in Commands /\ s.at = "read" /\ s.fate = fate /\ s.league = r.league
      BY <1>0 DEF Commands, Lines, Fates
    <3>3. fate = "fresh" => Stored(r.league)
      <4>1. ~TooOld(r.league) => r.league \in Keys /\ success[r.league] # Never
        BY DEF TooOld, Needs
      <4> QED BY <1>0, <2>3, <4>1
    <3>4. s.at \in {"read", "players"} /\ s.fate \in {"fresh", "failed"}
            => Stored(s.league)
      BY <2>3, <3>2, <3>3
    <3> HIDE DEF s
    <3> QED BY <2>1, <3>1, <3>2, <3>4, LooksOnly
  <2> QED BY <1>4, <2>2, <2>3 DEF CheckFresh
<1>5. CASE AutoSyncRefused(c)
  <2> DEFINE s == [r EXCEPT !.at = "decide", !.fate = "failed"]
  <2>1. /\ r.at = "sync" /\ UNCHANGED <<vars, refresh>>
        /\ cmd' = [cmd EXCEPT ![c] = s]
    BY <1>5 DEF AutoSyncRefused
  <2>2. s \in Commands /\ s.at = "decide" BY <1>0 DEF Commands, Lines, Fates
  <2> HIDE DEF s
  <2> QED BY <2>1, <2>2, LooksOnly
<1>6. CASE Decide(c)
  <2> DEFINE served == IF r.fate = "synced" THEN TRUE
                       ELSE r.league \in Keys /\ success[r.league] # Never
             s == [r EXCEPT !.at = "read"]
  <2>1. r.at = "decide" /\ UNCHANGED <<vars, refresh>> BY <1>6 DEF Decide
  <2>2. CASE ~served
    <3>1. Goto(c, "failed") BY <1>6, <2>2 DEF Decide
    <3> QED BY <1>1, <2>1, <3>1
  <2>3. CASE served
    <3>1. cmd' = [cmd EXCEPT ![c] = s] BY <1>6, <2>3 DEF Decide, Goto
    <3>2. s \in Commands /\ s.at = "read" /\ s.league = r.league /\ s.fate = r.fate
      BY <1>0, SetLine DEF Lines
    <3>3. s.fate \in {"fresh", "failed"} => Stored(s.league)
      BY <1>0, <2>3, <3>2
    <3> HIDE DEF s, served
    <3> QED BY <2>1, <3>1, <3>2, <3>3, LooksOnly
  <2> QED BY <2>2, <2>3
<1>7. CASE ReadTeams(c)
  <2>1. r.at = "read" /\ UNCHANGED <<vars, refresh>> BY <1>7 DEF ReadTeams
  <2>2. PICK to \in {"failed", "players", "pick", "done"} :
          Goto(c, to) /\ (to \in {"players", "pick"} => Stored(r.league))
    BY <1>7 DEF ReadTeams
  <2> DEFINE s == [r EXCEPT !.at = to]
  <2>3. cmd' = [cmd EXCEPT ![c] = s] BY <2>2 DEF Goto
  <2>4. s \in Commands /\ s.at = to /\ s.league = r.league
    BY <1>0, SetLine DEF Lines, Ended
  <2>5. Stored(r.league) => r.league \in Keys BY DEF Stored
  <2> HIDE DEF s
  <2> QED BY <2>1, <2>2, <2>3, <2>4, <2>5, LooksOnly
<1>8. CASE ReadPlayers(c)
  <2> DEFINE shown == IF Stored(r.league) THEN success[r.league] ELSE Never
             s == [r EXCEPT !.at = "notice", !.shown = shown]
  <2>1. /\ r.at # "wait" /\ UNCHANGED <<vars, refresh>>
        /\ cmd' = [cmd EXCEPT ![c] = s]
    BY <1>8 DEF ReadPlayers
  <2>2. shown \in Times \cup {Never}
    BY DEF CommandsInv, Core, TypeOK, Stored, Items
  <2> HIDE DEF shown
  <2>3. s \in Commands /\ s.at = "notice" BY <1>0, <2>2 DEF Commands, Lines
  <2> HIDE DEF s
  <2> QED BY <2>1, <2>3, LooksOnly
<1>9. CASE YahooNotice(c)
  <2> DEFINE told == runs # <<>> /\ runs[Len(runs)] = "failed"
             s == [r EXCEPT !.at = "done", !.told = told]
  <2>1. /\ r.at # "wait" /\ UNCHANGED <<vars, refresh>>
        /\ cmd' = [cmd EXCEPT ![c] = s]
    BY <1>9 DEF YahooNotice
  <2>2. told \in BOOLEAN OBVIOUS
  <2> HIDE DEF told
  <2>3. s \in Commands /\ s.at = "done" BY <1>0, <2>2 DEF Commands, Lines, Ended
  <2> HIDE DEF s
  <2> QED BY <2>1, <2>3, LooksOnly
<1>10. CASE ReadSettings(c)
  <2> DEFINE to == IF r.over # None THEN "done" ELSE "write"
             s == [r EXCEPT !.at = to, !.held = config]
  <2>1. /\ r.at = "pick" /\ UNCHANGED <<vars, refresh>>
        /\ cmd' = [cmd EXCEPT ![c] = s]
    BY <1>10 DEF ReadSettings
  <2>2. to \in {"done", "write"} OBVIOUS
  <2>3. config \in Configs BY DEF CommandsInv, Core, TypeOK, Configs
  <2> HIDE DEF to
  <2>4. s \in Commands /\ s.at = to /\ s.league = r.league
    BY <1>0, <2>2, <2>3 DEF Commands, Lines, Ended
  <2> HIDE DEF s
  <2> QED BY <1>0, <2>1, <2>2, <2>4, LooksOnly
<1> QED
  BY <1>2, <1>3, <1>4, <1>5, <1>6, <1>7, <1>8, <1>9, <1>10

\* A synchronization begins on behalf of a command, or returns to it.
LEMMA AutoSyncInv ==
  ASSUME CommandsInv, NEW c \in Owners, AutoSyncBegins(c) \/ AutoSyncReturns(c)
  PROVE  CommandsInv' /\ KeepsAll
<1> DEFINE r == cmd[c]
<1> USE SyncAssumption
<1>0. /\ r \in Commands /\ cmd \in [Owners -> Commands]
      /\ \A d \in Owners : cmd[d].at = "wait" <=> job.owner = d
  BY DEF CommandsInv, CommandsOK, Waiting
<1>1. CASE AutoSyncBegins(c)
  <2> DEFINE s == [r EXCEPT !.at = "wait"]
  <2>1. /\ Begin(c, r.over) /\ UNCHANGED refresh /\ cmd' = [cmd EXCEPT ![c] = s]
    BY <1>1 DEF AutoSyncBegins, Goto
  <2>2. r.over \in Names \cup {None} BY <1>0 DEF Commands
  <2>3. KeepsAll BY <2>1, <2>2, SyncKeeps DEF CommandsInv, Next
  <2>4. RowsOK' BY <2>1, <2>2, RowsBySync DEF CommandsInv, Next
  <2>5. at = "idle" /\ at' = "config" /\ job'.owner = c BY <2>1 DEF Begin, NoJob
  <2>6. job.owner = Nobody BY <2>5 DEF CommandsInv, CommandsOK, Waiting
  <2>7. s \in Commands /\ s.at = "wait" BY <1>0, SetLine DEF Lines
  <2> HIDE DEF s
  <2>8. HasData(s) BY <2>7 DEF HasData
  <2>9. CommandsOK'
    BY <2>1, <2>3, <2>5, <2>6, <2>7, <2>8, OneCommand DEF CommandsInv, KeepsAll
  <2> QED BY <2>3, <2>4, <2>9 DEF CommandsInv, KeepsAll
<1>2. CASE AutoSyncReturns(c)
  <2>1. /\ RecordSuccess \/ RecordFailure \/ Abandon
        /\ job.owner = c /\ UNCHANGED refresh
    BY <1>2 DEF AutoSyncReturns
  <2>2. PICK fate \in {"synced", "failed"} : Resume(c, fate)
    BY <1>2 DEF AutoSyncReturns
  <2> DEFINE s == [r EXCEPT !.at = "decide", !.fate = fate]
  <2>3. cmd' = [cmd EXCEPT ![c] = s] BY <2>2 DEF Resume
  <2>4. KeepsAll BY <2>1, SyncKeeps DEF CommandsInv, Next, SyncStep
  <2>5. RowsOK' BY <2>1, RowsBySync DEF CommandsInv, Next, SyncStep
  <2>6. at' = "idle" /\ job'.owner = Nobody BY <2>1, EndLeaves
  <2>7. s \in Commands /\ s.at = "decide" BY <1>0 DEF Commands, Lines, Fates
  <2> HIDE DEF s
  <2>8. HasData(s) BY <2>7 DEF HasData
  <2>9. CommandsOK'
    BY <2>1, <2>3, <2>4, <2>6, <2>7, <2>8, OneCommand DEF CommandsInv, KeepsAll
  <2> QED BY <2>4, <2>5, <2>9 DEF CommandsInv, KeepsAll
<1> QED BY <1>1, <1>2

\* A command dies, and with it the synchronization it waits for.
LEMMA CommandDiesInv ==
  ASSUME CommandsInv, NEW c \in Owners, CommandDies(c)
  PROVE  CommandsInv' /\ KeepsAll
<1> DEFINE s == [cmd[c] EXCEPT !.at = "dead"]
<1>0. /\ cmd[c] \in Commands /\ cmd \in [Owners -> Commands]
      /\ \A d \in Owners : cmd[d].at = "wait" <=> job.owner = d
  BY DEF CommandsInv, CommandsOK, Waiting
<1>1. cmd' = [cmd EXCEPT ![c] = s] /\ UNCHANGED refresh
  BY DEF CommandDies, Goto
<1>2. s \in Commands /\ s.at = "dead" BY <1>0, SetLine DEF Lines, Ended
<1> HIDE DEF s
<1>3. CASE cmd[c].at # "wait" /\ UNCHANGED vars
  BY <1>1, <1>2, <1>3, LooksOnly
<1>4. CASE cmd[c].at = "wait" /\ Abandon
  <2>1. KeepsAll BY <1>4, SyncKeeps DEF CommandsInv, Next
  <2>2. RowsOK' BY <1>1, <1>4, RowsBySync DEF CommandsInv, Next
  <2>3. at' = "idle" /\ job'.owner = Nobody /\ job.owner = c
    BY <1>0, <1>4, EndLeaves
  <2>4. HasData(s) BY <1>2 DEF HasData
  <2>5. CommandsOK'
    BY <1>1, <1>2, <2>1, <2>3, <2>4, SyncAssumption, OneCommand
    DEF CommandsInv, KeepsAll
  <2> QED BY <2>1, <2>2, <2>5 DEF CommandsInv, KeepsAll
<1> QED BY <1>3, <1>4 DEF CommandDies

\* A team is saved; what the command held becomes the configuration.
LEMMA PersistTeamInv ==
  ASSUME CommandsInv, NEW c \in Owners, PersistTeam(c)
  PROVE  CommandsInv' /\ KeepsAll
<1> DEFINE r == cmd[c]
           s == [r EXCEPT !.at = "done", !.held = Idle.held]
<1>0. /\ r \in Commands /\ cmd \in [Owners -> Commands] /\ r.at = "write"
      /\ r.league \in Keys
  BY DEF CommandsInv, CommandsOK, PicksKey, PersistTeam
<1>1. /\ UNCHANGED <<world, itemVars, dataVars, runVars, at, job, refresh>>
      /\ cmd' = [cmd EXCEPT ![c] = s]
      /\ config' = [r.held EXCEPT !.team = r.league]
  BY DEF PersistTeam
<1>2. config' \in Configs BY <1>0, <1>1 DEF Commands, Configs
<1>3. KeepsAll BY <1>1, <1>2, ConfigCore DEF CommandsInv, KeepsAll
<1>4. RowsOK' BY <1>1 DEF CommandsInv, RowsOK, Claimed, runVars
<1>5. Idle.held \in Configs BY DEF Idle, Configs
<1>6. s \in Commands /\ s.at = "done" BY <1>0, <1>5 DEF Commands, Lines, Ended
<1> HIDE DEF s
<1>7. HasData(s) BY <1>6 DEF HasData
<1>8. job.owner # c /\ (at' = "idle" => job'.owner = Nobody)
  BY <1>0, <1>1 DEF CommandsInv, CommandsOK, Waiting
<1>9. CommandsOK'
  BY <1>1, <1>3, <1>6, <1>7, <1>8, OneCommand DEF CommandsInv, KeepsAll
<1> QED BY <1>3, <1>4, <1>9 DEF CommandsInv, KeepsAll

\* The others: a league is selected, an MLB command records its refresh.
LEMMA OthersInv ==
  ASSUME CommandsInv,
         (\E n \in Names : SelectLeague(n)) \/ StartRefresh \/ CompleteRefresh
  PROVE  CommandsInv' /\ KeepsAll
<1>0. /\ runs \in Seq(RunStatus) /\ Len(runs) \in Nat
      /\ MaxRuns \in Nat /\ job.run \in 0..Len(runs)
  <2>1. runs \in Seq(RunStatus) /\ job.run \in 0..Len(runs)
    BY DEF CommandsInv, Core, TypeOK, RunStatus
  <2> QED BY <2>1, LenProperties, SyncAssumption
<1>1. /\ UNCHANGED <<at, job, cmd>>
      /\ at' = "idle" => job'.owner = Nobody
  BY DEF SelectLeague, StartRefresh, CompleteRefresh, CommandsInv, CommandsOK, Waiting
<1>2. KeepsAll /\ RowsOK'
  <2>1. CASE \E n \in Names : SelectLeague(n)
    <3>1. PICK n \in Names : SelectLeague(n) BY <2>1
    <3>2. config' \in Configs BY <3>1 DEF SelectLeague, Configs
    <3>3. KeepsAll
      BY <3>1, <3>2, ConfigCore DEF SelectLeague, CommandsInv, KeepsAll
    <3>4. RowsOK'
      BY <3>1 DEF SelectLeague, CommandsInv, RowsOK, Claimed, runVars
    <3> QED BY <3>3, <3>4
  <2>2. CASE StartRefresh
    <3>1. /\ runs' \in Seq(RunStatus) /\ Len(runs') = Len(runs) + 1
          /\ \A r \in 1..Len(runs) : runs'[r] = runs[r]
      BY <1>0, <2>2, AppendProperties DEF StartRefresh, RunStatus
    <3>2. KeepsAll
      BY <1>0, <2>2, <3>1, OtherRowsCore DEF StartRefresh, CommandsInv, KeepsAll
    <3>3. refresh' = Len(runs) + 1 /\ Claimed < MaxRuns
      BY <2>2 DEF StartRefresh, Claimed
    <3>4. RowsOK' BY <1>0, <1>1, <3>1, <3>3 DEF RowsOK, Claimed
    <3> QED BY <3>2, <3>4
  <2>3. CASE CompleteRefresh
    <3>1. refresh \in 1..Len(runs) /\ refresh # job.run
      BY <1>0, <2>3 DEF CompleteRefresh, CommandsInv, RowsOK
    <3>2. /\ runs' \in Seq(RunStatus) /\ Len(runs') = Len(runs)
          /\ \A r \in 1..Len(runs) : r # refresh => runs'[r] = runs[r]
      BY <1>0, <2>3, <3>1, ExceptSeq DEF CompleteRefresh, RunStatus
    <3>3. KeepsAll
      BY <1>0, <2>3, <3>1, <3>2, OtherRowsCore
      DEF CompleteRefresh, CommandsInv, KeepsAll
    <3>4. RowsOK'
      BY <1>0, <1>1, <2>3, <3>2 DEF CompleteRefresh, CommandsInv, RowsOK, Claimed
    <3> QED BY <3>3, <3>4
  <2> QED BY <2>1, <2>2, <2>3
<1>3. CommandsOK' BY <1>1, <1>2, NoCommand DEF CommandsInv, KeepsAll
<1> QED BY <1>2, <1>3 DEF CommandsInv, KeepsAll

\* Time passes, or a synchronization makes a step that no command waits for.
LEMMA SyncAloneInv ==
  ASSUME CommandsInv,
         World \/ (\E n \in Names \cup {None} : SyncByHand(n)) \/ SyncProceeds
         \/ SyncEndsByHand \/ UNCHANGED allVars
  PROVE  CommandsInv' /\ KeepsAll
<1>1. [Next]_vars /\ UNCHANGED <<cmd, refresh>>
  BY DEF World, SyncByHand, SyncProceeds, SyncEndsByHand, allVars, Next, SyncStep
<1>2. KeepsAll BY <1>1, SyncKeeps DEF CommandsInv
<1>3. RowsOK' BY <1>1, RowsBySync DEF CommandsInv
<1>4. /\ \A d \in Owners : job'.owner = d <=> job.owner = d
      /\ at' = "idle" => job'.owner = Nobody
  <2>0. at = "idle" => job.owner = Nobody BY DEF CommandsInv, CommandsOK, Waiting
  <2>1. CASE World \/ UNCHANGED allVars
    BY <2>0, <2>1 DEF World, Tick, SeasonEnds, allVars, vars
  <2>2. CASE \E n \in Names \cup {None} : SyncByHand(n)
    <3>1. at = "idle" /\ at' = "config" /\ job'.owner = Nobody
      BY <2>2 DEF SyncByHand, Begin, NoJob
    <3> QED BY <2>0, <3>1
  <2>3. CASE SyncProceeds
    BY <2>3, OwnerStays DEF SyncProceeds, CommandsInv
  <2>4. CASE SyncEndsByHand
    BY <2>4, EndLeaves DEF SyncEndsByHand
  <2> QED BY <2>1, <2>2, <2>3, <2>4
<1>5. CommandsOK' BY <1>1, <1>2, <1>4, NoCommand DEF CommandsInv, KeepsAll
<1> QED BY <1>2, <1>3, <1>5 DEF CommandsInv, KeepsAll

\* Every step keeps the invariant, and takes nothing from items and archive.
LEMMA NextCommands ==
  ASSUME CommandsInv, [CommandsNext]_allVars PROVE CommandsInv' /\ KeepsAll
<1>1. ASSUME NEW c \in Owners, CommandStep(c) PROVE CommandsInv' /\ KeepsAll
  BY <1>1, LookInv, AutoSyncInv, PersistTeamInv DEF CommandStep
<1> QED
  BY <1>1, StartCommandInv, CommandDiesInv, OthersInv, SyncAloneInv DEF CommandsNext

(***************************************************************************)
(* The theorems.                                                           *)
(***************************************************************************)

\* The strengthening is an invariant.
LEMMA CommandsInvariance == CommandsSpec => []CommandsInv
<1>1. CommandsInv /\ [CommandsNext]_allVars => CommandsInv' BY NextCommands
<1> QED BY <1>1, InitCommands, PTL DEF CommandsSpec

\* However many commands, synchronizations and refreshes there are: the run of a
\* synchronization stays its own, and a command that serves without one, or in spite
\* of one that failed, has stored data to serve; every variable has its type.
THEOREM CommandsAreServed == CommandsSpec => []CommandsInvariant
<1>1. ASSUME CommandsInv PROVE CommandsInvariant
  <2>1. CommandsTypeOK
    <3>1. refresh \in 0..MaxRuns
      <4>1. Len(runs) \in Nat /\ Len(runs) <= MaxRuns /\ refresh \in 0..Len(runs)
        BY <1>1, LenProperties, SyncAssumption
        DEF CommandsInv, RowsOK, Claimed, Core, TypeOK
      <4> QED BY <4>1, SyncAssumption
    <3>2. cmd \in [Owners -> Commands] /\ Waiting
      BY <1>1 DEF CommandsInv, CommandsOK
    <3> QED
      BY <3>1, <3>2
      DEF CommandsTypeOK, Commands, Lines, Fates, Configs, Waiting
  <2>2. RunIsOwned
    BY <1>1 DEF CommandsInv, Core, OwnRow, RunIsOwned, AtItem
  <2>3. ServesStored BY <1>1 DEF CommandsInv, CommandsOK
  <2> QED BY <2>1, <2>2, <2>3 DEF CommandsInvariant
<1>2. CommandsInv => CommandsInvariant BY <1>1
<1> QED BY <1>2, CommandsInvariance, PTL

\* Commands beside synchronizations take no success and no data from an item, either,
\* and what reads as fresh to them is stored.
THEOREM FreshnessBesideCommands == CommandsSpec => FreshnessKept
<1>1. CommandsInv => FreshnessHonest
  BY DEF CommandsInv, Core, FreshnessInv
<1>2. CommandsInv /\ [CommandsNext]_allVars =>
        [\A k \in Items : success'[k] >= success[k] /\ data'[k] >= data[k]]_vars
  BY NextCommands DEF KeepsAll, KeepsItems
<1> QED
  BY <1>1, <1>2, CommandsInvariance, PTL
  DEF CommandsSpec, FreshnessKept, FailureKeepsSuccess

\* Nor do they thaw a frozen season or write its rows.
THEOREM ArchiveBesideCommands == CommandsSpec => ArchiveIsFrozen
<1>1. CommandsInv => ArchiveHasSnapshot BY DEF CommandsInv, Core, ArchiveInv
<1>2. CommandsInv /\ [CommandsNext]_allVars =>
        [\A k \in archived : k \in archived' /\ data'[k] = data[k]]_vars
  BY NextCommands DEF KeepsAll, KeepsArchive
<1> QED
  BY <1>1, <1>2, CommandsInvariance, PTL
  DEF CommandsSpec, ArchiveIsFrozen, FrozenArchive
==============================================================================
