--------------------------- MODULE FantasyCommands ---------------------------
(***************************************************************************)
(* Fantasy commands beside synchronizations. A command reads the league    *)
(* from the configuration, runs a synchronization inside itself when the   *)
(* league's data is too old, then serves what is stored. Meanwhile others  *)
(* synchronize, select a league (st -l) or record MLB refreshes (t, tt,    *)
(* sp) in the same table of runs.                                          *)
(*                                                                         *)
(* internal/app/fantasy.go   r, rt, h, p and the staleness notice          *)
(* internal/app/matchup.go   m, mm and the team they save                  *)
(* internal/app/local.go     st -l                                         *)
(* internal/app/mlb.go       the run rows of MLB commands                  *)
(* internal/cli/cli.go       how a command runs a synchronization          *)
(***************************************************************************)
EXTENDS SyncRun

CONSTANT FantasyTTL   \* age up to which a command serves without a sync

ASSUME CommandsAssumption == FantasyTTL \in Nat

VARIABLES
  cmd,      \* cmd[c]: the fantasy command that process c executes; shown is the
            \* last success on record of the data that it prints
  refresh   \* run row of the MLB command that is recording a refresh, 0: none

allVars == <<vars, cmd, refresh>>

\* Rosters read teams and players, pools only players; matchups read teams.
Kinds == {"roster", "pool", "matchup"}

Idle == [at |-> "off", kind |-> "pool", pick |-> FALSE, over |-> None,
         league |-> None, since |-> 0, fate |-> "none", shown |-> Never,
         told |-> FALSE,
         held |-> [league |-> None, team |-> None]]

Ended == {"done", "failed", "error", "dead"}

CommandsInit == Init /\ cmd = [c \in Owners |-> Idle] /\ refresh = 0

\* A league is found by its stored key: a numeric id finds nothing.
Stored(n) == n \in Keys /\ data[n] # Never

Goto(c, to) == cmd' = [cmd EXCEPT ![c].at = to]

(***************************************************************************)
(* A command starts: -l or the configured league, verbatim.                *)
(***************************************************************************)

\* A matchup with a team argument will save that team. A process identity is
\* used again when its command has ended.
StartCommand(c, kind, over, pick) ==
  LET league == IF over # None THEN over ELSE config.league IN
  /\ cmd[c].at \in {"off"} \cup Ended
  /\ league # None
  /\ pick => kind = "matchup"
  /\ cmd' = [cmd EXCEPT ![c] = [Idle EXCEPT
       !.at = IF kind = "matchup" THEN "season" ELSE "check",
       !.kind = kind, !.pick = pick, !.over = over, !.league = league]]
  /\ UNCHANGED <<vars, refresh>>

\* Matchups need the season of the league before they look at its age.
FindSeason(c) ==
  /\ cmd[c].at = "season"
  /\ Goto(c, IF Stored(cmd[c].league) THEN "check" ELSE "failed")
  /\ UNCHANGED <<vars, refresh>>

(***************************************************************************)
(* ensureFreshYahoo                                                        *)
(***************************************************************************)
TooOld(n) == n \notin Keys \/ Needs(n, FantasyTTL)

\* Fresh data is served; so is data whose age cannot be read.
CheckFresh(c) ==
  /\ cmd[c].at = "check"
  /\ \/ TooOld(cmd[c].league)
        /\ cmd' = [cmd EXCEPT ![c].at = "sync", ![c].since = now]
     \/ ~TooOld(cmd[c].league)
        /\ cmd' = [cmd EXCEPT ![c].at = "read", ![c].fate = "fresh"]
     \/ cmd' = [cmd EXCEPT ![c].at = "read", ![c].fate = "unread"]
  /\ UNCHANGED <<vars, refresh>>

\* The override alone is passed on: without it the synchronization reads the
\* configuration for itself.
AutoSyncBegins(c) ==
  /\ cmd[c].at = "sync"
  /\ Begin(c, cmd[c].over)
  /\ Goto(c, "wait")
  /\ UNCHANGED refresh

\* Another synchronization is active, or the store does not open.
AutoSyncRefused(c) ==
  /\ cmd[c].at = "sync"
  /\ cmd' = [cmd EXCEPT ![c].at = "decide", ![c].fate = "failed"]
  /\ UNCHANGED <<vars, refresh>>

Resume(c, fate) == cmd' = [cmd EXCEPT ![c].at = "decide", ![c].fate = fate]

\* Fault: the outcome does not reach the command.
AutoSyncUnheard(c) ==
  /\ job.owner = c
  /\ RecordSuccess \/ RecordFailure \/ Abandon
  /\ UNCHANGED <<cmd, refresh>>

\* The synchronization of command c returns: nil when its run ended in
\* success, an error when every provider failed or it gave up.
AutoSyncReturns(c) ==
  /\ job.owner = c
  /\ \/ RecordSuccess /\ Resume(c, "synced")
     \/ (RecordFailure \/ Abandon) /\ Resume(c, "failed")
  /\ UNCHANGED refresh

\* Fault: tries until the data is fresh.
DecideAndRetry(c) ==
  /\ cmd[c].at = "decide"
  /\ Goto(c, "check")
  /\ UNCHANGED <<vars, refresh>>

\* Fault: takes an attempt on record for a success.
DecideByAttempt(c) ==
  /\ cmd[c].at = "decide"
  /\ Goto(c, IF cmd[c].fate = "synced" THEN "read"
             ELSE IF cmd[c].league \in Keys /\ status[cmd[c].league] # "absent"
               THEN "read" ELSE "failed")
  /\ UNCHANGED <<vars, refresh>>

\* After an error the last success is served, if there ever was one.
Decide(c) ==
  /\ cmd[c].at = "decide"
  /\ Goto(c, IF cmd[c].fate = "synced" THEN "read"
             ELSE IF cmd[c].league \in Keys /\ success[cmd[c].league] # Never
               THEN "read" ELSE "failed")
  /\ UNCHANGED <<vars, refresh>>

(***************************************************************************)
(* Serving: teams, players and the latest run are read one by one.         *)
(***************************************************************************)

\* Roster and matchup commands select a team among those stored.
ReadTeams(c) ==
  /\ cmd[c].at = "read" /\ cmd[c].kind # "pool"
  /\ Goto(c, IF ~Stored(cmd[c].league) THEN "failed"
             ELSE IF cmd[c].kind = "roster" THEN "players"
             ELSE IF cmd[c].pick THEN "pick" ELSE "done")
  /\ UNCHANGED <<vars, refresh>>

ReadPlayers(c) ==
  /\ \/ cmd[c].at = "read" /\ cmd[c].kind = "pool"
     \/ cmd[c].at = "players"
  /\ cmd' = [cmd EXCEPT ![c].at = "notice",
       ![c].shown = IF Stored(cmd[c].league) THEN success[cmd[c].league]
                                             ELSE Never]
  /\ UNCHANGED <<vars, refresh>>

\* yahooNotice: only a latest run that failed makes the output STALE.
YahooNotice(c) ==
  /\ cmd[c].at = "notice"
  /\ cmd' = [cmd EXCEPT ![c].at = "done",
       ![c].told = runs # <<>> /\ runs[Len(runs)] = "failed"]
  /\ UNCHANGED <<vars, refresh>>

\* A team given by argument is saved, unless the league was: the file is read,
\* changed and written as a whole.
ReadSettings(c) ==
  /\ cmd[c].at = "pick"
  /\ cmd' = [cmd EXCEPT ![c].at = IF cmd[c].over # None THEN "done" ELSE "write",
                        ![c].held = config]
  /\ UNCHANGED <<vars, refresh>>

PersistTeam(c) ==
  /\ cmd[c].at = "write"
  /\ config' = [cmd[c].held EXCEPT !.team = cmd[c].league]
  /\ cmd' = [cmd EXCEPT ![c].at = "done", ![c].held = Idle.held]
  /\ UNCHANGED <<world, itemVars, dataVars, runVars, at, job, refresh>>

\* A read or a write fails.
CommandFails(c) ==
  /\ cmd[c].at \in {"season", "decide", "read", "players", "notice", "pick", "write"}
  /\ Goto(c, "error")
  /\ UNCHANGED <<vars, refresh>>

\* The process dies, and with it the synchronization it runs.
CommandDies(c) ==
  /\ cmd[c].at \notin {"off"} \cup Ended
  /\ IF cmd[c].at = "wait" THEN Abandon ELSE UNCHANGED vars
  /\ Goto(c, "dead")
  /\ UNCHANGED refresh

(***************************************************************************)
(* The others.                                                             *)
(***************************************************************************)

\* st -l: another league than the saved one replaces it and clears the team.
SelectLeague(n) ==
  /\ config.league # n
  /\ config' = [league |-> n, team |-> None]
  /\ UNCHANGED <<world, itemVars, dataVars, runVars, at, job, cmd, refresh>>

\* An MLB command that refreshed its data inserts a run row ...
StartRefresh ==
  /\ refresh = 0
  /\ Len(runs) + (IF at \in {"config", "start"} THEN 1 ELSE 0) < MaxRuns
  /\ runs' = Append(runs, "running")
  /\ refresh' = Len(runs) + 1
  /\ UNCHANGED <<world, config, itemVars, dataVars, board, at, job, cmd>>

\* Fault: every run that is active is completed.
CompleteEveryRun ==
  /\ refresh # 0
  /\ runs' = [r \in DOMAIN runs |-> IF runs[r] = "running" THEN "complete"
                                                           ELSE runs[r]]
  /\ refresh' = 0
  /\ UNCHANGED <<world, config, itemVars, dataVars, board, at, job, cmd>>

\* ... and completes it, or fails to.
CompleteRefresh ==
  /\ refresh # 0
  /\ runs' \in {runs, [runs EXCEPT ![refresh] = "complete"]}
  /\ refresh' = 0
  /\ UNCHANGED <<world, config, itemVars, dataVars, board, at, job, cmd>>

\* The synchronization that is active makes a step that does not end it ...
SyncProceeds == SyncStep /\ at' # "idle" /\ UNCHANGED <<cmd, refresh>>

\* ... or ends, when nobody but the user waits for it.
SyncEndsByHand ==
  /\ job.owner = Nobody
  /\ RecordSuccess \/ RecordFailure \/ Abandon
  /\ UNCHANGED <<cmd, refresh>>

World ==
  /\ Tick \/ \E k \in Ending : SeasonEnds(k)
  /\ UNCHANGED <<cmd, refresh>>

SyncByHand(n) == Begin(Nobody, n) /\ UNCHANGED <<cmd, refresh>>

CommandStep(c) ==
  \/ FindSeason(c) \/ CheckFresh(c)
  \/ AutoSyncBegins(c) \/ AutoSyncRefused(c) \/ AutoSyncReturns(c) \/ Decide(c)
  \/ ReadTeams(c) \/ ReadPlayers(c) \/ YahooNotice(c)
  \/ ReadSettings(c) \/ PersistTeam(c)
  \/ CommandFails(c)

CommandsNext ==
  \/ World
  \/ \E n \in Names \cup {None} : SyncByHand(n)
  \/ SyncProceeds
  \/ SyncEndsByHand
  \/ \E c \in Owners :
       \/ \E kind \in Kinds, over \in Names \cup {None}, pick \in BOOLEAN :
            StartCommand(c, kind, over, pick)
       \/ CommandStep(c)
       \/ CommandDies(c)
  \/ \E n \in Names : SelectLeague(n)
  \/ StartRefresh
  \/ CompleteRefresh

CommandsSpec == CommandsInit /\ [][CommandsNext]_allVars

\* Nothing in a command waits for another process: each goes on until it ends,
\* and so does the synchronization it runs.
FairCommandsSpec ==
  /\ CommandsSpec
  /\ WF_allVars(SyncProceeds)
  /\ \A c \in Owners : WF_allVars(CommandStep(c))

(***************************************************************************)
(* Properties                                                              *)
(***************************************************************************)

\* Every variable has its type.
CommandsTypeOK ==
  /\ refresh \in 0..MaxRuns
  /\ cmd \in [Owners ->
       [at : {"off", "season", "check", "sync", "wait", "decide", "read",
              "players", "notice", "pick", "write"} \cup Ended,
        kind : Kinds, pick : BOOLEAN, over : Names \cup {None},
        league : Names \cup {None}, since : Times,
        fate : {"none", "fresh", "unread", "synced", "failed"},
        shown : Times \cup {Never}, told : BOOLEAN,
        held : [league : Names \cup {None}, team : Keys \cup {None}]]]
  /\ \A c \in Owners : cmd[c].at = "wait" <=> job.owner = c

\* The row of the active synchronization stays "running" until it ends the row
\* itself, although other commands insert and complete rows of the same mode:
\* otherwise a success would be reported as "run was not active".
RunIsOwned ==
  at \in {"item", "acquire", "replace", "archive", "save", "settle", "mark",
          "tally", "fail", "complete"} => runs[job.run] = "running"

\* A command that serves without a sync of its own, or in spite of one that
\* failed, has stored data to serve, whatever crashes came before.
ServesStored ==
  \A c \in Owners :
    cmd[c].at \in {"read", "players"} /\ cmd[c].fate \in {"fresh", "failed"}
      => Stored(cmd[c].league)

\* What command c printed was too old already when the command looked.
ShowsOldData(c) ==
  /\ cmd[c].at = "done" /\ cmd[c].shown # Never
  /\ cmd[c].since - cmd[c].shown > FantasyTTL

\* A command whose sync ended well for other providers but left the league as
\* old as it was prints it with a notice, unless the season is over. (The
\* notice is read off the latest run on record.)
StaleDataIsTold ==
  \A c \in Owners :
    ShowsOldData(c) /\ cmd[c].fate = "synced" =>
      cmd[c].told \/ cmd[c].league \in archived

\* The runs of commands and synchronizations stay apart, and what is served
\* without a sync, or in spite of a failed one, is there.
CommandsInvariant == CommandsTypeOK /\ RunIsOwned /\ ServesStored

\* Every command ends.
CommandEnds ==
  \A c \in Owners : cmd[c].at # "off" ~> cmd[c].at \in Ended
==============================================================================
