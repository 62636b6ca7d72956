----------------------------- MODULE MLBCommands -----------------------------
(***************************************************************************)
(* The commands t, tt and sp (team rosters, team totals, probable          *)
(* pitchers). Each loads a fixed list of items through command snapshots:  *)
(* a fresh snapshot is served, otherwise the item is fetched and saved,    *)
(* and when the fetch fails the previous payload is served and its         *)
(* snapshot is flagged stale. t and tt then write what they loaded into    *)
(* the tables that the synchronization writes too, and a command that      *)
(* fetched anything leaves a live run record. Commands and synchronization *)
(* share the database and no lock orders them; every database call is one  *)
(* transaction.                                                            *)
(*                                                                         *)
(* A payload is the tick in which it was fetched; a roster may also be an  *)
(* empty list. A tick of the clock is long beside a command, so the clock  *)
(* moves only between commands.                                            *)
(***************************************************************************)
EXTENDS Integers, Sequences, FiniteSets

CONSTANTS
  Commands,     \* invocations of t, tt and sp
  Clubs,        \* the MLB clubs, as the sequence the directory lists them in
  FutureDates,  \* the dates after today whose odds sp loads, in order
  TTL,          \* ticks a snapshot of each dataset stays fresh
  MaxTime,      \* bound: ticks of the clock
  None

Datasets == {"directory", "records", "roster", "totals", "currentOdds", "futureOdds", "slate"}

VARIABLES
  clock,      \* the time in ticks
  snap,       \* command_snapshots: item -> None or payload, time saved, stale flag
  roster,     \* mlb_team_active_rosters: club -> the payload stored, Empty if no row
  run,        \* the live run record of each command
  cmd         \* each command: what it was asked and how far it is

vars == <<clock, snap, roster, run, cmd>>

Empty == 0
ClubSet == {Clubs[i] : i \in DOMAIN Clubs}
Item(dataset, scope) == [dataset |-> dataset, scope |-> scope]
Today == "today"
Items ==
  {Item(d, Today) : d \in Datasets \ {"roster", "futureOdds"}}
    \union {Item("roster", c) : c \in ClubSet}
    \union {Item("futureOdds", FutureDates[i]) : i \in DOMAIN FutureDates}

\* The items each command loads, in order; t loads the rosters of the clubs its query selects.
TeamsPlan(clubs) ==
  <<Item("directory", Today), Item("records", Today)>>
    \o [i \in DOMAIN clubs |-> Item("roster", clubs[i])]
TotalsPlan == <<Item("directory", Today), Item("totals", Today)>>
ProbablesPlan ==
  <<Item("directory", Today), Item("currentOdds", Today)>>
    \o [i \in DOMAIN FutureDates |-> Item("futureOdds", FutureDates[i])]
    \o <<Item("slate", Today)>>
Plan(kind, clubs) ==
  IF kind = "t" THEN TeamsPlan(clubs) ELSE IF kind = "tt" THEN TotalsPlan ELSE ProbablesPlan

\* resolveTeams: an empty query selects all clubs, a resolved one a single club.
Selections == {Clubs} \union {<<c>> : c \in ClubSet}

Payload == 0..MaxTime
Snapshot == [payload: Payload, at: 1..MaxTime, stale: BOOLEAN]
CommandState ==
  [kind: {"t", "tt", "sp"}, force: BOOLEAN, clubs: Selections, at: Nat,
   pc: {"idle", "read", "fetch", "save", "mark", "loaded", "replace", "reread",
        "shown", "start", "complete", "done", "dead"},
   prev: {None} \union Payload,     \* the payload of the snapshot read for the item
   got: {None} \union Payload,      \* what the item was loaded with
   stale: BOOLEAN,                  \* it was loaded from a snapshot after a failed fetch
   groups: BOOLEAN,                 \* t shows the roster of some club
   refreshed: BOOLEAN,              \* some item was fetched and saved
   started: 1..MaxTime,
   result: {"none", "ok", "error"}]

ASSUME MLBAssumption ==
  /\ MaxTime \in Nat \ {0}
  /\ TTL \in [Datasets -> Nat \ {0}]
  /\ Clubs \in Seq(ClubSet) /\ FutureDates \in Seq({FutureDates[i] : i \in DOMAIN FutureDates})
  /\ None \notin Snapshot

NotBegun ==
  [kind |-> "t", force |-> FALSE, clubs |-> Clubs, at |-> 1, pc |-> "idle", prev |-> None,
   got |-> None, stale |-> FALSE, groups |-> FALSE, refreshed |-> FALSE,
   started |-> 1, result |-> "none"]

\* Earlier commands have loaded nothing, or everything in this tick.
Init ==
  /\ clock = 1
  /\ \/ snap = [i \in Items |-> None] /\ roster = [c \in ClubSet |-> Empty]
     \/ /\ snap = [i \in Items |-> [payload |-> 1, at |-> 1, stale |-> FALSE]]
        /\ roster = [c \in ClubSet |-> 1]
  /\ run = [p \in Commands |-> "none"]
  /\ cmd = [p \in Commands |-> NotBegun]

----------------------------------------------------------------------------
(* Helpers *)

Active(p) == cmd[p].pc \notin {"idle", "done", "dead"}
Current(p) == Plan(cmd[p].kind, cmd[p].clubs)[cmd[p].at]

\* Command p changes its own record: the fields of `change`, the others kept.
Advance(p, change) ==
  cmd' = [cmd EXCEPT ![p] = [f \in DOMAIN @ |-> IF f \in DOMAIN change THEN change[f] ELSE @[f]]]
EndWith(p, result) ==
  cmd' = [cmd EXCEPT ![p] = [NotBegun EXCEPT !.pc = "done", !.result = result, !.refreshed = (result = "ok" /\ cmd[p].refreshed)]]

\* p is through with its item, which showed the roster of a club or not.
Proceed(p, showsRoster) ==
  LET c == cmd[p]
  IN Advance(p,
       [at |-> c.at + 1, groups |-> c.groups \/ showsRoster,
        prev |-> None, got |-> None, stale |-> FALSE,
        pc |-> IF c.at = Len(Plan(c.kind, c.clubs)) THEN "shown" ELSE "read"])

\* cached returns a payload, from a snapshot that is stale by now or not.
Deliver(p, payload, stale, refreshed) ==
  Advance(p, [got |-> payload, stale |-> stale, prev |-> None, refreshed |-> refreshed, pc |-> "loaded"])

\* It was not: without the directory, the totals or the slate there is nothing to show.
Required == {"directory", "totals", "slate"}
GiveUp(p) ==
  \/ Current(p).dataset \in Required /\ EndWith(p, "error")
  \/ Current(p).dataset \notin Required /\ Proceed(p, FALSE)

\* A snapshot that is neither flagged nor as old as its dataset's TTL when p began.
Fresh(p, s) ==
  /\ ~cmd[p].force /\ s # None
  /\ ~s.stale /\ cmd[p].started - s.at < TTL[Current(p).dataset]

----------------------------------------------------------------------------
(* Loading one item: cached *)

Begin(p) ==
  /\ cmd[p].pc = "idle"
  /\ \E kind \in {"t", "tt", "sp"}, force \in BOOLEAN, clubs \in Selections :
       /\ kind # "t" => clubs = Clubs
       /\ Advance(p, [pc |-> "read", kind |-> kind, force |-> force, clubs |-> clubs, started |-> clock])
  /\ UNCHANGED <<clock, snap, roster, run>>

ReadSnapshot(p) ==
  /\ cmd[p].pc = "read"
  /\ LET s == snap[Current(p)]
     IN \/ Fresh(p, s) /\ Deliver(p, s.payload, FALSE, cmd[p].refreshed)
        \/ ~Fresh(p, s) /\ Advance(p, [prev |-> IF s = None THEN None ELSE s.payload, pc |-> "fetch"])
  /\ UNCHANGED <<clock, snap, roster, run>>

\* What a provider may answer: a club's roster may be an empty list; the directory is
\* refused unless it names 30 clubs.
Answers(item) == {clock} \union (IF item.dataset = "roster" THEN {Empty} ELSE {})

FetchSucceeds(p) ==
  /\ cmd[p].pc = "fetch"
  /\ \E a \in Answers(Current(p)) : Advance(p, [got |-> a, pc |-> "save"])
  /\ UNCHANGED <<clock, snap, roster, run>>

\* cached serves the previous payload without asking whether there is one.
FetchFailsServing(p) ==
  /\ cmd[p].pc = "fetch"
  /\ Advance(p, [pc |-> "mark"])
  /\ UNCHANGED <<clock, snap, roster, run>>

FetchFails(p) ==
  /\ cmd[p].pc = "fetch"
  /\ \/ cmd[p].prev = None /\ GiveUp(p)
     \/ cmd[p].prev # None /\ Advance(p, [pc |-> "mark"])
  /\ UNCHANGED <<clock, snap, roster, run>>

SaveSnapshot(p) ==
  /\ cmd[p].pc = "save"
  /\ snap' = [snap EXCEPT ![Current(p)] = [payload |-> cmd[p].got, at |-> clock, stale |-> FALSE]]
  /\ Deliver(p, cmd[p].got, FALSE, TRUE)
  /\ UNCHANGED <<clock, roster, run>>

\* cached cannot read the snapshot or save the new one: the item is not available,
\* whatever was fetched.
SnapshotFails(p) ==
  /\ cmd[p].pc \in {"read", "save"}
  /\ GiveUp(p)
  /\ UNCHANGED <<clock, snap, roster, run>>

\* A failed refresh drops the snapshot it could not replace.
FlagStaleByDropping(s) == None

\* The flag is set on whatever is stored by now, and a failure to set it is ignored;
\* p serves the payload it read before.
FlagStale(s) == IF s = None THEN None ELSE [s EXCEPT !.stale = TRUE]
\* cached forgets that what it returns is stale.
MarkStaleSilently(p) ==
  /\ cmd[p].pc = "mark"
  /\ snap' \in {[snap EXCEPT ![Current(p)] = FlagStale(@)], snap}
  /\ Deliver(p, cmd[p].prev, FALSE, cmd[p].refreshed)
  /\ UNCHANGED <<clock, roster, run>>

MarkStale(p) ==
  /\ cmd[p].pc = "mark"
  /\ snap' \in {[snap EXCEPT ![Current(p)] = FlagStale(@)], snap}
  /\ Deliver(p, cmd[p].prev, TRUE, cmd[p].refreshed)
  /\ UNCHANGED <<clock, roster, run>>

----------------------------------------------------------------------------
(* Using what was loaded *)

\* The directory, the records, the odds and the slate are only shown.
Show(p) ==
  /\ cmd[p].pc = "loaded" /\ Current(p).dataset \notin {"roster", "totals"}
  /\ Proceed(p, FALSE)
  /\ UNCHANGED <<clock, snap, roster, run>>

\* t: ReplaceMLBRoster looks for prior rows before its transaction begins, and
\* refuses to replace them by an empty list.
CheckRoster(p) ==
  /\ cmd[p].pc = "loaded" /\ Current(p).dataset = "roster"
  /\ LET refused == cmd[p].got = Empty /\ roster[Current(p).scope] # Empty
     IN \/ refused /\ EndWith(p, "error")
        \/ ~refused /\ Advance(p, [pc |-> "replace"])
  /\ UNCHANGED <<clock, snap, roster, run>>

ReplaceRoster(p) ==
  /\ cmd[p].pc = "replace"
  /\ roster' = [roster EXCEPT ![Current(p).scope] = cmd[p].got]
  /\ Advance(p, [pc |-> "reread"])
  /\ UNCHANGED <<clock, snap, run>>

\* t shows the rows of the table, not the payload it wrote there.
RereadRoster(p) ==
  /\ cmd[p].pc = "reread"
  /\ Proceed(p, TRUE)
  /\ UNCHANGED <<clock, snap, roster, run>>

\* tt: ReplaceMLBSeasonStats may fail. The table itself is left out here, though t prints
\* it and tt reads the quality starts back from it: what a write does to the rows a
\* roster shows is the module PlayerIdentities.
ReplaceStats(p) ==
  /\ cmd[p].pc = "loaded" /\ Current(p).dataset = "totals"
  /\ Proceed(p, FALSE)
  /\ UNCHANGED <<clock, snap, roster, run>>

\* The record depends on what the last item did instead of on any of them.
FinishUnrecorded(p) ==
  /\ cmd[p].pc = "shown"
  /\ EndWith(p, "ok")
  /\ UNCHANGED <<clock, snap, roster, run>>

\* After the last item t needs a club to show, and a command that saved something
\* records the refresh.
Finish(p) ==
  /\ cmd[p].pc = "shown"
  /\ LET nothing == cmd[p].kind = "t" /\ ~cmd[p].groups
     IN \/ nothing /\ EndWith(p, "error")
        \/ ~nothing /\ ~cmd[p].refreshed /\ EndWith(p, "ok")
        \/ ~nothing /\ cmd[p].refreshed /\ Advance(p, [pc |-> "start"])
  /\ UNCHANGED <<clock, snap, roster, run>>

\* recordRefresh: a live run is inserted and completed in two transactions.
StartRecord(p) ==
  /\ cmd[p].pc = "start"
  /\ run' = [run EXCEPT ![p] = "running"]
  /\ Advance(p, [pc |-> "complete"])
  /\ UNCHANGED <<clock, snap, roster>>

CompleteRecord(p) ==
  /\ cmd[p].pc = "complete"
  /\ run' = [run EXCEPT ![p] = "complete"]
  /\ EndWith(p, "ok")
  /\ UNCHANGED <<clock, snap, roster>>

\* A read or write of the store fails: the command ends with the error. t asks when the
\* ownership was synchronized between its records and its rosters, tt for the counts and
\* the quality starts of its clubs and sp for the owners of its pitchers after the last
\* item; what they read there is of the synchronization and left out.
StoreFails(p) ==
  /\ \/ cmd[p].pc \in {"replace", "reread", "start", "complete"}
     \/ cmd[p].pc = "loaded" /\ Current(p).dataset \in {"roster", "totals"}
     \/ cmd[p].kind = "t" /\ cmd[p].at = 3 /\ cmd[p].pc \in {"read", "shown"}
     \/ cmd[p].kind \in {"tt", "sp"} /\ cmd[p].pc = "shown"
  /\ EndWith(p, "error")
  /\ UNCHANGED <<clock, snap, roster, run>>

Kill(p) ==
  /\ Active(p)
  /\ cmd' = [cmd EXCEPT ![p] = [NotBegun EXCEPT !.pc = "dead"]]
  /\ UNCHANGED <<clock, snap, roster, run>>

----------------------------------------------------------------------------
(* The synchronization's writes to the same tables, and the world *)

SyncRoster(c) ==
  /\ roster' = [roster EXCEPT ![c] = clock]
  /\ UNCHANGED <<clock, snap, run, cmd>>

\* The sync's odds step saves the odds sp reads, or flags them stale.
SyncOdds ==
  LET odds == Item("currentOdds", Today)
  IN /\ snap' \in {[snap EXCEPT ![odds] = [payload |-> clock, at |-> clock, stale |-> FALSE]],
                   [snap EXCEPT ![odds] = FlagStale(@)]}
     /\ UNCHANGED <<clock, roster, run, cmd>>

Tick ==
  /\ clock < MaxTime
  /\ \A p \in Commands : ~Active(p)
  /\ clock' = clock + 1
  /\ UNCHANGED <<snap, roster, run, cmd>>

CommandStep(p) ==
  \/ ReadSnapshot(p) \/ FetchSucceeds(p) \/ FetchFails(p) \/ SaveSnapshot(p) \/ SnapshotFails(p)
  \/ MarkStale(p) \/ Show(p) \/ CheckRoster(p) \/ ReplaceRoster(p) \/ RereadRoster(p) \/ ReplaceStats(p)
  \/ Finish(p) \/ StartRecord(p) \/ CompleteRecord(p) \/ StoreFails(p)

Next ==
  \/ \E p \in Commands : Begin(p) \/ CommandStep(p) \/ Kill(p)
  \/ \E c \in ClubSet : SyncRoster(c)
  \/ SyncOdds \/ Tick

Spec == Init /\ [][Next]_vars

----------------------------------------------------------------------------
(* Properties *)

TypeOK ==
  /\ clock \in 1..MaxTime
  /\ snap \in [Items -> {None} \union Snapshot]
  /\ roster \in [ClubSet -> Payload]
  /\ run \in [Commands -> {"none", "running", "complete"}]
  /\ \A p \in Commands : cmd[p] \in CommandState

\* What cached returns without its stale flag is no older than the TTL of its dataset,
\* whatever other commands and the synchronization fetched, saved or flagged meanwhile;
\* with force it was fetched since the command began. That is of the flag: the commands
\* pass on the flags of rosters, totals, odds and slate, and drop those of the directory
\* and the records, whose stale payloads are printed unmarked (mlb.go:109,129,211,285).
UnflaggedIsYoung ==
  \A p \in Commands :
    (cmd[p].pc = "loaded" /\ ~cmd[p].stale /\ cmd[p].got # Empty) =>
      cmd[p].got > cmd[p].started - (IF cmd[p].force THEN 1 ELSE TTL[Current(p).dataset])

\* A live run is completed only by a command that saved something it fetched, and a
\* command that saved something ends well only with its record complete.
RefreshIsRecorded ==
  \A p \in Commands :
    /\ run[p] = "complete" => cmd[p].refreshed
    /\ cmd[p].result = "ok" /\ cmd[p].refreshed => run[p] = "complete"

\* The commands' records are of what they did.
RecordsAreTrue == TypeOK /\ RefreshIsRecorded

\* A snapshot is never dropped, and its payload and time change only together, to
\* an answer some command or the synchronization has fetched: a failed fetch
\* leaves the last usable payload.
SnapshotsKept ==
  [][\A i \in Items : snap[i] # None =>
       /\ snap'[i] # None
       /\ (snap'[i].payload # snap[i].payload \/ snap'[i].at # snap[i].at) =>
            /\ ~snap'[i].stale /\ snap'[i].at = clock
            /\ \/ i.dataset = "currentOdds" /\ snap'[i].payload = clock
               \/ \E p \in Commands : cmd[p].pc = "save" /\ Current(p) = i /\ cmd[p].got = snap'[i].payload]_vars

\* A club whose fetch failed keeps the roster that was stored last: the refresh of
\* README.md:11 "retains the last usable data when an optional refresh fails".
FailedRefreshKeepsRoster ==
  [][\A p \in Commands, c \in ClubSet :
       (cmd[p].pc = "replace" /\ cmd[p].stale /\ Current(p).scope = c) => roster'[c] >= roster[c]]_vars
==============================================================================
