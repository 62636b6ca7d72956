---------------------------- MODULE StoredMatchups ----------------------------
(***************************************************************************)
(* The stored matchups of one league and the commands that show them. A    *)
(* synchronization stores the current week and the pairings and rosters of *)
(* every week so far; m, mm, rt and r read them, fetch what is too old and *)
(* store it again. A past week is not fetched again once it is stored, and *)
(* a season that is not the selected league's (-S) is never fetched.       *)
(*                                                                         *)
(* internal/app/matchup.go    Matchup, LeagueMatchups, acquire and its     *)
(*                            readers of snapshots                         *)
(* internal/app/fantasy.go    weeklyMatchup, overlayLiveSlots              *)
(* internal/app/sync.go       the history a synchronization stores         *)
(* internal/store/snapshots.go                                             *)
(*                                                                         *)
(* A payload is the week it is about and the time Yahoo was asked. The two *)
(* rosters of a pairing are acquired one after the other by the same code  *)
(* and are one here. The clock does not advance within a command, and once *)
(* at most within a synchronization, before it asks for the history.       *)
(***************************************************************************)
EXTENDS Integers, Sequences, FiniteSets

CONSTANTS
  Weeks,        \* weeks of the season
  Window,       \* how long a snapshot is reused (liveReuseWindow)
  MaxClock,     \* bound: the last value of the clock
  MaxCommands,  \* bound: commands of a behaviour
  None          \* no row

StoredMatchupsAssumption ==
  /\ Weeks \in Nat \ {0} /\ Window \in Nat /\ MaxClock \in Nat \ {0} /\ MaxCommands \in Nat
  /\ None \notin Nat /\ None \notin [week : Nat, since : Nat]

VARIABLES
  clock,     \* the time
  ends,      \* ends[w]: when week w ended
  past,      \* has the user selected another league, so that this one needs -S
  archived,  \* was the league archived after its final snapshot
  sync,      \* the synchronization: the week it was told, or None
  current,   \* the stored current week, None before the first synchronization
  own,       \* own[item][week]: the row of source yahoo
  feed,      \* rows of source yahoo_public: the pairing, and rosters by week
  cmd,       \* the command
  commands   \* how many there were

matchups == <<clock, ends, past, archived, sync, current, own, feed, cmd, commands>>
world == <<clock, ends, past, archived>>

\* The roster of a week, and that of its last day.
Items == {"pairing", "roster", "day roster"}
Kinds == {"m now", "m week", "m day", "mm", "rt", "r"}

YahooWeek == IF Len(ends) < Weeks THEN Len(ends) + 1 ELSE Weeks
SeasonOver == Len(ends) = Weeks

\* What Yahoo said of week w at time at is what it will always say.
IsFinal(w, at) == w <= Len(ends) /\ ends[w] <= at

InWindow(at) == clock - at <= Window

\* Pairings have one version; m and r store rosters as "v2".
Version(item) == IF item = "pairing" THEN "v1" ELSE "v2"

NoCommand ==
  [kind |-> "r", week |-> 1, prefer |-> FALSE, archive |-> FALSE, frozen |-> FALSE,
   begun |-> 0, at |-> "done", phase |-> "read", pairing |-> None, roster |-> None,
   stale |-> FALSE, result |-> "none"]

MatchupsInit ==
  /\ clock = 1 /\ ends = <<>> /\ past = FALSE /\ archived = FALSE
  /\ sync = None /\ current = None
  /\ own = [i \in Items |-> [w \in 1..Weeks |-> None]]
  /\ feed = [pairing |-> None, roster |-> [w \in 1..Weeks |-> None]]
  /\ cmd = NoCommand /\ commands = 0

----------------------------------------------------------------------------
(* Time, the league and the synchronization *)

MatchupsTick ==
  /\ clock < MaxClock /\ cmd.at = "done"
  /\ sync # None => sync.since = clock
  /\ clock' = clock + 1
  /\ ends' \in {ends} \cup (IF SeasonOver THEN {} ELSE {Append(ends, clock + 1)})
  /\ UNCHANGED <<past, archived, sync, current, own, feed, cmd, commands>>

\* st -l with the league of another season.
SelectAnotherLeague ==
  /\ current # None /\ ~past /\ cmd.at = "done"
  /\ past' = TRUE
  /\ UNCHANGED <<clock, ends, archived, sync, current, own, feed, cmd, commands>>

SyncReadsSettings ==
  /\ sync = None /\ ~past /\ ~archived
  /\ sync' = [week |-> YahooWeek, since |-> clock]
  /\ UNCHANGED <<world, current, own, feed, cmd, commands>>

\* Fault: only the current week is acquired.
HistoryOfThisWeek(item, w) ==
  IF w = sync.week /\ item # "day roster"
    THEN [at |-> clock, stale |-> FALSE, version |-> "v1"] ELSE own[item][w]

\* Every row the synchronization stores is "v1", those of rosters too.
History(item, w) ==
  IF w <= sync.week /\ item # "day roster"
    THEN [at |-> clock, stale |-> FALSE, version |-> "v1"] ELSE own[item][w]

\* The history is fetched and committed with the week, in one transaction.
SyncStores ==
  /\ sync # None
  /\ current' = sync.week
  /\ own' = [i \in Items |-> [w \in 1..Weeks |-> History(i, w)]]
  /\ archived' = (archived \/ SeasonOver)
  /\ sync' = None
  /\ UNCHANGED <<clock, ends, past, feed, cmd, commands>>

SyncFails ==
  /\ sync # None
  /\ sync' = None
  /\ UNCHANGED <<world, current, own, feed, cmd, commands>>

----------------------------------------------------------------------------
(* The commands *)

\* -S: no provider is there, a snapshot of any age is preferred, m shows a week
\* instead of today and refuses a day; r does not look at snapshots. A day is
\* looked for in one week after the other; those before its own are stored.
\* Only rt takes a week that has not come yet.
BeginCommand(kind, week) ==
  /\ current # None /\ cmd.at = "done" /\ commands < MaxCommands
  /\ week <= current \/ kind = "rt"
  /\ kind \in {"m now", "r"} => week = current
  /\ kind \in {"m now", "m day", "r"} => ~past
  /\ commands' = commands + 1
  /\ cmd' = [NoCommand EXCEPT
       !.kind = kind, !.week = week, !.archive = past, !.frozen = archived, !.begun = clock,
       !.prefer = (week < current \/ past) /\ kind # "rt",
       !.at = CASE kind = "m now" -> "feed" [] kind = "r" -> "slots"
                [] kind = "m day" -> "resolve" [] OTHER -> "pairing"]
  /\ UNCHANGED <<world, sync, current, own, feed>>

Item == CASE cmd.at \in {"resolve", "pairing", "overlay"} -> "pairing"
          [] cmd.at = "roster" /\ cmd.kind = "m day" -> "day roster"
          [] OTHER -> "roster"
Acquiring == cmd.at \in {"resolve", "pairing", "roster", "overlay", "slots"}
Stored == own[Item][cmd.week]
Usable == Stored # None /\ Stored.version = Version(Item)

End(command, result) == [command EXCEPT !.at = "done", !.phase = "read", !.result = result]

\* One item is there: m goes on, with a day found to whatever is stored of it
\* and from the pairing to the rosters; the others show it.
Took(row, stale) ==
  LET part == [week |-> cmd.week, at |-> row.at]
      next == [cmd EXCEPT !.stale = @ \/ stale, !.phase = "read",
                          !.pairing = IF Item = "pairing" THEN part ELSE @,
                          !.roster = IF Item = "pairing" THEN @ ELSE part]
  IN CASE cmd.at = "resolve" -> [cmd EXCEPT !.at = "pairing", !.phase = "read", !.prefer = TRUE]
       [] cmd.at = "pairing" /\ cmd.kind \in {"m week", "m day"} -> [next EXCEPT !.at = "roster"]
       [] OTHER -> End(next, "view")

\* One item is not there: m falls back to the local roster, the overlay and r
\* leave what they had, the others fail.
Missed ==
  CASE cmd.at \in {"overlay", "slots"} -> End(cmd, "view")
    [] cmd.at # "resolve" /\ cmd.kind \in {"m week", "m day"} -> End(cmd, "local")
    [] OTHER -> End(cmd, "error")

\* The week of a day and the rosters of m are not reused within the window,
\* and the overlay and rt prefer no snapshot.
ReusedOrPreferred ==
  /\ Usable
  /\ \/ cmd.at \notin {"resolve", "roster"} /\ ~Stored.stale /\ InWindow(Stored.at)
     \/ cmd.at \in {"resolve", "pairing", "roster"} /\ cmd.prefer

ReadSnapshot ==
  /\ Acquiring /\ cmd.phase = "read"
  /\ cmd' = IF ReusedOrPreferred THEN Took(Stored, Stored.stale)
                                 ELSE [cmd EXCEPT !.phase = "fetch"]
  /\ UNCHANGED <<world, sync, current, own, feed, commands>>

FetchItem ==
  /\ Acquiring /\ cmd.phase = "fetch" /\ ~cmd.archive
  /\ LET row == [at |-> clock, stale |-> FALSE, version |-> Version(Item)]
     IN own' = [own EXCEPT ![Item][cmd.week] = row] /\ cmd' = Took(row, FALSE)
  /\ UNCHANGED <<world, sync, current, feed, commands>>

\* r does not mark the row it could not refresh; without a provider m marks
\* the roster it could not ask for.
FetchItemFails ==
  /\ Acquiring /\ cmd.phase = "fetch"
  /\ own' = IF \/ own[Item][cmd.week] = None \/ cmd.at = "slots"
               \/ (cmd.archive /\ Item = "pairing")
              THEN own ELSE [own EXCEPT ![Item][cmd.week].stale = TRUE]
  /\ cmd' = [cmd EXCEPT !.phase = "reread"]
  /\ UNCHANGED <<world, sync, current, feed, commands>>

\* After a failure the stored row is shown as stale, by r without a word.
RereadSnapshot ==
  /\ Acquiring /\ cmd.phase = "reread"
  /\ cmd' = IF Usable THEN Took(Stored, cmd.at # "slots") ELSE Missed
  /\ UNCHANGED <<world, sync, current, own, feed, commands>>

\* The database fails at a read or a write: the overlay and r go on without.
DatabaseFails ==
  /\ cmd.at # "done"
  /\ cmd' = IF cmd.at \in {"overlay", "slots"} THEN End(cmd, "view") ELSE End(cmd, "error")
  /\ UNCHANGED <<world, sync, current, own, feed, commands>>

----------------------------------------------------------------------------
(* m without a week: one feed with the pairing and both rosters *)

\* The rosters of either source, the freshest first, whatever their version.
Rosters(week, fresh) ==
  LET rows == {r \in {own["roster"][week], feed.roster[week]} :
                 r # None /\ (fresh => InWindow(r.at))}
  IN {r \in rows : \A s \in rows : s.at <= r.at}

\* The stored view: any pairing marked current, of the current week or not.
DefaultSnapshots(fresh) ==
  IF feed.pairing = None \/ (fresh /\ ~InWindow(feed.pairing.at)) THEN {}
  ELSE Rosters(feed.pairing.week, fresh)

Overlay(pairing, roster, stale) ==
  [cmd EXCEPT !.at = "overlay", !.phase = "read", !.pairing = pairing, !.roster = roster,
              !.stale = stale]

ShowDefault(row, stale) ==
  Overlay([week |-> feed.pairing.week, at |-> feed.pairing.at],
          [week |-> feed.pairing.week, at |-> row.at], stale)

FreshDefault ==
  /\ cmd.at = "feed" /\ cmd.phase = "read"
  /\ IF DefaultSnapshots(TRUE) = {}
       THEN cmd' = [cmd EXCEPT !.phase = "fetch"]
       ELSE \E row \in DefaultSnapshots(TRUE) : cmd' = ShowDefault(row, FALSE)
  /\ UNCHANGED <<world, sync, current, own, feed, commands>>

\* matchFeed wants a complete pairing of the stored week, though Yahoo may
\* already have begun the next.
FetchRedzone ==
  /\ cmd.at = "feed" /\ cmd.phase = "fetch"
  /\ \/ /\ YahooWeek = cmd.week
        /\ feed' = [feed EXCEPT !.pairing = [week |-> cmd.week, at |-> clock]]
        /\ cmd' = [cmd EXCEPT !.at = "feed roster"]
     \/ cmd' = End(cmd, "local") /\ UNCHANGED feed
  /\ UNCHANGED <<world, sync, current, own, commands>>

SaveFeedRoster ==
  /\ cmd.at = "feed roster"
  /\ feed' = [feed EXCEPT !.roster[cmd.week] = [at |-> clock]]
  /\ LET part == [week |-> cmd.week, at |-> clock] IN cmd' = Overlay(part, part, FALSE)
  /\ UNCHANGED <<world, sync, current, own, commands>>

StaleDefault ==
  /\ cmd.at = "feed" /\ cmd.phase = "fetch"
  /\ IF DefaultSnapshots(FALSE) = {}
       THEN cmd' = End(cmd, "local")
       ELSE \E row \in DefaultSnapshots(FALSE) : cmd' = ShowDefault(row, TRUE)
  /\ UNCHANGED <<world, sync, current, own, feed, commands>>

MatchupsNext ==
  \/ MatchupsTick \/ SelectAnotherLeague
  \/ SyncReadsSettings \/ SyncStores \/ SyncFails
  \/ \E kind \in Kinds, week \in 1..Weeks : BeginCommand(kind, week)
  \/ ReadSnapshot \/ FetchItem \/ FetchItemFails \/ RereadSnapshot
  \/ FreshDefault \/ FetchRedzone \/ SaveFeedRoster \/ StaleDefault
  \/ DatabaseFails

MatchupsSpec == MatchupsInit /\ [][MatchupsNext]_matchups

----------------------------------------------------------------------------
(* Properties *)

Times == 1..MaxClock
Parts == [week : 1..Weeks, at : Times] \cup {None}

\* Every variable has its type.
MatchupsTypeOK ==
  /\ clock \in Times /\ Len(ends) <= Weeks /\ \A w \in 1..Len(ends) : ends[w] \in Times
  /\ past \in BOOLEAN /\ archived \in BOOLEAN
  /\ sync \in [week : 1..Weeks, since : Times] \cup {None}
  /\ current \in 1..Weeks \cup {None}
  /\ own \in [Items -> [1..Weeks -> [at : Times, stale : BOOLEAN, version : {"v1", "v2"}] \cup {None}]]
  /\ feed.pairing \in Parts /\ feed.roster \in [1..Weeks -> [at : Times] \cup {None}]
  /\ cmd.pairing \in Parts /\ cmd.roster \in Parts
  /\ cmd.result \in {"none", "view", "local", "error"}
  /\ commands \in 0..MaxCommands

\* A view printed without a mark shows each part as Yahoo had it within the
\* reuse window, or after the week it is about was over: a past week that is
\* never fetched again was stored when nothing could change any more. mm and
\* rt print no mark under -S; there, once the league was archived, every part
\* is final. Left out are r, which falls back to old slots without a mark, and
\* the roster of a day, which is not fetched again though the day goes on.
UnmarkedIsCurrentOrFinal ==
  cmd.result = "view" /\ cmd.kind # "r" /\ (cmd.archive => cmd.frozen)
    /\ (~cmd.stale \/ cmd.archive) =>
    \A part \in {cmd.pairing, IF cmd.kind = "m day" THEN None ELSE cmd.roster} \ {None} :
      \/ ~cmd.archive /\ cmd.begun - part.at <= Window
      \/ IsFinal(part.week, part.at)

\* An archived season is served from local rows: m -S shows the matchup of the
\* week it is asked for (README.md:78, arch.md:69).
ArchivedWeekIsShown ==
  cmd.kind = "m week" /\ cmd.archive /\ cmd.frozen => cmd.result # "local"
==============================================================================
