-------------------------- MODULE LeagueAcquisition --------------------------
(***************************************************************************)
(* synchronizeYahoo from the settings to the stored league, over the pool  *)
(* that fetches the rosters (FetchPool, an item for each team of the       *)
(* standings). The free agents come page by page from a list that others   *)
(* change: while the acquisition runs managers add, drop and trade         *)
(* players, so its parts are of different moments. What was acquired is    *)
(* validated as a whole and replaces the stored league in one transaction. *)
(* Players are numbered in the order Yahoo lists them in.                  *)
(***************************************************************************)
EXTENDS FetchPool

CONSTANTS
  NumPlayers,    \* players of the league, rostered and free
  PageSize,      \* yahooFreeAgentPageSize
  MaxPages,      \* yahooMaxFreeAgentPages
  MaxMoves,      \* bound: transactions while the acquisition runs
  InitialOwners  \* what the managers may own at its beginning

VARIABLES
  owner,         \* the league as it is: each player's team, Free for none
  moves,         \* transactions so far
  phase,         \* where the acquisition is
  declared,      \* the number of teams the settings give
  rosters,       \* each team's players as fetched
  page,          \* pages fetched
  found,         \* free agents on them
  stored,        \* the league the transaction stored: [slots, free]
  \* history
  seen           \* the owners each player had while the acquisition ran

world == <<owner, moves, seen>>
acquired == <<declared, rosters, page, found, stored>>
acquisitionVars == <<vars, world, phase, acquired>>

Free == 0
Players == 1..NumPlayers
Teams == Items
Nothing == [slots |-> {}, free |-> {}]

ASSUME AcquisitionAssumption ==
  /\ NumPlayers \in Nat /\ PageSize \in Nat \ {0} /\ MaxPages \in Nat /\ MaxMoves \in Nat
  /\ InitialOwners \subseteq [Players -> {Free} \cup Teams]

AcquisitionInit ==
  /\ Init
  /\ owner \in InitialOwners
  /\ moves = 0
  /\ phase = "settings"
  /\ declared = 0
  /\ rosters = [t \in Teams |-> {}]
  /\ page = 0 /\ found = {}
  /\ stored = Nothing
  /\ seen = [p \in Players |-> {owner[p]}]

\* A player is added, dropped or traded.
Move ==
  /\ moves < MaxMoves
  /\ phase \notin {"done", "failed"}
  /\ \E p \in Players, to \in {Free} \cup Teams :
       /\ to # owner[p]
       /\ owner' = [owner EXCEPT ![p] = to]
       /\ seen' = [seen EXCEPT ![p] = @ \cup {to}]
  /\ moves' = moves + 1
  /\ UNCHANGED <<vars, phase, acquired>>

(***************************************************************************)
(* Settings, standings, rosters                                            *)
(***************************************************************************)
Enter(next_phase) == phase' = next_phase

\* Any request may fail, or bring less than it must.
RequestFails ==
  /\ phase \in {"settings", "standings", "history", "persist"}
  /\ Enter("failed")
  /\ UNCHANGED <<vars, world, acquired>>

\* A league that is filling up, or its standings, may miss a team.
LeagueSettings ==
  /\ phase = "settings"
  /\ declared' \in {N, N + 1}
  /\ Enter("standings")
  /\ UNCHANGED <<vars, world, rosters, page, found, stored>>

Standings ==
  /\ phase = "standings"
  /\ Enter("rosters")
  /\ UNCHANGED <<vars, world, acquired>>

RosterOf(team) == {p \in Players : owner[p] = team}

\* One team's players as of the request; a roster without any is an error.
FetchRoster(w) ==
  /\ Fetch(w)
  /\ RosterOf(hand[w]) = {} => hand[w] \in failed'
  /\ rosters' = [rosters EXCEPT ![hand[w]] = RosterOf(hand[w])]
  /\ UNCHANGED <<declared, page, found, stored>>

RosterStep ==
  /\ phase = "rosters"
  /\ \/ Collector /\ UNCHANGED acquired
     \/ \E w \in Workers : (Take(w) \/ Send(w) \/ Leave(w)) /\ UNCHANGED acquired
     \/ \E w \in Workers : FetchRoster(w)
  /\ UNCHANGED <<world, phase>>

LeagueRosters ==
  /\ phase = "rosters" /\ at = "returned"
  /\ Enter(IF firstErr = None THEN "pages" ELSE "failed")
  /\ UNCHANGED <<vars, world, acquired>>

(***************************************************************************)
(* Free agents                                                             *)
(***************************************************************************)
Before(p) == Cardinality({q \in Players : q < p /\ owner[q] = Free})
PageRows == {p \in Players : owner[p] = Free /\ Before(p) \div PageSize = page}

\* Fault: a page that is not full is taken for the last.
FreeAgentsUntilShort ==
  /\ phase = "pages"
  /\ found' = found \cup PageRows
  /\ page' = page + 1
  /\ \/ Cardinality(PageRows) < PageSize /\ Enter("team")
     \/ Cardinality(PageRows) = PageSize /\ (IF page + 1 = MaxPages THEN Enter("team") ELSE UNCHANGED phase)
  /\ UNCHANGED <<vars, world, declared, rosters, stored>>

\* The first empty page is the end, an error if all were; a row on the page after the
\* last that is allowed is an error, too, as is a request that fails.
FreeAgents ==
  /\ phase = "pages"
  /\ \/ PageRows = {} /\ found # {} /\ Enter("team") /\ UNCHANGED <<page, found>>
     \/ PageRows = {} /\ found = {} /\ Enter("failed") /\ UNCHANGED <<page, found>>
     \/ PageRows # {} /\ page = MaxPages /\ Enter("failed") /\ UNCHANGED <<page, found>>
     \/ PageRows # {} /\ page < MaxPages /\ page' = page + 1 /\ found' = found \cup PageRows /\ UNCHANGED phase
     \/ Enter("failed") /\ UNCHANGED <<page, found>>
  /\ UNCHANGED <<vars, world, declared, rosters, stored>>

(***************************************************************************)
(* The team, the history, the transaction                                  *)
(***************************************************************************)

\* A key or a name that fits one team selects it, as being alone does without a request;
\* else the user is asked, if there is one, and may answer something else.
Requests == {"none", "key", "one", "many", "nobody"}
Selects(request) == request \in {"key", "one"} \/ (request = "none" /\ N = 1)
SelectTeam ==
  /\ phase = "team"
  /\ \E request \in Requests, interactive \in BOOLEAN :
       \/ (Selects(request) \/ interactive) /\ Enter("history")
       \/ ~Selects(request) /\ Enter("failed")
  /\ UNCHANGED <<vars, world, acquired>>

\* The matchup history is another pool of its own.
AcquireHistory ==
  /\ phase = "history"
  /\ Enter("persist")
  /\ UNCHANGED <<vars, world, acquired>>

Slots == {slot \in Teams \X Players : slot[2] \in rosters[slot[1]]}
Rostered == UNION {rosters[t] : t \in Teams}

\* Fault: a player may come twice.
ValidIfWhole == declared = N /\ found # {} /\ \A t \in Teams : rosters[t] # {}

\* As many teams as declared, players and slots for all, and no player twice: not on a
\* roster and a free agent. Twice on rosters he is one player with two slots.
ValidSnapshot == ValidIfWhole /\ Rostered \cap found = {}

\* Fault: the snapshot is stored whatever validation says.
PersistUnchecked ==
  /\ phase = "persist"
  /\ stored' = [slots |-> Slots, free |-> found]
  /\ Enter("done")
  /\ UNCHANGED <<vars, world, declared, rosters, page, found>>

Persist ==
  /\ phase = "persist"
  /\ \/ ValidSnapshot /\ stored' = [slots |-> Slots, free |-> found] /\ Enter("done")
     \/ ~ValidSnapshot /\ Enter("failed") /\ UNCHANGED stored
  /\ UNCHANGED <<vars, world, declared, rosters, page, found>>

AcquisitionStep ==
  \/ RequestFails \/ LeagueSettings \/ Standings \/ RosterStep \/ LeagueRosters
  \/ FreeAgents \/ SelectTeam \/ AcquireHistory \/ Persist

Ended == phase \in {"done", "failed"} /\ UNCHANGED acquisitionVars

AcquisitionNext == AcquisitionStep \/ Move \/ Ended

AcquisitionSpec == AcquisitionInit /\ [][AcquisitionNext]_acquisitionVars

\* The synchronization's goroutines run and every request is answered or times out; the
\* user, if asked, answers.
FairAcquisitionSpec ==
  /\ AcquisitionSpec
  /\ WF_acquisitionVars(AcquisitionStep)

(***************************************************************************)
(* Properties                                                              *)
(***************************************************************************)
Places == {Free} \cup Teams

AcquisitionTypeOK ==
  /\ TypeOK
  /\ owner \in [Players -> Places] /\ moves \in 0..MaxMoves
  /\ phase \in {"settings", "standings", "rosters", "pages", "team", "history", "persist", "done", "failed"}
  /\ declared \in {0, N, N + 1}
  /\ rosters \in [Teams -> SUBSET Players]
  /\ page \in 0..MaxPages /\ found \subseteq Players
  /\ stored.slots \subseteq Teams \X Players /\ stored.free \subseteq Players
  /\ seen \in [Players -> SUBSET Places]

\* The pool within the acquisition counts what it waits for, never blocks on a full
\* channel, and hands back every roster or an error with nothing left running.
AcquisitionInvariant == AcquisitionTypeOK /\ Conservation /\ NoBlockedSend /\ CompleteOrError

\* Whatever managers did meanwhile, who the stored league says owns a player did own him
\* at some moment of the acquisition, nobody is stored as owned and free, and a player
\* who stayed with one team is stored as that team's.
StoredWasTrue ==
  phase = "done" =>
    /\ \A slot \in stored.slots : slot[1] \in seen[slot[2]]
    /\ \A p \in stored.free : Free \in seen[p] /\ \A t \in Teams : <<t, p>> \notin stored.slots
    /\ \A t \in Teams, p \in Players : seen[p] = {t} => <<t, p>> \in stored.slots

\* If nobody moved, the stored league is the league, each of its pages included.
QuietLeagueIsStored ==
  (phase = "done" /\ moves = 0) =>
    /\ stored.slots = {slot \in Teams \X Players : slot[1] = owner[slot[2]]}
    /\ stored.free = {p \in Players : owner[p] = Free}

\* (A free agent who never moved may be missed: pages are read by offset from a list
\* that changes.)

\* The acquisition ends, with however many errors.
AcquisitionEnds == <>(phase \in {"done", "failed"})
==============================================================================
