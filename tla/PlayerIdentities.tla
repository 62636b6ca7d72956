-------------------------- MODULE PlayerIdentities --------------------------
(***************************************************************************)
(* The table of players and what hangs on its rows. Yahoo, the MLB bulk    *)
(* statistics and the 40-man rosters each insert rows of their own for the *)
(* same person; reconciliation gives Yahoo's rows the MLB identity, exact  *)
(* names only. Statistics, Statcast, projections and ranks are written to  *)
(* ONE row of the person, which each writer picks by an order of its own,  *)
(* and read again through joins that pick a row by theirs, after more rows *)
(* have come and identities have moved.                                    *)
(*                                                                         *)
(* The writers are steps of the synchronization, of which one runs at a    *)
(* time; each is one transaction, except that the steps for statistics     *)
(* replace them in one and reconcile in a second. The command t replaces   *)
(* rosters beside them. Names stand for name and club together.            *)
(***************************************************************************)
EXTENDS Integers, Sequences, FiniteSets

Ext == INSTANCE SequencesExt

CONSTANTS
  Persons,       \* MLB identities
  Entities,      \* Yahoo identities: a two-way player has two
  PersonName, EntityName, EntityRole,
  Plays,         \* the roles, H and P, MLB has each person in
  Followed,      \* the tables behaviours follow, see `watched`
  Legacy,        \* sequences of rows an older release may have left behind
  None

Groups == {"hitting", "pitching"}
Enrichments == {"statcast_batting", "statcast_pitching", "projections"}
Tables == Groups \union Enrichments
Playing(role) == {m \in Persons : role \in Plays[m]}
RoleOf(group) == IF group = "hitting" THEN "H" ELSE "P"

AnyRole == {"B", "H", "P"}
PlayerNames == {PersonName[m] : m \in Persons} \union {EntityName[y] : y \in Entities}
PlayerRows ==
  [yahoo: Entities \union {None}, name: PlayerNames, role: AnyRole, mlbam: Persons \union {None},
   source: {None, "seed", "40man", "manual", "injury_tx", "jersey+team", "name+team+pos", "name"}]

IdentitiesAssumption ==
  /\ EntityRole \in [Entities -> {"B", "P"}]
  /\ Followed \subseteq Tables
  /\ None \notin Persons \union Entities \union Nat \union [of: Persons, qs: {0, 1}]
  /\ IsFiniteSet(Persons) /\ IsFiniteSet(Entities)
  /\ Legacy \subseteq Seq(PlayerRows)

VARIABLES
  players,       \* the rows, by id: [yahoo, name, role, mlbam, source]
  watched,       \* the table a behaviour follows: none depends on another
  records,       \* row -> what the watched table holds there: [of, qs]
  reconciling,   \* the candidates of a step between its two transactions
  \* history
  written,       \* the persons the watched table was last written for
  moved          \* whether a row lost its identity or changed its role since then

identityVars == <<players, watched, records, reconciling, written, moved>>

Ids == DOMAIN players
IsYahoo(id) == players[id].yahoo # None

IdentitiesInit ==
  /\ players \in {<<>>} \union Legacy
  /\ watched \in Followed
  /\ records = <<>>
  /\ reconciling = None
  /\ written = {}
  /\ moved = FALSE

----------------------------------------------------------------------------
(* The rows writers and readers pick: the least by an order of several     *)
(* keys, ids last.                                                         *)

Bit(condition) == IF condition THEN 1 ELSE 0
Least(ids, Key(_)) ==
  IF ids = {} THEN None
  ELSE CHOOSE i \in ids : \A j \in ids \ {i} : Key(i) < Key(j) \/ (Key(i) = Key(j) /\ i < j)

Holders(m, roles) == {id \in Ids : players[id].mlbam = m /\ players[id].role \in roles}
Seeded(id) == players[id].source = "seed"
BatterRoles == {"B", "H"}
Readable(group) == IF group \in {"pitching", "statcast_pitching"} THEN {"P"} ELSE BatterRoles

\* The lowest id of the person.
StatsRowAnyRole(m, group) == Least(Holders(m, AnyRole), LAMBDA id : 0)
\* ReplaceMLBSeasonStats: the lowest id of the person and role.
StatsRow(m, group) == Least(Holders(m, {RoleOf(group)}), LAMBDA id : 0)
\* ReplaceMLBRoster: Yahoo's row first.
RosterRow(m, role) == Least(Holders(m, {role}), LAMBDA id : Bit(~IsYahoo(id)))
\* projectionPlayerID, and BlendedProjection when it reads: seeds last.
ProjectionRow(m) == Least(Holders(m, AnyRole), LAMBDA id : Bit(Seeded(id)))
\* As statcastPlayerID, without regard to the role.
StatcastRowAnyRole(m, table) ==
  Least(Holders(m, AnyRole), LAMBDA id : 2 * Bit(Seeded(id)) + Bit(~IsYahoo(id)))
\* statcastPlayerID: a row of the role, seeds last, Yahoo's first.
StatcastRow(m, table) ==
  Least(Holders(m, AnyRole),
        LAMBDA id : 4 * Bit(players[id].role \notin Readable(table)) + 2 * Bit(Seeded(id)) + Bit(~IsYahoo(id)))

Record(id) == IF id \in DOMAIN records THEN records[id] ELSE None

\* fantasyPlayers: statistics are looked for on any row of the person and role that has some,
\* Statcast on the first row of the person and role.
PoolShows(m) ==
  Record(Least(IF watched \in Groups THEN Holders(m, Readable(watched)) \intersect DOMAIN records
                                     ELSE Holders(m, Readable(watched)),
               LAMBDA id : 2 * Bit(Seeded(id)) + Bit(watched \notin Groups /\ ~IsYahoo(id))))
ProjectionShown(m) == Record(ProjectionRow(m))
\* MLBRoster joins statistics on the seed's row, whichever its role, else on the lowest
\* row of the person.
RosterJoin(m) == Least(Holders(m, AnyRole), LAMBDA id : Bit(~Seeded(id)))
RosterShows(m) == Record(RosterJoin(m))

----------------------------------------------------------------------------
(* Writers *)

Row(yahoo, name, role, mlbam, source) ==
  [yahoo |-> yahoo, name |-> name, role |-> role, mlbam |-> mlbam, source |-> source]

\* What was there stays where nothing is written over it.
Add(rows, people) ==
  /\ records' = [id \in DOMAIN rows \union DOMAIN records |-> IF id \in DOMAIN rows THEN rows[id] ELSE records[id]]
  /\ written' = people /\ moved' = FALSE

\* The watched table is replaced.
Write(rows, people) == records' = rows /\ written' = people /\ moved' = FALSE

\* ReplaceFantasySyncSnapshot: known players keep their row and identity and take Yahoo's
\* name and role of today, new ones get a row, in the order of the snapshot. (Teams,
\* slots and free agents are SyncRun's.)
UpsertYahoo ==
  /\ reconciling = None
  /\ \E present \in SUBSET Entities \ {{}} :
       LET order == Ext!SetToSeq(present \ {players[id].yahoo : id \in Ids})
           listed == {id \in Ids : players[id].yahoo \in present}
           changed == {id \in listed : players[id].role # EntityRole[players[id].yahoo]}
       IN /\ players' =
               [id \in Ids |->
                  IF id \in listed THEN [players[id] EXCEPT !.name = EntityName[players[id].yahoo], !.role = EntityRole[players[id].yahoo]]
                  ELSE players[id]]
               \o [i \in DOMAIN order |-> Row(order[i], EntityName[order[i]], EntityRole[order[i]], None, None)]
          /\ moved' = (moved \/ changed # {})
  /\ UNCHANGED <<watched, records, reconciling, written>>

\* Rows for the persons that have none of the role, in the order they came.
WithRows(order, role, source) ==
  players \o [i \in DOMAIN order |-> Row(None, PersonName[order[i]], role, order[i], source)]

\* What a pitcher shows as quality starts if the acquisition has none: the greatest
\* number any of the person's rows has.
ForgottenStarts(m) == 0
RetainedStarts(m) ==
  Ext!Max({0} \union {records[id].qs : id \in Holders(m, AnyRole) \intersect DOMAIN records})

\* ReplaceMLBSeasonStats with the rows of the step, then the reconciliation is due.
ReplaceStats(group) ==
  /\ reconciling = None
  /\ \E rows \in SUBSET Playing(RoleOf(group)) \ {{}} :
     \E qs \in [rows -> IF group = "pitching" /\ watched = group THEN {0, 1} ELSE {0}] :
       LET order == Ext!SetToSeq({m \in rows : StatsRow(m, group) = None})
           RowOf(m) == IF StatsRow(m, group) # None THEN StatsRow(m, group)
                      ELSE Len(players) + (CHOOSE i \in DOMAIN order : order[i] = m)
           Starts(m) == IF qs[m] > 0 \/ group # "pitching" THEN qs[m] ELSE RetainedStarts(m)
       IN /\ players' = WithRows(order, RoleOf(group), "seed")
          /\ IF watched # group THEN UNCHANGED <<records, written, moved>>
             ELSE Write([id \in {RowOf(m) : m \in rows} |->
                           LET m == CHOOSE m \in rows : RowOf(m) = id IN [of |-> m, qs |-> Starts(m)]], rows)
          /\ reconciling' = [group |-> group, rows |-> rows]
  /\ UNCHANGED watched

\* How an identity was established; the weaker of two claims is released.
ClaimStrength(id) ==
  IF players[id].source \in {"seed", "40man", "manual"} THEN 0
  ELSE IF players[id].source \in {"injury_tx", "jersey+team"} THEN 1
  ELSE IF players[id].source = "name+team+pos" THEN 2 ELSE 3
SameClaim(i, j) ==
  /\ i # j /\ IsYahoo(i) /\ IsYahoo(j)
  /\ players[i].mlbam # None /\ players[i].mlbam = players[j].mlbam /\ players[i].role = players[j].role
Released(id) ==
  \E keeper \in Ids :
    /\ SameClaim(keeper, id)
    /\ \/ ClaimStrength(keeper) < ClaimStrength(id)
       \/ ClaimStrength(keeper) = ClaimStrength(id) /\ keeper < id

\* The identity a Yahoo row without one is given: the only candidate of its name, unless
\* a Yahoo row of its role holds it, or a row before it is just given it.
Candidates(id, rows) == {m \in rows : PersonName[m] = players[id].name}
NamedAlone(id, rows) == Cardinality(Candidates(id, rows)) = 1
Held(m, role) ==
  \E id \in Ids : IsYahoo(id) /\ players[id].mlbam = m /\ players[id].role = role /\ ~Released(id)
Unmatched(id, role) ==
  /\ IsYahoo(id) /\ players[id].role = role
  /\ players[id].mlbam = None \/ Released(id)
\* Whoever holds the identity already does not matter.
AssignedBesideHolders(id, role, rows) == Unmatched(id, role) /\ NamedAlone(id, rows)
Assigned(id, role, rows) ==
  /\ Unmatched(id, role) /\ NamedAlone(id, rows)
  /\ \A m \in Candidates(id, rows) : ~Held(m, role)
  /\ \A j \in Ids : j < id => ~(Unmatched(j, role) /\ Candidates(j, rows) = Candidates(id, rows))
\* ReconcileMLBIdentities, the second transaction of the step.
Reconcile ==
  /\ reconciling # None
  /\ LET role == IF reconciling.group = "hitting" THEN "B" ELSE "P"
         rows == reconciling.rows
     IN players' = [id \in Ids |->
          IF Assigned(id, role, rows)
            THEN [players[id] EXCEPT !.mlbam = CHOOSE m \in Candidates(id, rows) : TRUE, !.source = "name+team+pos"]
          ELSE IF Released(id) THEN [players[id] EXCEPT !.mlbam = None, !.source = None]
          ELSE players[id]]
  /\ moved' = (moved \/ \E id \in Ids : Released(id))
  /\ reconciling' = None
  /\ UNCHANGED <<watched, records, written>>

\* The reconciliation fails, or the process dies before it.
SkipReconcile ==
  /\ reconciling # None
  /\ reconciling' = None
  /\ UNCHANGED <<players, watched, records, written, moved>>

\* ReplaceMLBRoster, by the sync or by t: rows for persons of the club that have none of the role.
ReplaceRoster ==
  /\ \E role \in {"H", "P"} : \E m \in Playing(role) :
       /\ RosterRow(m, role) = None
       /\ players' = WithRows(<<m>>, role, "40man")
  /\ UNCHANGED <<watched, records, reconciling, written, moved>>

\* ReplaceStatcastSnapshot and ReplaceFanGraphsSnapshot: each person to the row its rule
\* picks, persons without a row are skipped; a FanGraphs snapshot of which nobody has a
\* row is refused, and so is an empty one of either.
ReplaceEnrichment ==
  /\ watched \in Enrichments
  /\ reconciling = None
  /\ \E rows \in SUBSET Persons \ {{}} :
       LET RowOf(m) == IF watched = "projections" THEN ProjectionRow(m) ELSE StatcastRow(m, watched)
           resolved == {m \in rows : RowOf(m) # None}
       IN /\ watched = "projections" => resolved # {}
          /\ Write([id \in {RowOf(m) : m \in resolved} |->
                      [of |-> CHOOSE m \in resolved : RowOf(m) = id, qs |-> 0]], resolved)
  /\ UNCHANGED <<players, watched, reconciling>>

IdentitiesNext ==
  \/ UpsertYahoo \/ \E group \in Groups : ReplaceStats(group)
  \/ Reconcile \/ SkipReconcile \/ ReplaceRoster \/ ReplaceEnrichment

IdentitiesSpec == IdentitiesInit /\ [][IdentitiesNext]_identityVars

----------------------------------------------------------------------------
(* Properties *)

IdentitiesTypeOK ==
  /\ \A id \in Ids : players[id] \in PlayerRows
  /\ watched \in Followed
  /\ DOMAIN records \subseteq Ids /\ \A id \in DOMAIN records : records[id] \in [of: Persons, qs: {0, 1}]
  /\ moved \in BOOLEAN

\* A step after which two Yahoo rows of one role claim one identity is no reconciliation;
\* only a database of an older release starts with such rows.
OneClaimPerRole ==
  [][(\E i, j \in DOMAIN players : SameClaim(i, j))' => ~Reconcile]_identityVars

\* Since statistics were last replaced, unless a row lost its identity or its role
\* after that, every Yahoo player of the role with an identity shows that person's line, whichever row it
\* was written to, and whichever rows and identities have come since.
PoolShowsStored ==
  (watched \in Groups /\ ~moved) =>
    \A id \in Ids : LET m == players[id].mlbam
      IN (IsYahoo(id) /\ m \in written /\ players[id].role \in Readable(watched)) =>
           PoolShows(m) # None /\ PoolShows(m).of = m

\* A roster shows the line of a person whenever it joins the row the next statistics
\* would be written to and that row is not Yahoo's: no row of a provider that came, or
\* was given the identity, since the line was stored takes its place.
RosterShowsStored ==
  (watched \in Groups /\ ~moved) =>
    \A m \in written :
      LET id == RosterJoin(m)
      IN (id # None /\ id = StatsRow(m, watched) /\ ~IsYahoo(id)) => RosterShows(m) # None

\* Nobody is shown the line of another, in any table, unless a row lost its identity or
\* its role since it was replaced. Nothing at all may be shown: once a player of the MLB
\* seed is known to Yahoo too, statistics may be written to the one row (StatsRow) and a
\* roster join the other (RosterJoin), and zeros are printed.
ShownIsOwn ==
  ~moved => \A m \in Persons :
    /\ watched # "projections" => PoolShows(m) = None \/ PoolShows(m).of = m
    /\ watched \in Groups => RosterShows(m) = None \/ RosterShows(m).of = m
    /\ watched = "projections" => ProjectionShown(m) = None \/ ProjectionShown(m).of = m

\* Pools show what was stored for each Yahoo player and role, rosters where they read the
\* row that is written, and neither shows one person's line for another.
PlayersShowTheirOwn == PoolShowsStored /\ RosterShowsStored /\ ShownIsOwn

\* A step after which the pool shows nothing for a Yahoo player of the role whom the new
\* Statcast table has is no replacement of that table.
StatcastIsShown ==
  [][(/\ watched \in {"statcast_batting", "statcast_pitching"} /\ UNCHANGED players
      /\ \E id \in Ids : LET m == players[id].mlbam
           IN IsYahoo(id) /\ m \in written' /\ players[id].role \in Readable(watched) /\ PoolShows(m)' = None)
     => ~ReplaceEnrichment]_identityVars

\* A pitcher whose quality starts were counted once is not shown with none because a later
\* acquisition could not count them, whichever row his line is on by then.
QualityStartsKept ==
  [][(watched = "pitching" /\ ~moved') =>
       \A m \in written \intersect written' :
         (PoolShows(m) # None /\ PoolShows(m).qs > 0) => PoolShows(m)'.qs > 0]_identityVars

\* What an enrichment step stores is shown, and what it cannot replace is kept.
EnrichmentKept == StatcastIsShown /\ QualityStartsKept
=============================================================================
