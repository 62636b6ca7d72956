------------------------ MODULE LeagueAcquisitionProofs ------------------------
(***************************************************************************)
(* What the acquisition of a league guarantees for any number of teams,    *)
(* players, workers and transactions meanwhile: what is stored was true at *)
(* some moment of it, and is the league itself if nobody moved. The pool   *)
(* is proved about in FetchPoolProofs; its steps here are steps there.     *)
(***************************************************************************)
EXTENDS LeagueAcquisition, FetchPoolProofs, WellFoundedInduction

\* Once the rosters are in.
AfterRosters == {"pages", "team", "history", "persist", "done"}
AfterPages == {"team", "history", "persist", "done"}

\* The roster of team t has been asked for and answered.
Fetched(t) ==
  \/ t \in kept \/ In(results, t)
  \/ \E w \in Workers : stage[w] = "sending" /\ hand[w] = t

\* What rosters say was so when they were fetched.
RostersOK ==
  /\ \A p \in Players : owner[p] \in seen[p]
  /\ \A t \in Teams : \A p \in rosters[t] : t \in seen[p]
  /\ \A t \in Teams : Fetched(t) =>
       \A p \in Players : seen[p] = {t} => p \in rosters[t]
  /\ moves = 0 => \A t \in Teams : Fetched(t) => rosters[t] = RosterOf(t)

\* The free agents that the pages so far list.
UpTo(n) == {p \in Players : owner[p] = Free /\ Before(p) \div PageSize < n}
AllFree == {p \in Players : owner[p] = Free}

PagesOK ==
  /\ \A p \in found : Free \in seen[p]
  /\ moves = 0 => found = UpTo(page)
  /\ moves = 0 /\ phase \in AfterPages => found = AllFree

\* What is stored is what was acquired, whole.
StoreOK ==
  /\ phase \in AfterRosters => kept = Teams
  /\ phase = "done" => stored = [slots |-> Slots, free |-> found] /\ ValidSnapshot

AcquisitionInv ==
  AcquisitionTypeOK /\ PoolInv /\ RostersOK /\ PagesOK /\ StoreOK

(***************************************************************************)
(* Free agents are numbered without a gap: if page n is empty, so are all  *)
(* the pages after it.                                                     *)
(***************************************************************************)

\* Every set of numbers has a smallest one.
LEMMA Smallest ==
  ASSUME NEW T \in SUBSET Nat, T # {} PROVE \E x \in T : \A y \in T : x <= y
<1>1. IsWellFoundedOn(OpToRel(<, Nat), Nat) BY NatLessThanWellFounded
<1>2. PICK x \in T : \A y \in T : ~(<<y, x>> \in OpToRel(<, Nat))
  BY <1>1, WFMin
<1>3. ASSUME NEW y \in T PROVE x <= y
  <2>1. <<y, x>> \in Nat \X Nat OBVIOUS
  <2>2. <<y, x>> \notin OpToRel(<, Nat) BY <1>2
  <2>3. ~(<<y, x>>[1] < <<y, x>>[2]) BY <2>1, <2>2, Zenon DEF OpToRel
  <2> QED BY <2>3
<1> QED BY <1>3

\* Every set of numbers with a bound has a largest one.
LEMMA Largest ==
  ASSUME NEW n \in Nat, NEW T \in SUBSET (0..n), T # {}
  PROVE  \E x \in T : \A y \in T : y <= x
<1> DEFINE U == {m \in Nat : \E x \in T : m = n - x}
<1>1. U \in SUBSET Nat /\ U # {}
  <2>1. PICK x \in T : TRUE OBVIOUS
  <2>2. n - x \in Nat BY <2>1
  <2> QED BY <2>2
<1>2. PICK m \in U : \A k \in U : m <= k BY <1>1, Smallest
<1>3. PICK x \in T : m = n - x BY <1>2
<1>4. ASSUME NEW y \in T PROVE y <= x
  <2>1. n - y \in U BY <1>4
  <2>2. m <= n - y BY <1>2, <2>1
  <2> QED BY <1>3, <1>4, <2>2
<1> QED BY <1>4

\* The free players before p, whose number Before(p) is.
FreeBefore(p) == {q \in Players : q < p /\ owner[q] = Free}

\* There is a number of them.
LEMMA BeforeIsNat ==
  ASSUME NEW p \in Players
  PROVE  IsFiniteSet(FreeBefore(p)) /\ Before(p) = Cardinality(FreeBefore(p))
         /\ Before(p) \in Nat /\ Before(p) \div PageSize \in Nat
<1>1. NumPlayers \in Int /\ 1 \in Int BY AcquisitionAssumption
<1>2. IsFiniteSet(1..NumPlayers) BY <1>1, FS_Interval
<1>3. IsFiniteSet(Players) BY <1>2 DEF Players
<1>4. IsFiniteSet(FreeBefore(p)) BY <1>3, FS_Subset DEF FreeBefore
<1>5. Before(p) = Cardinality(FreeBefore(p)) BY DEF Before, FreeBefore
<1>6. Before(p) \in Nat BY <1>4, <1>5, FS_CardinalityType
<1>7. Before(p) \div PageSize \in Nat BY <1>6, AcquisitionAssumption
<1> QED BY <1>4, <1>5, <1>6, <1>7

\* A free agent who is not the first has one just before him.
LEMMA PreviousFree ==
  ASSUME NEW p \in Players, FreeBefore(p) # {}
  PROVE  \E q \in FreeBefore(p) : Before(p) = Before(q) + 1
<1>1. FreeBefore(p) \in SUBSET (0..NumPlayers) /\ NumPlayers \in Nat
  BY AcquisitionAssumption DEF FreeBefore, Players
<1>2. PICK q \in FreeBefore(p) : \A r \in FreeBefore(p) : r <= q
  BY <1>1, Largest
<1>3. q \in Players /\ q < p /\ owner[q] = Free BY DEF FreeBefore
<1>4. FreeBefore(p) = FreeBefore(q) \cup {q}
  BY <1>2, <1>3 DEF FreeBefore, Players
<1>5. q \notin FreeBefore(q) BY <1>3 DEF FreeBefore, Players
<1>6. Cardinality(FreeBefore(p)) = Cardinality(FreeBefore(q)) + 1
  BY <1>3, <1>4, <1>5, BeforeIsNat, FS_AddElement
<1> QED BY <1>2, <1>3, <1>6, BeforeIsNat

\* An empty page is the end of the list.
LEMMA EmptyPageEnds ==
  ASSUME page \in Nat, PageRows = {}
  PROVE  UpTo(page) = AllFree
<1> DEFINE Later == {p \in AllFree : ~(Before(p) \div PageSize < page)}
<1>1. SUFFICES Later = {} BY DEF UpTo, AllFree
<1>2. SUFFICES ASSUME Later # {} PROVE FALSE OBVIOUS
<1>3. Later \in SUBSET Nat BY DEF AllFree, Players
<1>4. PICK p \in Later : \A q \in Later : p <= q BY <1>2, <1>3, Smallest
<1>5. p \in Players /\ owner[p] = Free /\ Before(p) \div PageSize # page
  BY <1>4 DEF AllFree, PageRows
<1>6. Before(p) \in Nat /\ Before(p) \div PageSize \in Nat
  BY <1>5, BeforeIsNat
<1>7. Before(p) \div PageSize > page BY <1>4, <1>5, <1>6
<1>8. CASE FreeBefore(p) = {}
  <2>1. Before(p) = 0 BY <1>5, <1>8, BeforeIsNat, FS_EmptySet
  <2>2. 0 \div PageSize = 0 BY AcquisitionAssumption
  <2> QED BY <1>7, <2>1, <2>2
<1>9. CASE FreeBefore(p) # {}
  <2>1. PICK q \in FreeBefore(p) : Before(p) = Before(q) + 1
    BY <1>5, <1>9, PreviousFree
  <2>2. q \in Players /\ q < p /\ owner[q] = Free BY <2>1 DEF FreeBefore
  <2>3. Before(q) \in Nat /\ Before(q) \div PageSize \in Nat
    BY <2>2, BeforeIsNat
  <2>4. (Before(q) + 1) \div PageSize <= (Before(q) \div PageSize) + 1
    BY <2>3, AcquisitionAssumption
  <2>5. Before(q) \div PageSize >= page BY <1>6, <1>7, <2>1, <2>3, <2>4
  <2>6. q \in Later BY <2>2, <2>3, <2>5 DEF AllFree
  <2> QED BY <1>4, <1>5, <2>2, <2>6 DEF Players
<1> QED BY <1>8, <1>9

\* The next page lists the free agents that follow.
LEMMA NextPageLists ==
  ASSUME page \in Nat PROVE UpTo(page) \cup PageRows = UpTo(page + 1)
<1>1. \A p \in Players : Before(p) \div PageSize \in Nat BY BeforeIsNat
<1> QED BY <1>1 DEF UpTo, PageRows

(***************************************************************************)
(* The steps.                                                              *)
(***************************************************************************)

\* Nothing is acquired at the start, and everybody has been seen where he is.
LEMMA InitAcquisition == AcquisitionInit => AcquisitionInv
<1> SUFFICES ASSUME AcquisitionInit PROVE AcquisitionInv OBVIOUS
<1> USE AcquisitionAssumption, SizesAssumption DEF AcquisitionInit
<1>1. PoolInv BY InitPool
<1>2. owner \in [Players -> Places] BY DEF Places
<1>3. \A p \in Players : {owner[p]} \subseteq Places BY <1>2
<1>4. AcquisitionTypeOK
  BY <1>1, <1>2, <1>3 DEF PoolInv, AcquisitionTypeOK, Nothing
<1>5. \A t \in Teams : ~Fetched(t)
  BY InEmpty DEF Fetched, Init
<1>6. RostersOK BY <1>5 DEF RostersOK
<1>7. UpTo(0) = {}
  <2>1. \A p \in Players : Before(p) \div PageSize \in Nat BY BeforeIsNat
  <2> QED BY <2>1 DEF UpTo
<1>8. PagesOK BY <1>7 DEF PagesOK, AfterPages
<1>9. StoreOK BY DEF StoreOK, AfterRosters
<1> QED BY <1>1, <1>4, <1>6, <1>8, <1>9 DEF AcquisitionInv

\* A player changes his team: what was true of the past stays true.
LEMMA MoveInv == ASSUME AcquisitionInv, Move PROVE AcquisitionInv'
<1> USE AcquisitionAssumption DEF AcquisitionInv, acquired
<1>1. PICK p \in Players, to \in Places :
        /\ owner' = [owner EXCEPT ![p] = to]
        /\ seen' = [seen EXCEPT ![p] = @ \cup {to}]
  BY DEF Move, Places
<1>2. /\ moves < MaxMoves /\ phase # "done" /\ moves' = moves + 1
      /\ UNCHANGED <<vars, phase, acquired>>
  BY DEF Move
<1>3. PoolInv' BY <1>2, PoolStutterInv
<1>4. /\ owner \in [Players -> Places] /\ seen \in [Players -> SUBSET Places]
      /\ moves \in Nat
  BY DEF AcquisitionTypeOK
<1>5. /\ owner' \in [Players -> Places] /\ seen' \in [Players -> SUBSET Places]
      /\ \A q \in Players : seen[q] \subseteq seen'[q] /\ owner'[q] \in seen'[q]
  BY <1>1, <1>4 DEF RostersOK
<1>6. AcquisitionTypeOK'
  BY <1>2, <1>3, <1>4, <1>5 DEF AcquisitionTypeOK, PoolInv
<1>7. \A q \in Players, t \in Teams : seen'[q] = {t} => seen[q] = {t}
  BY <1>5 DEF RostersOK
<1>8. \A t \in Teams : Fetched(t)' <=> Fetched(t) BY <1>2 DEF Fetched, vars
<1>9. found \subseteq Players /\ \A t \in Teams : rosters[t] \subseteq Players
  BY DEF AcquisitionTypeOK
<1>10. RostersOK'
  BY <1>2, <1>4, <1>5, <1>7, <1>8, <1>9 DEF RostersOK
<1>11. PagesOK'
  <2>1. moves' # 0 /\ found' = found BY <1>2, <1>4
  <2>3. \A q \in found' : Free \in seen'[q]
    BY <1>5, <1>9, <2>1 DEF PagesOK
  <2>4. (moves = 0 => found = UpTo(page))' BY <2>1
  <2>5. (moves = 0 /\ phase \in AfterPages => found = AllFree)' BY <2>1
  <2> QED BY <2>3, <2>4, <2>5 DEF PagesOK
<1>12. StoreOK' BY <1>2 DEF StoreOK, vars
<1> QED BY <1>3, <1>6, <1>10, <1>11, <1>12

\* A step that only moves on.
LEMMA EnterInv ==
  ASSUME AcquisitionInv, UNCHANGED <<vars, world, rosters, page, found, stored>>,
         declared' \in {0, N, N + 1},
         phase' \in {"settings", "standings", "rosters", "pages", "team", "history",
                     "persist", "failed"},
         phase' \in AfterRosters => kept = Teams,
         phase' \in AfterPages => phase \in AfterPages
  PROVE  AcquisitionInv'
<1> USE DEF AcquisitionInv, world
<1>1. PoolInv' BY PoolStutterInv
<1>2. AcquisitionTypeOK' BY <1>1 DEF AcquisitionTypeOK, PoolInv
<1>3. \A t \in Teams : Fetched(t)' <=> Fetched(t) BY DEF Fetched, vars
<1>4. RostersOK' BY <1>3 DEF RostersOK, RosterOf
<1>5. PagesOK' BY DEF PagesOK, UpTo, AllFree, Before
<1>6. StoreOK' BY DEF StoreOK, vars, AfterRosters
<1> QED BY <1>1, <1>2, <1>4, <1>5, <1>6

\* Only a fetch adds to what has been fetched; the rest hands it on.
LEMMA OthersFetchNothing ==
  ASSUME PoolInv,
         Collector \/ \E w \in Workers : Take(w) \/ Send(w) \/ Leave(w)
  PROVE  \A t \in Teams : Fetched(t)' => Fetched(t)
<1> USE DEF PoolInv
<1>1. CASE Collect
  <2>1. results \in Seq(Items) /\ results # <<>> BY <1>1 DEF Collect, TypeOK
  <2>2. /\ In(results, Head(results))
        /\ \A x : In(results', x) => In(results, x)
    BY <1>1, <2>1, Receive DEF Collect
  <2>3. kept' \subseteq kept \cup {Head(results)} /\ UNCHANGED <<stage, hand>>
    BY <1>1 DEF Collect, workerVars
  <2> QED BY <2>2, <2>3 DEF Fetched
<1>2. CASE Prime \/ EndPriming \/ Refill \/ CloseJobs \/ Return
  <2>1. UNCHANGED <<kept, results, stage, hand>>
    BY <1>2 DEF Prime, EndPriming, Refill, CloseJobs, Return, workerVars
  <2> QED BY <2>1 DEF Fetched
<1>3. ASSUME NEW w \in Workers, Send(w)
      PROVE  \A t \in Teams : Fetched(t)' => Fetched(t)
  <2>1. hand[w] \in Items /\ results \in Seq(Items)
    BY <1>3 DEF Send, Apart, Busy, TypeOK
  <2>2. /\ stage[w] = "sending" /\ stage' = [stage EXCEPT ![w] = "idle"]
        /\ hand' = [hand EXCEPT ![w] = None] /\ UNCHANGED kept
    BY <1>3 DEF Send, collectorVars
  <2>3. \A x : In(results', x) => x = hand[w] \/ In(results, x)
    BY <1>3, <2>1, Deliver DEF Send
  <2>4. \A v \in Workers :
          stage'[v] = "sending" => stage[v] = "sending" /\ hand'[v] = hand[v]
    BY <2>2 DEF TypeOK
  <2> QED BY <2>2, <2>3, <2>4 DEF Fetched
<1>4. ASSUME NEW w \in Workers, Take(w) \/ Leave(w)
      PROVE  \A t \in Teams : Fetched(t)' => Fetched(t)
  <2>1. UNCHANGED <<kept, results>> BY <1>4 DEF Take, Leave, collectorVars
  <2>2. \A v \in Workers :
          stage'[v] = "sending" => stage[v] = "sending" /\ hand'[v] = hand[v]
    BY <1>4 DEF Take, Leave, TypeOK
  <2> QED BY <2>1, <2>2 DEF Fetched
<1> QED BY <1>1, <1>2, <1>3, <1>4 DEF Collector

\* A goroutine of the pool: a roster is fetched, or moves on to the collector.
LEMMA RosterStepInv == ASSUME AcquisitionInv, RosterStep PROVE AcquisitionInv'
<1> USE AcquisitionAssumption DEF AcquisitionInv, acquired, world
<1>0. /\ phase = "rosters" /\ UNCHANGED <<world, phase, declared, page, found, stored>>
      /\ PoolStep
  BY DEF RosterStep, FetchRoster, PoolStep, Worker
<1>1. PoolInv' BY <1>0, PoolStepInv
<1>2. PagesOK' BY <1>0 DEF PagesOK, UpTo, AllFree, Before
<1>3. StoreOK' BY <1>0 DEF StoreOK, AfterRosters
<1>4. \A t \in Teams : RosterOf(t)' = RosterOf(t) BY <1>0 DEF RosterOf
<1>5. CASE \E w \in Workers : FetchRoster(w)
  <2>1. PICK w \in Workers : FetchRoster(w) BY <1>5
  <2>2. /\ stage[w] = "fetching" /\ stage' = [stage EXCEPT ![w] = "sending"]
        /\ UNCHANGED <<kept, results, hand>>
        /\ rosters' = [rosters EXCEPT ![hand[w]] = RosterOf(hand[w])]
    BY <2>1 DEF FetchRoster, Fetch, collectorVars
  <2>3. hand[w] \in Teams
    BY <2>2 DEF PoolInv, Apart, Busy, Teams
  <2>4. \A t \in Teams : Fetched(t)' => Fetched(t) \/ t = hand[w]
    BY <2>2 DEF Fetched, PoolInv, TypeOK
  <2>5. RosterOf(hand[w]) \subseteq Players BY DEF RosterOf
  <2>6. AcquisitionTypeOK'
    BY <1>0, <1>1, <2>2, <2>3, <2>5 DEF AcquisitionTypeOK, PoolInv
  <2>7. /\ rosters'[hand[w]] = RosterOf(hand[w])
        /\ \A t \in Teams \ {hand[w]} : rosters'[t] = rosters[t]
    BY <2>2, <2>3 DEF AcquisitionTypeOK
  <2>8. \A p \in RosterOf(hand[w]) : hand[w] \in seen[p]
    BY DEF RosterOf, RostersOK
  <2>9. \A p \in Players : seen[p] = {hand[w]} => p \in RosterOf(hand[w])
    BY DEF RosterOf, RostersOK
  <2>10. RostersOK'
    BY <1>0, <1>4, <2>3, <2>4, <2>7, <2>8, <2>9 DEF RostersOK
  <2> QED BY <1>1, <1>2, <1>3, <2>6, <2>10
<1>6. CASE \/ Collector /\ UNCHANGED acquired
           \/ \E w \in Workers : (Take(w) \/ Send(w) \/ Leave(w)) /\ UNCHANGED acquired
  <2>1. UNCHANGED rosters BY <1>6
  <2>2. \A t \in Teams : Fetched(t)' => Fetched(t) BY <1>6, OthersFetchNothing
  <2>3. AcquisitionTypeOK' BY <1>0, <1>1, <2>1 DEF AcquisitionTypeOK, PoolInv
  <2>4. RostersOK' BY <1>0, <1>4, <2>1, <2>2 DEF RostersOK
  <2> QED BY <1>1, <1>2, <1>3, <2>3, <2>4
<1> QED BY <1>5, <1>6 DEF RosterStep

\* The rosters are handed over: if there was no error they are all there.
LEMMA LeagueRostersInv == ASSUME AcquisitionInv, LeagueRosters PROVE AcquisitionInv'
<1>1. /\ at = "returned" /\ UNCHANGED <<vars, world, acquired>>
      /\ phase' = IF firstErr = None THEN "pages" ELSE "failed"
  BY DEF LeagueRosters, Enter
<1>2. firstErr = None => kept = Teams
  BY <1>1, PoolAnswers DEF AcquisitionInv, CompleteOrError, Teams
<1>3. declared \in {0, N, N + 1} BY DEF AcquisitionInv, AcquisitionTypeOK
<1> QED BY <1>1, <1>2, <1>3, EnterInv DEF AcquisitionInv, AfterRosters, AfterPages, acquired

\* A page is listed, or the list has ended.
LEMMA FreeAgentsInv == ASSUME AcquisitionInv, FreeAgents PROVE AcquisitionInv'
<1> USE AcquisitionAssumption DEF AcquisitionInv, world
<1>1. /\ phase = "pages" /\ UNCHANGED <<vars, world, declared, rosters, stored>>
      /\ page \in 0..MaxPages /\ found \subseteq Players /\ kept = Teams
  BY DEF FreeAgents, AcquisitionTypeOK, StoreOK, AfterRosters
<1>2. PoolInv' BY <1>1, PoolStutterInv
<1>3. /\ \A t \in Teams : Fetched(t)' <=> Fetched(t)
      /\ \A t \in Teams : RosterOf(t)' = RosterOf(t)
  BY <1>1 DEF Fetched, vars, RosterOf
<1>4. RostersOK' BY <1>1, <1>3 DEF RostersOK
<1>5. AllFree' = AllFree /\ PageRows \subseteq AllFree
  BY <1>1 DEF AllFree, PageRows
<1>6. CASE PageRows = {} /\ phase' = "team" /\ UNCHANGED <<page, found>>
  <2>1. AcquisitionTypeOK' BY <1>1, <1>2, <1>6 DEF AcquisitionTypeOK, PoolInv
  <2>2. UpTo(page) = AllFree BY <1>1, <1>6, EmptyPageEnds
  <2>3. PagesOK' BY <1>1, <1>5, <1>6, <2>2 DEF PagesOK, UpTo, Before
  <2>4. StoreOK' BY <1>1, <1>6 DEF StoreOK, vars
  <2> QED BY <1>2, <1>4, <2>1, <2>3, <2>4
<1>7. CASE phase' = "failed" /\ UNCHANGED <<page, found>>
  BY <1>1, <1>7, EnterInv DEF AfterRosters, AfterPages, AcquisitionTypeOK
<1>8. CASE /\ PageRows # {} /\ page < MaxPages
           /\ page' = page + 1 /\ found' = found \cup PageRows /\ UNCHANGED phase
  <2>1. PageRows \subseteq Players /\ page' \in 0..MaxPages
    BY <1>1, <1>8 DEF PageRows
  <2>2. AcquisitionTypeOK' BY <1>1, <1>2, <1>8, <2>1 DEF AcquisitionTypeOK, PoolInv
  <2>3. \A p \in PageRows : Free \in seen[p] BY DEF PageRows, RostersOK
  <2>4. moves = 0 => found' = UpTo(page + 1)
    BY <1>1, <1>8, NextPageLists DEF PagesOK
  <2>5. \A p \in found' : Free \in seen'[p] BY <1>1, <1>8, <2>3 DEF PagesOK
  <2>6. (moves = 0 => found = UpTo(page))'
    BY <1>1, <1>8, <2>4 DEF UpTo, Before
  <2>7. phase' \notin AfterPages BY <1>1, <1>8 DEF AfterPages
  <2>8. PagesOK' BY <2>5, <2>6, <2>7 DEF PagesOK
  <2>9. StoreOK' BY <1>1, <1>8 DEF StoreOK, vars
  <2> QED BY <1>2, <1>4, <2>2, <2>8, <2>9
<1> QED BY <1>6, <1>7, <1>8 DEF FreeAgents, Enter

\* What is valid is stored, whole.
LEMMA PersistInv == ASSUME AcquisitionInv, Persist PROVE AcquisitionInv'
<1> USE DEF AcquisitionInv
<1>1. /\ phase = "persist" /\ kept = Teams
      /\ UNCHANGED <<vars, world, declared, rosters, page, found>>
  BY DEF Persist, StoreOK, AfterRosters
<1>2. CASE ~ValidSnapshot /\ phase' = "failed" /\ UNCHANGED stored
  BY <1>1, <1>2, EnterInv DEF AfterRosters, AfterPages, AcquisitionTypeOK
<1>3. CASE /\ ValidSnapshot /\ phase' = "done"
           /\ stored' = [slots |-> Slots, free |-> found]
  <2>1. PoolInv' BY <1>1, PoolStutterInv
  <2>2. Slots \subseteq Teams \X Players BY DEF Slots
  <2>3. /\ stored'.slots \subseteq Teams \X Players
        /\ stored'.free \subseteq Players
    BY <1>3, <2>2 DEF AcquisitionTypeOK
  <2>4. AcquisitionTypeOK'
    BY <1>1, <1>3, <2>1, <2>3 DEF AcquisitionTypeOK, PoolInv, world
  <2>5. \A t \in Teams : Fetched(t)' <=> Fetched(t) BY <1>1 DEF Fetched, vars
  <2>6. RostersOK' BY <1>1, <2>5 DEF RostersOK, RosterOf, world
  <2>7. PagesOK'
    BY <1>1, <1>3 DEF PagesOK, UpTo, AllFree, Before, world, AfterPages
  <2>8. StoreOK'
    BY <1>1, <1>3 DEF StoreOK, vars, Slots, ValidSnapshot, ValidIfWhole, Rostered
  <2> QED BY <2>1, <2>4, <2>6, <2>7, <2>8
<1> QED BY <1>2, <1>3 DEF Persist, Enter

\* Every step keeps the invariant.
LEMMA NextAcquisitionInv ==
  ASSUME AcquisitionInv, [AcquisitionNext]_acquisitionVars PROVE AcquisitionInv'
<1>1. declared \in {0, N, N + 1} BY DEF AcquisitionInv, AcquisitionTypeOK
<1>2. phase \in AfterRosters => kept = Teams BY DEF AcquisitionInv, StoreOK
<1>3. CASE RequestFails \/ Standings
  BY <1>1, <1>3, EnterInv
  DEF RequestFails, Standings, Enter, AfterRosters, AfterPages, acquired
<1>4. CASE LeagueSettings
  BY <1>4, EnterInv DEF LeagueSettings, Enter, AfterRosters, AfterPages
<1>5. CASE SelectTeam
  <2>1. /\ phase = "team" /\ phase' \in {"history", "failed"}
        /\ UNCHANGED <<vars, world, acquired>>
    BY <1>5 DEF SelectTeam, Enter
  <2> QED BY <1>1, <1>2, <2>1, EnterInv DEF AfterRosters, AfterPages, acquired
<1>6. CASE AcquireHistory
  BY <1>1, <1>2, <1>6, EnterInv
  DEF AcquireHistory, Enter, AfterRosters, AfterPages, acquired
<1>7. CASE Ended \/ UNCHANGED acquisitionVars
  <2>1. UNCHANGED <<vars, owner, moves, seen, phase, declared, rosters, page, found, stored>>
    BY <1>7 DEF Ended, acquisitionVars, acquired, world
  <2>2. PoolInv' BY <2>1, PoolStutterInv DEF AcquisitionInv
  <2>3. AcquisitionTypeOK' BY <2>1, <2>2 DEF AcquisitionInv, AcquisitionTypeOK, PoolInv
  <2>4. \A t \in Teams : Fetched(t)' <=> Fetched(t) BY <2>1 DEF Fetched, vars
  <2>5. RostersOK' BY <2>1, <2>4 DEF AcquisitionInv, RostersOK, RosterOf
  <2>6. PagesOK' BY <2>1 DEF AcquisitionInv, PagesOK, UpTo, AllFree, Before
  <2>7. StoreOK'
    BY <2>1 DEF AcquisitionInv, StoreOK, vars, Slots, ValidSnapshot, ValidIfWhole, Rostered
  <2> QED BY <2>2, <2>3, <2>5, <2>6, <2>7 DEF AcquisitionInv
<1> QED
  BY <1>3, <1>4, <1>5, <1>6, <1>7, MoveInv, RosterStepInv, LeagueRostersInv,
     FreeAgentsInv, PersistInv
  DEF AcquisitionNext, AcquisitionStep

(***************************************************************************)
(* What follows.                                                           *)
(***************************************************************************)

\* The strengthening is an invariant.
LEMMA AcquisitionInvariance == AcquisitionSpec => []AcquisitionInv
BY InitAcquisition, NextAcquisitionInv, PTL DEF AcquisitionSpec

\* For any number of teams and workers the pool within the acquisition counts what it
\* waits for, never blocks, and hands back every roster or an error with nothing left
\* running; every variable has its type.
THEOREM PoolWithinAcquisition == AcquisitionSpec => []AcquisitionInvariant
<1>1. AcquisitionInv => AcquisitionInvariant
  BY PoolNeverBlocks, PoolAnswers
  DEF AcquisitionInv, AcquisitionInvariant, PoolInv, CountOK
<1> QED BY <1>1, AcquisitionInvariance, PTL

\* Whatever managers did meanwhile, who the stored league says owns a player did own
\* him at some moment of the acquisition, nobody is owned and free, and who stayed
\* with one team is stored as that team's.
THEOREM StoredLeagueWasTrue == AcquisitionSpec => []StoredWasTrue
<1>1. ASSUME AcquisitionInv, phase = "done" PROVE StoredWasTrue
  <2>1. /\ stored.slots = Slots /\ stored.free = found /\ kept = Teams
        /\ Rostered \cap found = {}
    BY <1>1 DEF AcquisitionInv, StoreOK, AfterRosters, ValidSnapshot
  <2>2. \A slot \in stored.slots : slot[1] \in seen[slot[2]]
    BY <1>1, <2>1 DEF AcquisitionInv, RostersOK, Slots
  <2>3. \A p \in stored.free : Free \in seen[p]
    BY <1>1, <2>1 DEF AcquisitionInv, PagesOK
  <2>4. \A p \in stored.free, t \in Teams : <<t, p>> \notin stored.slots
    BY <2>1 DEF Slots, Rostered
  <2>5. ASSUME NEW t \in Teams, NEW p \in Players, seen[p] = {t}
        PROVE  <<t, p>> \in stored.slots
    <3>1. Fetched(t) BY <2>1 DEF Fetched
    <3>2. p \in rosters[t] BY <1>1, <2>5, <3>1 DEF AcquisitionInv, RostersOK
    <3> QED BY <2>1, <3>2 DEF Slots
  <2> QED BY <2>2, <2>3, <2>4, <2>5 DEF StoredWasTrue
<1>2. AcquisitionInv => StoredWasTrue BY <1>1 DEF StoredWasTrue
<1> QED BY <1>2, AcquisitionInvariance, PTL

\* If nobody moved, the stored league is the league, each of its pages included.
THEOREM QuietLeague == AcquisitionSpec => []QuietLeagueIsStored
<1>1. ASSUME AcquisitionInv, phase = "done", moves = 0 PROVE QuietLeagueIsStored
  <2>1. /\ stored.slots = Slots /\ stored.free = found /\ kept = Teams /\ found = AllFree
    BY <1>1 DEF AcquisitionInv, StoreOK, PagesOK, AfterRosters, AfterPages
  <2>2. \A t \in Teams : rosters[t] = RosterOf(t)
    BY <1>1, <2>1 DEF AcquisitionInv, RostersOK, Fetched
  <2>3. Slots = {slot \in Teams \X Players : slot[1] = owner[slot[2]]}
    BY <2>2 DEF Slots, RosterOf
  <2> QED BY <2>1, <2>3 DEF QuietLeagueIsStored, AllFree
<1>2. AcquisitionInv => QuietLeagueIsStored BY <1>1 DEF QuietLeagueIsStored
<1> QED BY <1>2, AcquisitionInvariance, PTL

\* Within the acquisition, too, the pool keeps the promise of ParallelFetch: its steps
\* are steps of the pool, and everybody else's leave the pool alone.
THEOREM AcquisitionRefinement == AcquisitionSpec => ImplementsParallelFetch
<1>1. AcquisitionInit => Abstract!Init BY PoolInitRefines DEF AcquisitionInit
<1>2. ASSUME AcquisitionNext PROVE PoolStep \/ UNCHANGED vars
  <2>1. CASE RosterStep
    BY <2>1 DEF RosterStep, FetchRoster, PoolStep, Worker
  <2>2. CASE Persist BY <2>2 DEF Persist
  <2>3. CASE Move \/ Ended
    BY <2>3 DEF Move, Ended, acquisitionVars
  <2> QED
    BY <1>2, <2>1, <2>2, <2>3
    DEF AcquisitionNext, AcquisitionStep, RequestFails, LeagueSettings, Standings,
        LeagueRosters, FreeAgents, SelectTeam, AcquireHistory
<1>3. UNCHANGED acquisitionVars => UNCHANGED vars BY DEF acquisitionVars
<1>4. AcquisitionInv /\ [AcquisitionNext]_acquisitionVars
        => [Abstract!Next]_(Abstract!fetchVars)
  BY <1>2, <1>3, PoolStepRefines, PoolStutterRefines DEF AcquisitionInv
<1> QED
  BY <1>1, <1>4, AcquisitionInvariance, PTL
  DEF AcquisitionSpec, ImplementsParallelFetch, Abstract!Spec
==============================================================================
