------------------------------ MODULE GameSigns ------------------------------
(***************************************************************************)
(* The signs beside a club's players while the day goes on: whether its    *)
(* game is on, and the player's place in the order. Three commands work    *)
(* them out, each with a function of its own: r (and h, p), m and t. The   *)
(* first also lays the lineup page over the schedule. A club may play two  *)
(* games on a day.                                                         *)
(***************************************************************************)
EXTENDS Integers, Sequences, FiniteSetsExt

CONSTANTS
  GamesToday,   \* how many games the club plays, always with the same other club
  Batters, Pitchers,
  Unknown,      \* players whose name fits no identity, or several
  Injured,      \* players with an injured-list or not-active status of their own
  Orders,       \* batting orders the club may announce
  MinResolved,  \* how many names of an order must fit an identity (7 of 9)
  Nobody

Players == Batters \cup Pitchers
Games == 1..GamesToday
First == 1

SignsAssumption ==
  /\ GamesToday \in Nat \ {0}
  /\ Unknown \subseteq Players /\ Injured \subseteq Players /\ Nobody \notin Players
  /\ \A o \in Orders : o \in Seq(Batters) /\ o # <<>>

VARIABLES
  state,        \* each game
  starter,      \* its starting pitcher, Nobody if not named
  order,        \* the batting order announced for it, <<>> for none
  listed,       \* games whose order the MLB schedule shows
  box           \* each game's box on the lineup page, <<>> for none

signVars == <<state, starter, order, listed, box>>

SignsInit ==
  /\ state = [g \in Games |-> "scheduled"]
  /\ starter = [g \in Games |-> Nobody]
  /\ order = [g \in Games |-> <<>>]
  /\ listed = {}
  /\ box = [g \in Games |-> <<>>]

(***************************************************************************)
(* The day                                                                 *)
(***************************************************************************)
NameStarter(g) ==
  /\ starter[g] = Nobody
  /\ \E p \in Pitchers : starter' = [starter EXCEPT ![g] = p]
  /\ UNCHANGED <<state, order, listed, box>>

AnnounceOrder(g) ==
  /\ starter[g] # Nobody /\ order[g] = <<>> /\ state[g] = "scheduled"
  /\ \E o \in Orders : order' = [order EXCEPT ![g] = o]
  /\ UNCHANGED <<state, starter, listed, box>>

ListOrder(g) ==
  /\ order[g] # <<>> /\ listed' = listed \cup {g}
  /\ UNCHANGED <<state, starter, order, box>>

\* The page guesses the order, and confirms it when it is announced.
Publish(g) ==
  /\ starter[g] # Nobody
  /\ \E o \in Orders, confirmed \in BOOLEAN :
       /\ confirmed => o = order[g]
       /\ box' = [box EXCEPT ![g] = [order |-> o, starter |-> starter[g], confirmed |-> confirmed]]
  /\ UNCHANGED <<state, starter, order, listed>>

\* A game starts when its order is known and the one before it has ended. "over" comes
\* before "final".
Play(g) ==
  /\ \/ /\ state[g] = "scheduled" /\ order[g] # <<>>
        /\ \A h \in Games : h < g => state[h] \in {"final", "postponed"}
        /\ state' = [state EXCEPT ![g] = "live"]
     \/ state[g] = "scheduled" /\ state' = [state EXCEPT ![g] = "postponed"]
     \/ state[g] = "live" /\ state' = [state EXCEPT ![g] = "over"]
     \/ state[g] = "over" /\ state' = [state EXCEPT ![g] = "final"]
  /\ UNCHANGED <<starter, order, listed, box>>

(***************************************************************************)
(* The order and the starter a command sees                                *)
(***************************************************************************)
Resolves(p) == p \notin Unknown

\* An order with too few known names is none; in the others the unknown are nobody.
Matched(o) ==
  IF Cardinality({i \in DOMAIN o : Resolves(o[i])}) < MinResolved THEN <<>>
  ELSE [i \in DOMAIN o |-> IF Resolves(o[i]) THEN o[i] ELSE Nobody]

\* Fault: a box that only expects an order counts.
AnyBox(g) == box[g] # <<>>

Confirmed(g) == box[g] # <<>> /\ box[g].confirmed

\* Boxes name clubs, not games: each is laid over every game of its clubs, so that the
\* last one stands.
LastOf(boxes) == Max(boxes)
OverlaidOrder ==
  LET boxes == {g \in Games : Confirmed(g) /\ Matched(box[g].order) # <<>>} IN
  IF boxes = {} THEN <<>> ELSE Matched(box[LastOf(boxes)].order)
OverlaidStarter ==
  LET boxes == {g \in Games : Confirmed(g) /\ Resolves(box[g].starter)} IN
  IF boxes = {} THEN Nobody ELSE box[LastOf(boxes)].starter

ScheduleOrder(g) == IF g \in listed THEN order[g] ELSE <<>>
SeenOrder(g, page) == IF page /\ OverlaidOrder # <<>> THEN OverlaidOrder ELSE ScheduleOrder(g)
SeenStarter(g, page) == IF page /\ OverlaidStarter # Nobody THEN OverlaidStarter ELSE starter[g]

(***************************************************************************)
(* The signs                                                               *)
(***************************************************************************)
NoSign == [phase |-> "none", mark |-> "none", place |-> 0]
Marked(mark, place) == [mark |-> mark, place |-> place]
NoMark == Marked("none", 0)

PlaceIn(p, o) == CHOOSE i \in DOMAIN o : o[i] = p

Mark(p, o, s) ==
  IF p \in Pitchers THEN (IF s = p THEN Marked("starts", 0) ELSE NoMark)
  ELSE IF o = <<>> THEN NoMark
  ELSE IF p \in Range(o) THEN Marked("bats", PlaceIn(p, o)) ELSE Marked("out", 0)

Sign(phase, mark) == [phase |-> phase, mark |-> mark.mark, place |-> mark.place]

\* Not final and neither begun: a game that is under way has a line score.
Phase(g) ==
  IF state[g] = "final" THEN "final"
  ELSE IF state[g] \in {"live", "over"} THEN "live" ELSE "scheduled"

\* r: the first game of the player's club.
RosterSign(p, page) ==
  Sign(Phase(First), Mark(p, SeenOrder(First, page), SeenStarter(First, page)))

\* Fault: the last game of the player's club.
MatchupSignOfLast(p) ==
  IF p \in Injured THEN NoSign
  ELSE Sign(Phase(GamesToday), Mark(p, SeenOrder(GamesToday, FALSE), SeenStarter(GamesToday, FALSE)))

\* m: without the page, and a status of the player's own stays.
MatchupSign(p) ==
  IF p \in Injured THEN NoSign
  ELSE Sign(Phase(First), Mark(p, SeenOrder(First, FALSE), SeenStarter(First, FALSE)))

\* t: a mark is shown before the game only, and whatever is neither scheduled nor final is
\* live.
TeamPhase(g) == IF state[g] \in {"scheduled", "final"} THEN state[g] ELSE "live"
TeamMark(p) ==
  IF TeamPhase(First) # "scheduled" THEN NoMark
  ELSE Mark(p, SeenOrder(First, FALSE), SeenStarter(First, FALSE))
TeamSign(p) == Sign(TeamPhase(First), TeamMark(p))

SignsNext ==
  \E g \in Games : NameStarter(g) \/ AnnounceOrder(g) \/ ListOrder(g) \/ Publish(g) \/ Play(g)

SignsSpec == SignsInit /\ [][SignsNext]_signVars

(***************************************************************************)
(* Properties                                                              *)
(***************************************************************************)
SignsTypeOK ==
  /\ state \in [Games -> {"scheduled", "live", "over", "final", "postponed"}]
  /\ starter \in [Games -> Pitchers \cup {Nobody}]
  /\ order \in [Games -> Orders \cup {<<>>}]
  /\ listed \subseteq Games

Signs(p) == {RosterSign(p, TRUE), RosterSign(p, FALSE), MatchupSign(p), TeamSign(p)}

\* Whatever the page and the schedule say at the time, a place in the order, a start and
\* being left out are shown only of a player of whom the club announced just that for one
\* of its games; left out of an order he is in is only a player with an unknown name.
MarksWereAnnounced ==
  \A p \in Players : \A sign \in Signs(p) :
    /\ sign.mark = "starts" => \E g \in Games : starter[g] = p
    /\ sign.mark = "bats" =>
         \E g \in Games : sign.place \in DOMAIN order[g] /\ order[g][sign.place] = p
    /\ sign.mark = "out" =>
         \E g \in Games : order[g] # <<>> /\ (p \in Range(order[g]) => p \in Unknown)

\* The three functions agree: r without the page shows what m shows, and t the same game's
\* mark until it starts and, unless it was postponed, its phase.
CommandsAgree ==
  \A p \in Players \ Injured :
    /\ RosterSign(p, FALSE) = MatchupSign(p)
    /\ state[First] # "postponed" => TeamSign(p).phase = MatchupSign(p).phase
    /\ TeamSign(p).phase = "scheduled" => TeamSign(p) = MatchupSign(p)
==============================================================================
