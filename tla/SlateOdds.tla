------------------------------ MODULE SlateOdds ------------------------------
(***************************************************************************)
(* The odds beside the games of the slate (sp) and of the matchup (m). Two *)
(* clubs meet in a series: one or more games today, more tomorrow, in the  *)
(* order every provider lists them in. ESPN's answer holds the events of   *)
(* both days, and the odds of each come by a request of its own; tomorrow's*)
(* odds come from OddsShark.                                               *)
(***************************************************************************)
EXTENDS Integers, FiniteSets

CONSTANTS
  Today,     \* how many games the two clubs play today
  Tomorrow   \* and tomorrow

Games == 1..Today + Tomorrow
TodaysGames == 1..Today
TomorrowsGames == Games \ TodaysGames

SlateAssumption == Today \in Nat /\ Tomorrow \in Nat

VARIABLES
  espn,      \* games ESPN quotes at this moment
  shark,     \* tomorrow's games OddsShark quotes at this moment
  lines,     \* games quoted by the ESPN answer at hand
  future,    \* games quoted by the OddsShark answer at hand
  timed      \* whether it tells when they start

slateVars == <<espn, shark, lines, future, timed>>

SlateInit ==
  /\ espn \in SUBSET Games /\ shark \in SUBSET TomorrowsGames
  /\ lines = {} /\ future = {} /\ timed = FALSE

\* A quote appears, or is taken down.
Quote ==
  \/ /\ \E g \in Games : espn' \in {espn \cup {g}, espn \ {g}}
     /\ UNCHANGED <<shark, lines, future, timed>>
  \/ /\ \E g \in TomorrowsGames : shark' \in {shark \cup {g}, shark \ {g}}
     /\ UNCHANGED <<espn, lines, future, timed>>

\* The request for a game's odds may fail: the game stays in the answer without a quote.
FetchCurrent ==
  /\ lines' \in SUBSET espn
  /\ UNCHANGED <<espn, shark, future, timed>>

\* A game without both of its prices is left out.
FetchFuture ==
  /\ future' = shark
  /\ timed' \in BOOLEAN
  /\ UNCHANGED <<espn, shark, lines>>

\* The game of a set with n others of it before it in provider order; 0 for none.
IsNth(g, set, n) == g \in set /\ Cardinality({h \in set : h < g}) = n
Nth(set, n) == IF \E g \in set : IsNth(g, set, n) THEN CHOOSE g \in set : IsNth(g, set, n) ELSE 0

\* Fault: every game of two clubs takes their first line.
AlwaysFirst(g) == 0

\* The games of the same clubs before it on its date.
Occurrence(g) == Cardinality({h \in Games : h < g /\ (h \in TodaysGames <=> g \in TodaysGames)})

\* The game whose odds the slate shows beside g: of the lines with a quote the one of the
\* game's turn. OddsShark's are first looked for by the time they start at.
SlateLine(g) ==
  IF g \in TodaysGames THEN Nth(lines, Occurrence(g))
  ELSE IF timed /\ g \in future THEN g ELSE Nth(future, Occurrence(g))

\* The matchup takes the clubs' first line with a quote for each of their games today.
MatchupLine(g) == Nth(lines, 0)

SlateNext == Quote \/ FetchCurrent \/ FetchFuture

SlateSpec == SlateInit /\ [][SlateNext]_slateVars

(***************************************************************************)
(* Properties                                                              *)
(***************************************************************************)
SlateTypeOK ==
  /\ espn \subseteq Games /\ lines \subseteq Games
  /\ shark \subseteq TomorrowsGames /\ future \subseteq TomorrowsGames
  /\ timed \in BOOLEAN

SameDay(g, h) == g \in TodaysGames <=> h \in TodaysGames

\* Two games of a day whose odds came with OddsShark's start times and of which one is quoted:
\* that one finds its line by its time and leaves it in its place for the other's turn.
TakenTwice(g, h) ==
  /\ timed /\ {g, h} \subseteq TomorrowsGames
  /\ \E own \in {g, h} : {g, h} \intersect future = {own} /\ SlateLine(g) = own

\* Which of the games of two clubs share a line, whatever is quoted and whichever requests
\* fail. On the slate two games of one day do not, but for tomorrow's of which one is quoted
\* with its start time (TakenTwice). A day quoted in full shows each game its own line; a day
\* quoted in part may show a game the line of the next. The matchup shows one line for all of
\* today's games (matchupOdds): a line of today's if any is quoted, that of the first if all are.
LinesAreToldApart ==
  /\ \A g, h \in Games :
       g # h /\ SameDay(g, h) /\ SlateLine(g) = SlateLine(h) /\ SlateLine(g) # 0 => TakenTwice(g, h)
  /\ TodaysGames \subseteq lines => \A g \in TodaysGames : SlateLine(g) = g /\ MatchupLine(g) = 1
  /\ TomorrowsGames \subseteq future => \A g \in TomorrowsGames : SlateLine(g) = g
  /\ lines \intersect TodaysGames # {} => \A g \in TodaysGames : MatchupLine(g) \in TodaysGames
==============================================================================
