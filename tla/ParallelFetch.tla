---------------------------- MODULE ParallelFetch ----------------------------
(***************************************************************************)
(* What a parallel acquisition promises its caller: items are acquired in  *)
(* any order, the caller gets either all of them or one error that really  *)
(* happened, and the answer, once given, stands.                           *)
(***************************************************************************)
CONSTANT Items

VARIABLES
  acquired,     \* the items whose result has been kept
  failure,      \* the items one of whose failures is the answer: {} or {i}
  answer        \* "none", "all" or "error"

fetchVars == <<acquired, failure, answer>>

Init == acquired = {} /\ failure = {} /\ answer = "none"

Keep(i) ==
  /\ failure = {} /\ answer = "none"
  /\ i \in Items \ acquired
  /\ acquired' = acquired \cup {i}
  /\ UNCHANGED <<failure, answer>>

Fail(i) ==
  /\ failure = {} /\ answer = "none"
  /\ i \in Items \ acquired
  /\ failure' = {i}
  /\ UNCHANGED <<acquired, answer>>

Answer ==
  /\ answer = "none"
  /\ \/ failure # {} /\ answer' = "error"
     \/ failure = {} /\ acquired = Items /\ answer' = "all"
  /\ UNCHANGED <<acquired, failure>>

Next == (\E i \in Items : Keep(i) \/ Fail(i)) \/ Answer

Spec == Init /\ [][Next]_fetchVars
==============================================================================
