--------------------------- MODULE QualityStarts ----------------------------
(***************************************************************************)
(* aggregateQualityStarts: the game logs of starting pitchers are fetched  *)
(* in batches, a goroutine for each pitcher of the batch; each writes its  *)
(* own outcome and the next batch starts when a WaitGroup says all have    *)
(* returned, by a panic as well. Pitchers that fail are issues, not an     *)
(* error; a pitcher without a quality start is in neither.                 *)
(***************************************************************************)
EXTENDS Integers, Sequences, FiniteSets, Functions

CONSTANTS
  Pitchers,      \* positive person ids
  Invalid,       \* an id that is not positive
  BatchSize,     \* five
  MaxAsked       \* bound: ids asked for, repeated ones included

QualityAssumption ==
  BatchSize \in Nat \ {0} /\ MaxAsked \in Nat /\ Invalid \notin Pitchers

VARIABLES
  asked,         \* the ids as asked for
  unique,        \* without repetitions, in the order of their first
  start,         \* ids that earlier batches were for
  pending,       \* the WaitGroup's counter
  worker,        \* each pitcher of the batch: where its goroutine is
  slot,          \* each pitcher of the batch: its outcome
  answer,        \* what the provider has for a pitcher, decided when it answers
  counts,        \* the result: pitchers with a positive count
  issues,        \* the result: pitchers that failed, in order
  status         \* "collecting", "refused" or "returned"

qualityVars == <<asked, unique, start, pending, worker, slot, answer, counts, issues, status>>

\* A fetch panics, fails, or counts no quality start or some.
Answers == {"panic", "error", "zero", "some"}
Failures == {"panic", "error"}
NoWorkers == [p \in Pitchers |-> "none"]
NoOutcomes == [p \in Pitchers |-> "zero"]

\* What stands at some places of a sequence, in the order of the places.
Picked(seq, places) ==
  LET at == CHOOSE f \in [1..Cardinality(places) -> places] :
              Range(f) = places /\ \A i, j \in DOMAIN f : i < j => f[i] < f[j]
  IN [i \in DOMAIN at |-> seq[at[i]]]

\* The ids, each at its first place only.
Deduplicated(ids) == Picked(ids, {i \in DOMAIN ids : \A j \in 1..i - 1 : ids[j] # ids[i]})

QualityInit ==
  /\ asked \in UNION {[1..n -> Pitchers \union {Invalid}] : n \in 0..MaxAsked}
  /\ unique = Deduplicated(asked)
  /\ start = 0 /\ pending = 0
  /\ worker = NoWorkers /\ slot = NoOutcomes
  /\ answer = NoOutcomes
  /\ counts = {} /\ issues = <<>>
  /\ status = IF Invalid \in Range(unique) THEN "refused" ELSE "collecting"

Batch == SubSeq(unique, start + 1, IF start + BatchSize < Len(unique) THEN start + BatchSize ELSE Len(unique))
Working == {p \in Pitchers : worker[p] # "none"}

----------------------------------------------------------------------------
(* Actions *)

StartBatch ==
  /\ status = "collecting" /\ Working = {} /\ start < Len(unique)
  /\ pending' = Len(Batch)
  /\ worker' = [p \in Pitchers |-> IF p \in Range(Batch) THEN "fetching" ELSE "none"]
  /\ slot' = NoOutcomes
  /\ UNCHANGED <<asked, unique, start, answer, counts, issues, status>>

Answer(p) ==
  /\ worker[p] = "fetching"
  /\ \E a \in Answers : answer' = [answer EXCEPT ![p] = a]
  /\ worker' = [worker EXCEPT ![p] = "answered"]
  /\ UNCHANGED <<asked, unique, start, pending, slot, counts, issues, status>>

\* The WaitGroup is told before the outcome is written.
StoreLate(p) ==
  /\ worker[p] = "answered"
  /\ pending' = pending - 1
  /\ worker' = [worker EXCEPT ![p] = "stored"]
  /\ UNCHANGED <<asked, unique, start, slot, answer, counts, issues, status>>

\* The outcome, or that the goroutine panicked, is in its slot...
Store(p) ==
  /\ worker[p] = "answered"
  /\ slot' = [slot EXCEPT ![p] = answer[p]]
  /\ worker' = [worker EXCEPT ![p] = "stored"]
  /\ UNCHANGED <<asked, unique, start, pending, answer, counts, issues, status>>

\* ...before the deferred Done.
Done(p) ==
  /\ worker[p] = "stored"
  /\ pending' = pending - 1
  /\ worker' = [worker EXCEPT ![p] = "returned"]
  /\ UNCHANGED <<asked, unique, start, slot, answer, counts, issues, status>>

\* Wait returns: the outcomes are read in the order of the batch.
Collect ==
  /\ status = "collecting" /\ Working # {} /\ pending = 0
  /\ counts' = counts \union {p \in Range(Batch) : slot[p] = "some"}
  /\ issues' = issues \o Picked(Batch, {i \in DOMAIN Batch : slot[Batch[i]] \in Failures})
  /\ start' = start + Len(Batch)
  /\ worker' = NoWorkers
  /\ UNCHANGED <<asked, unique, pending, slot, answer, status>>

Return ==
  /\ status = "collecting" /\ Working = {} /\ start = Len(unique)
  /\ status' = "returned"
  /\ UNCHANGED <<asked, unique, start, pending, worker, slot, answer, counts, issues>>

QualityNext ==
  \/ StartBatch \/ Collect \/ Return
  \/ \E p \in Pitchers : Answer(p) \/ Store(p) \/ Done(p)

QualitySpec == QualityInit /\ [][QualityNext]_qualityVars

----------------------------------------------------------------------------
(* Properties *)

QualityTypeOK ==
  /\ start \in 0..Len(unique) /\ pending \in 0..BatchSize
  /\ worker \in [Pitchers -> {"none", "fetching", "answered", "stored", "returned"}]
  /\ slot \in [Pitchers -> Answers] /\ answer \in [Pitchers -> Answers]
  /\ counts \subseteq Pitchers /\ Range(issues) \subseteq Pitchers
  /\ status \in {"collecting", "refused", "returned"}

\* Every answer, and every failure, reaches the result of its own pitcher, exactly once and
\* in the order asked, whatever order the goroutines of a batch finish in or panic.
AnswersAreCollected ==
  status = "returned" =>
    /\ counts = {p \in Range(asked) : answer[p] = "some"}
    /\ Range(issues) = {p \in Range(asked) : answer[p] \in Failures}
    /\ \A i, j \in DOMAIN issues : i < j =>
         \E k \in DOMAIN asked : asked[k] = issues[i] /\ \A l \in 1..k : asked[l] # issues[j]
=============================================================================
