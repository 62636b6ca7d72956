--------------------------- MODULE FetchPoolProofs ---------------------------
(***************************************************************************)
(* What the worker pool guarantees for any number of items and workers:    *)
(* every item that was scheduled is in exactly one place, so the count of  *)
(* the collector is right, no send blocks, and the answer is all items or  *)
(* an error that happened. PoolInv is the inductive invariant.             *)
(***************************************************************************)
EXTENDS FetchPool, SequenceTheorems, FiniteSetTheorems, TLAPS

\* Some goroutine makes a step.
PoolStep == Collector \/ \E w \in Workers : Worker(w)

(***************************************************************************)
(* Channels: what is in one, and what a send and a receive do to it.       *)
(***************************************************************************)
In(s, x) == \E i \in 1..Len(s) : s[i] = x
Distinct(s) == \A i, j \in 1..Len(s) : s[i] = s[j] => i = j

\* An empty channel has nothing in it.
LEMMA InEmpty == \A x : ~In(<<>>, x)
<1>1. Len(<<>>) = 0 BY EmptySeq
<1> QED BY <1>1 DEF In

\* A receive takes the oldest item and leaves the others.
LEMMA Receive ==
  ASSUME NEW S, NEW s \in Seq(S), s # <<>>
  PROVE  /\ Tail(s) \in Seq(S) /\ Head(s) \in S
         /\ Len(s) \in Nat /\ Len(s) > 0 /\ Len(Tail(s)) = Len(s) - 1
         /\ In(s, Head(s))
         /\ \A x : In(Tail(s), x) => In(s, x)
         /\ \A x : In(s, x) => x = Head(s) \/ In(Tail(s), x)
         /\ Distinct(s) => Distinct(Tail(s)) /\ ~In(Tail(s), Head(s))
<1>1. /\ Tail(s) \in Seq(S) /\ Head(s) \in S
      /\ Len(s) \in Nat /\ Len(Tail(s)) = Len(s) - 1
      /\ \A i \in 1..Len(Tail(s)) : Tail(s)[i] = s[i + 1]
  BY HeadTailProperties, LenProperties
<1>2. Len(s) > 0 /\ Head(s) = s[1] BY <1>1, EmptySeq, LenProperties
<1>3. In(s, Head(s)) BY <1>1, <1>2 DEF In
<1>4. \A i \in 1..Len(Tail(s)) : i + 1 \in 1..Len(s) BY <1>1
<1>5. \A x : In(Tail(s), x) => In(s, x) BY <1>1, <1>4 DEF In
<1>6. ASSUME NEW x, In(s, x), x # Head(s) PROVE In(Tail(s), x)
  <2>1. PICK i \in 1..Len(s) : s[i] = x BY <1>6 DEF In
  <2>2. i - 1 \in 1..Len(Tail(s)) /\ (i - 1) + 1 = i
    BY <1>1, <1>2, <1>6, <2>1
  <2>3. Tail(s)[i - 1] = x BY <1>1, <2>1, <2>2
  <2> QED BY <2>2, <2>3 DEF In
<1>7. ASSUME Distinct(s) PROVE Distinct(Tail(s)) /\ ~In(Tail(s), Head(s))
  <2>1. ASSUME NEW i \in 1..Len(Tail(s)), NEW j \in 1..Len(Tail(s)),
               Tail(s)[i] = Tail(s)[j]
        PROVE  i = j
    <3>1. s[i + 1] = s[j + 1] BY <1>1, <2>1
    <3>2. i + 1 = j + 1 BY <1>4, <1>7, <3>1 DEF Distinct
    <3> QED BY <3>2
  <2>2. ASSUME NEW i \in 1..Len(Tail(s)), Tail(s)[i] = Head(s) PROVE FALSE
    <3>1. s[i + 1] = s[1] BY <1>1, <1>2, <2>2
    <3>2. i + 1 = 1 BY <1>1, <1>2, <1>4, <1>7, <3>1 DEF Distinct
    <3> QED BY <1>1, <3>2
  <2> QED BY <2>1, <2>2 DEF Distinct, In
<1> QED BY <1>1, <1>2, <1>3, <1>5, <1>6, <1>7

\* A send adds one item.
LEMMA Deliver ==
  ASSUME NEW S, NEW s \in Seq(S), NEW e \in S
  PROVE  /\ Append(s, e) \in Seq(S)
         /\ Len(s) \in Nat /\ Len(Append(s, e)) = Len(s) + 1
         /\ In(Append(s, e), e)
         /\ \A x : In(s, x) => In(Append(s, e), x)
         /\ \A x : In(Append(s, e), x) => x = e \/ In(s, x)
         /\ Distinct(s) /\ ~In(s, e) => Distinct(Append(s, e))
<1>1. /\ Append(s, e) \in Seq(S)
      /\ Len(s) \in Nat /\ Len(Append(s, e)) = Len(s) + 1
      /\ \A i \in 1..Len(s) : Append(s, e)[i] = s[i]
      /\ Append(s, e)[Len(s) + 1] = e
  BY AppendProperties, LenProperties
<1>2. \A i \in 1..Len(Append(s, e)) : i \in 1..Len(s) \/ i = Len(s) + 1
  BY <1>1
<1>3. /\ \A i \in 1..Len(s) : i \in 1..Len(Append(s, e))
      /\ Len(s) + 1 \in 1..Len(Append(s, e))
  BY <1>1
<1>4. In(Append(s, e), e) /\ \A x : In(s, x) => In(Append(s, e), x)
  BY <1>1, <1>3 DEF In
<1>5. \A x : In(Append(s, e), x) => x = e \/ In(s, x) BY <1>1, <1>2 DEF In
<1>6. Distinct(s) /\ ~In(s, e) => Distinct(Append(s, e))
  BY <1>1, <1>2, <1>3 DEF Distinct, In
<1> QED BY <1>1, <1>4, <1>5, <1>6

(***************************************************************************)
(* The invariant.                                                          *)
(***************************************************************************)

\* What the collector knows at each of its lines.
LinesOK ==
  /\ closed <=> at \in {"waiting", "returned"}
  /\ at = "priming" => outstanding = next - 1 /\ firstErr = None
  /\ at = "refilling" => outstanding = W - 1 /\ next <= N /\ firstErr = None
  /\ at = "collecting" /\ firstErr = None /\ next <= N => outstanding = W
  /\ at \in {"waiting", "returned"} =>
       outstanding = 0 /\ (firstErr = None => next = N + 1)

\* An item that some worker has in hand.
Carried(x) == \E w \in Busy : hand[w] = x

\* An item is in one place at most, and was scheduled to get there.
Apart ==
  /\ Distinct(jobs) /\ Distinct(results)
  /\ \A v, w \in Busy : hand[v] = hand[w] => v = w
  /\ \A w \in Busy : hand[w] \in Items
  /\ \A x : In(jobs, x) => ~Carried(x) /\ ~In(results, x)
  /\ \A x : Carried(x) => ~In(results, x)
  /\ \A x : In(jobs, x) \/ Carried(x) \/ In(results, x) =>
              x < next /\ x \notin kept /\ x # firstErr
  /\ \A x \in kept : x < next

\* Until the first error, every scheduled item is somewhere.
Covered ==
  firstErr = None =>
    \A x \in Items :
      x < next => x \in kept \/ In(jobs, x) \/ Carried(x) \/ In(results, x)

\* Until the first error, an item that failed has yet to be collected.
ErrorsComing ==
  firstErr = None =>
    \A x \in failed :
      In(results, x) \/ \E w \in Workers : stage[w] = "sending" /\ hand[w] = x

FirstErrOK == firstErr # None => firstErr \in failed /\ firstErr \notin kept

\* The workers that carry an item, as a number.
CountOK == IsFiniteSet(Busy) /\ Cardinality(Busy) \in Nat /\ Conservation

PoolInv ==
  TypeOK /\ LinesOK /\ CountOK /\ Apart /\ Covered /\ ErrorsComing /\ FirstErrOK

\* There are workers, and no more than items.
LEMMA WorkersOK == W \in Nat /\ W > 0 /\ W <= N /\ IsFiniteSet(Workers)
<1>1. W \in Nat /\ W > 0 /\ W <= N BY SizesAssumption DEF W
<1>2. W \in Int /\ 1 \in Int BY <1>1
<1>3. IsFiniteSet(1..W) BY <1>2, FS_Interval
<1> QED BY <1>1, <1>3 DEF Workers

\* Nothing is scheduled at the start.
LEMMA InitPool == Init => PoolInv
<1> SUFFICES ASSUME Init PROVE PoolInv OBVIOUS
<1> USE SizesAssumption, WorkersOK DEF Init, None
<1>1. Busy = {} BY DEF Busy
<1>2. TypeOK
  <2>1. <<>> \in Seq(Items) BY EmptySeq
  <2>2. 1 \in 1..N + 1 /\ 0 \in 0..W OBVIOUS
  <2> QED BY <2>1, <2>2 DEF TypeOK
<1>3. LinesOK BY DEF LinesOK
<1>4. Len(<<>>) = 0 BY EmptySeq
<1>5. CountOK BY <1>1, <1>4, FS_EmptySet DEF CountOK, Conservation
<1>6. Apart BY <1>1, <1>4, InEmpty DEF Apart, Distinct, Carried
<1>7. Covered BY DEF Covered, Items
<1>8. ErrorsComing /\ FirstErrOK BY DEF ErrorsComing, FirstErrOK
<1> QED BY <1>2, <1>3, <1>5, <1>6, <1>7, <1>8 DEF PoolInv

\* What is queued or carried is an item.
LEMMA ItemsOnly ==
  ASSUME PoolInv
  PROVE  \A x : In(jobs, x) \/ Carried(x) \/ In(results, x) => x \in Items
<1>1. \A i \in 1..Len(jobs) : jobs[i] \in Items
  BY ElementOfSeq DEF PoolInv, TypeOK
<1>2. \A i \in 1..Len(results) : results[i] \in Items
  BY ElementOfSeq DEF PoolInv, TypeOK
<1> QED BY <1>1, <1>2 DEF In, Carried, PoolInv, Apart

\* The next item is scheduled: it is nowhere yet.
LEMMA ScheduleInv ==
  ASSUME PoolInv, Schedule, next <= N, outstanding < W, firstErr = None,
         UNCHANGED <<kept, firstErr, closed, results, workerVars>>,
         LinesOK', at' \in {"priming", "collecting"}
  PROVE  PoolInv'
<1> USE SizesAssumption, WorkersOK DEF PoolInv, Schedule, workerVars
<1>0. next \in Items /\ jobs \in Seq(Items) /\ outstanding \in 0..W
  BY DEF TypeOK, Items
<1>1. /\ jobs' \in Seq(Items) /\ Len(jobs) \in Nat /\ Len(jobs') = Len(jobs) + 1
      /\ In(jobs', next)
      /\ \A x : In(jobs, x) => In(jobs', x)
      /\ \A x : In(jobs', x) => x = next \/ In(jobs, x)
      /\ Distinct(jobs) /\ ~In(jobs, next) => Distinct(jobs')
  BY <1>0, Deliver
<1>2. Busy' = Busy /\ results' = results /\ hand' = hand BY DEF Busy
<1>3. /\ ~In(jobs, next) /\ ~Carried(next) /\ ~In(results, next)
      /\ next \notin kept /\ next # firstErr
  BY <1>0 DEF Apart, None, Items
<1>4. TypeOK' BY <1>0, <1>1 DEF TypeOK
<1>5. CountOK'
  <2>1. Len(results) \in Nat BY LenProperties DEF TypeOK
  <2> QED BY <1>1, <1>2, <2>1 DEF CountOK, Conservation
<1>7. Apart'
  <2>1. \A x : (\E w \in Busy' : hand'[w] = x) <=> Carried(x) BY <1>2 DEF Carried
  <2>2. \A x : In(jobs', x) => ~Carried(x) /\ ~In(results, x)
    BY <1>1, <1>3 DEF Apart
  <2>3. \A x : x \in kept \/ In(jobs, x) \/ Carried(x) \/ In(results, x) =>
                 x < next'
    <3>1. \A x : x \in kept \/ In(jobs, x) \/ Carried(x) \/ In(results, x) =>
                   x \in Items /\ x < next
      BY ItemsOnly DEF Apart, TypeOK
    <3> QED BY <1>0, <3>1 DEF Items
  <2>4. next < next' BY <1>0 DEF Items
  <2>5. \A x : In(jobs', x) \/ Carried(x) \/ In(results, x) =>
                 x < next' /\ x \notin kept /\ x # firstErr
    BY <1>1, <1>3, <2>3, <2>4 DEF Apart
  <2> QED BY <1>1, <1>2, <1>3, <2>1, <2>2, <2>3, <2>5 DEF Apart, Carried
<1>8. Covered'
  <2>1. \A x \in Items : x < next' => x < next \/ x = next BY <1>0 DEF Items
  <2> QED BY <1>1, <1>2, <2>1 DEF Covered, Carried
<1>9. ErrorsComing' /\ FirstErrOK' BY DEF ErrorsComing, FirstErrOK
<1> QED BY <1>4, <1>5, <1>7, <1>8, <1>9

\* The oldest result is collected: it was nowhere else, and is kept unless it
\* is an error or comes after one.
LEMMA CollectInv == ASSUME PoolInv, Collect PROVE PoolInv'
<1> USE SizesAssumption, WorkersOK DEF PoolInv, Collect, workerVars
<1> DEFINE item == Head(results)
<1>0. /\ results \in Seq(Items) /\ results # <<>>
      /\ outstanding \in 0..W /\ next \in 1..N + 1
  BY DEF TypeOK
<1>1. /\ results' \in Seq(Items) /\ item \in Items
      /\ Len(results) \in Nat /\ Len(results') = Len(results) - 1
      /\ In(results, item)
      /\ \A x : In(results', x) => In(results, x)
      /\ \A x : In(results, x) => x = item \/ In(results', x)
      /\ Distinct(results) => Distinct(results') /\ ~In(results', item)
  BY <1>0, Receive
<1>2. Busy' = Busy /\ jobs' = jobs /\ hand' = hand /\ next' = next BY DEF Busy
<1>3. \/ firstErr # None /\ UNCHANGED <<at, kept, firstErr>>
      \/ /\ firstErr = None /\ item \in failed
         /\ firstErr' = item /\ UNCHANGED <<at, kept>>
      \/ /\ firstErr = None /\ item \notin failed
         /\ kept' = kept \cup {item} /\ UNCHANGED firstErr
         /\ at' = IF next <= N THEN "refilling" ELSE at
  OBVIOUS
<1>4. /\ ~In(jobs, item) /\ ~Carried(item) /\ item # None
      /\ item < next /\ item \notin kept /\ item # firstErr
  BY <1>1 DEF Apart, None, Items
<1> HIDE DEF item
<1>5. TypeOK' BY <1>0, <1>1, <1>3 DEF TypeOK
<1>6. LinesOK' BY <1>0, <1>3, <1>4 DEF LinesOK
<1>7. CountOK'
  <2>1. Len(jobs) \in Nat BY LenProperties DEF TypeOK
  <2> QED BY <1>0, <1>1, <1>2, <2>1 DEF CountOK, Conservation
<1>8. Apart'
  <2>1. \A x : (\E w \in Busy' : hand'[w] = x) <=> Carried(x) BY <1>2 DEF Carried
  <2>2. \A x : In(jobs, x) \/ Carried(x) \/ In(results', x) =>
                 x < next /\ x \notin kept' /\ x # firstErr'
    BY <1>1, <1>3, <1>4 DEF Apart
  <2>3. \A x \in kept' : x < next BY <1>3, <1>4 DEF Apart
  <2> QED BY <1>1, <1>2, <2>1, <2>2, <2>3 DEF Apart, Carried
<1>9. Covered' BY <1>1, <1>2, <1>3, <1>4 DEF Covered, Carried
<1>10. ErrorsComing' BY <1>1, <1>2, <1>3, <1>4 DEF ErrorsComing
<1>11. FirstErrOK' BY <1>3, <1>4 DEF FirstErrOK
<1> QED BY <1>5, <1>6, <1>7, <1>8, <1>9, <1>10, <1>11

\* The other lines of the collector move no item.
LEMMA CollectorLineInv ==
  ASSUME PoolInv, UNCHANGED <<next, outstanding, kept, firstErr, jobs, results>>,
         UNCHANGED workerVars, TypeOK', LinesOK'
  PROVE  PoolInv'
<1> USE DEF PoolInv, workerVars
<1>1. Busy' = Busy BY DEF Busy
<1>2. CountOK' BY <1>1 DEF CountOK, Conservation
<1>3. Apart' BY <1>1 DEF Apart, Carried
<1>4. Covered' BY <1>1 DEF Covered, Carried
<1>5. ErrorsComing' /\ FirstErrOK' BY DEF ErrorsComing, FirstErrOK
<1> QED BY <1>2, <1>3, <1>4, <1>5

\* The collector keeps the invariant.
LEMMA CollectorInv == ASSUME PoolInv, Collector PROVE PoolInv'
<1> USE SizesAssumption, WorkersOK
<1>0. /\ outstanding \in 0..W /\ next \in 1..N + 1
      /\ firstErr = None \/ firstErr # None
  BY DEF PoolInv, TypeOK
<1>1. CASE Prime
  <2>1. LinesOK' BY <1>0, <1>1 DEF Prime, MorePriming, Schedule, PoolInv, LinesOK
  <2> QED BY <1>1, <2>1, ScheduleInv DEF Prime, MorePriming, PoolInv, LinesOK
<1>2. CASE Refill
  <2>1. LinesOK' BY <1>0, <1>2 DEF Refill, Schedule, PoolInv, LinesOK
  <2>2. next <= N /\ outstanding < W /\ firstErr = None
    BY <1>0, <1>2 DEF Refill, PoolInv, LinesOK
  <2> QED BY <1>2, <2>1, <2>2, ScheduleInv DEF Refill
<1>3. CASE Collect BY <1>3, CollectInv
<1>4. CASE EndPriming
  <2>1. TypeOK' BY <1>4 DEF EndPriming, PoolInv, TypeOK, workerVars
  <2>2. LinesOK' BY <1>0, <1>4 DEF EndPriming, MorePriming, PoolInv, LinesOK
  <2> QED BY <1>4, <2>1, <2>2, CollectorLineInv DEF EndPriming
<1>5. CASE CloseJobs
  <2>1. TypeOK' BY <1>5 DEF CloseJobs, PoolInv, TypeOK, workerVars
  <2>2. LinesOK' BY <1>0, <1>5 DEF CloseJobs, PoolInv, LinesOK
  <2> QED BY <1>5, <2>1, <2>2, CollectorLineInv DEF CloseJobs
<1>6. CASE Return
  <2>1. TypeOK' BY <1>6 DEF Return, PoolInv, TypeOK, workerVars
  <2>2. LinesOK' BY <1>0, <1>6 DEF Return, PoolInv, LinesOK
  <2> QED BY <1>6, <2>1, <2>2, CollectorLineInv DEF Return
<1> QED BY <1>1, <1>2, <1>3, <1>4, <1>5, <1>6 DEF Collector

\* A worker takes the oldest job: it goes from the channel into its hand.
LEMMA TakeInv == ASSUME PoolInv, NEW w \in Workers, Take(w) PROVE PoolInv'
<1> USE SizesAssumption, WorkersOK DEF PoolInv, Take, collectorVars
<1> DEFINE item == Head(jobs)
<1>1. /\ jobs' \in Seq(Items) /\ item \in Items
      /\ Len(jobs) \in Nat /\ Len(jobs') = Len(jobs) - 1
      /\ In(jobs, item)
      /\ \A x : In(jobs', x) => In(jobs, x)
      /\ \A x : In(jobs, x) => x = item \/ In(jobs', x)
      /\ Distinct(jobs) => Distinct(jobs') /\ ~In(jobs', item)
  <2>1. jobs \in Seq(Items) /\ jobs # <<>> BY DEF TypeOK
  <2> QED BY <2>1, Receive
<1>2. /\ stage' = [stage EXCEPT ![w] = "fetching"]
      /\ hand' = [hand EXCEPT ![w] = item]
      /\ UNCHANGED <<at, next, outstanding, kept, firstErr, closed, results, failed>>
      /\ stage[w] = "idle"
  OBVIOUS
<1> HIDE DEF item
<1>3. TypeOK' BY <1>1, <1>2 DEF TypeOK
<1>4. w \notin Busy /\ Busy' = Busy \cup {w} BY <1>2 DEF Busy, TypeOK
<1>5. /\ hand'[w] = item
      /\ \A v \in Busy : hand'[v] = hand[v]
  BY <1>2, <1>4 DEF TypeOK, Busy
<1>6. CountOK'
  <2>1. IsFiniteSet(Busy') /\ Cardinality(Busy') = Cardinality(Busy) + 1
    BY <1>4, FS_AddElement DEF CountOK
  <2>2. Len(results) \in Nat BY LenProperties DEF TypeOK
  <2> QED BY <1>1, <1>2, <2>1, <2>2 DEF CountOK, Conservation
<1>7. /\ ~Carried(item) /\ ~In(results, item)
      /\ item < next /\ item \notin kept /\ item # firstErr
  BY <1>1 DEF Apart
<1>8. \A x : (\E v \in Busy' : hand'[v] = x) <=> Carried(x) \/ x = item
  BY <1>4, <1>5 DEF Carried
<1>9. Apart'
  <2>1. \A u, v \in Busy' : hand'[u] = hand'[v] => u = v
    BY <1>4, <1>5, <1>7 DEF Apart, Carried
  <2>2. \A v \in Busy' : hand'[v] \in Items BY <1>1, <1>4, <1>5 DEF Apart
  <2>3. \A x : In(jobs', x) => ~Carried(x) /\ x # item /\ ~In(results', x)
    BY <1>1, <1>2 DEF Apart
  <2>4. \A x : Carried(x) \/ x = item => ~In(results', x)
    BY <1>2, <1>7 DEF Apart
  <2>5. \A x : In(jobs', x) \/ Carried(x) \/ x = item \/ In(results', x) =>
                 x < next' /\ x \notin kept' /\ x # firstErr'
    BY <1>1, <1>2, <1>7 DEF Apart
  <2>6. Distinct(jobs') /\ Distinct(results') /\ \A x \in kept' : x < next'
    BY <1>1, <1>2 DEF Apart
  <2> HIDE DEF PoolInv, Take
  <2> QED BY <1>8, <2>1, <2>2, <2>3, <2>4, <2>5, <2>6 DEF Apart, Carried
<1>10. Covered' BY <1>1, <1>2, <1>8 DEF Covered, Carried
<1>11. ErrorsComing'
  <2>1. \A v \in Workers : stage[v] = "sending" =>
               stage'[v] = "sending" /\ hand'[v] = hand[v]
    BY <1>2 DEF TypeOK
  <2> QED BY <1>2, <2>1 DEF ErrorsComing
<1>12. LinesOK' BY <1>2 DEF LinesOK
<1>13. FirstErrOK' BY <1>2 DEF FirstErrOK
<1> QED BY <1>3, <1>6, <1>9, <1>10, <1>11, <1>12, <1>13

\* A fetch fails or not; the item stays in hand.
LEMMA FetchInv == ASSUME PoolInv, NEW w \in Workers, Fetch(w) PROVE PoolInv'
<1> USE SizesAssumption, WorkersOK DEF PoolInv
<1>1. /\ stage[w] = "fetching" /\ stage' = [stage EXCEPT ![w] = "sending"]
      /\ failed' \in {failed, failed \cup {hand[w]}}
      /\ UNCHANGED <<at, next, outstanding, kept, firstErr, closed, jobs, results, hand>>
  BY DEF Fetch, collectorVars
<1>2. w \in Busy /\ Busy' = Busy BY <1>1 DEF Busy, TypeOK
<1>3. hand[w] \in Items BY <1>2 DEF Apart
<1>4. TypeOK' BY <1>1, <1>3 DEF TypeOK
<1>5. CountOK' BY <1>1, <1>2 DEF CountOK, Conservation
<1>6. Apart' BY <1>1, <1>2 DEF Apart, Carried
<1>7. Covered' BY <1>1, <1>2 DEF Covered, Carried
<1>8. ErrorsComing' BY <1>1 DEF ErrorsComing, TypeOK
<1>9. LinesOK' /\ FirstErrOK' BY <1>1 DEF LinesOK, FirstErrOK
<1> QED BY <1>4, <1>5, <1>6, <1>7, <1>8, <1>9

\* A worker delivers: the item goes from its hand into the channel.
LEMMA SendInv == ASSUME PoolInv, NEW w \in Workers, Send(w) PROVE PoolInv'
<1> USE SizesAssumption, WorkersOK DEF PoolInv
<1> DEFINE item == hand[w]
<1>1. /\ stage[w] = "sending" /\ stage' = [stage EXCEPT ![w] = "idle"]
      /\ results' = Append(results, item) /\ hand' = [hand EXCEPT ![w] = None]
      /\ UNCHANGED <<at, next, outstanding, kept, firstErr, closed, jobs, failed>>
  BY DEF Send, collectorVars
<1>2. w \in Busy /\ Busy' = Busy \ {w} BY <1>1 DEF Busy, TypeOK
<1>3. item \in Items BY <1>2 DEF Apart
<1>4. /\ results' \in Seq(Items)
      /\ Len(results) \in Nat /\ Len(results') = Len(results) + 1
      /\ In(results', item)
      /\ \A x : In(results, x) => In(results', x)
      /\ \A x : In(results', x) => x = item \/ In(results, x)
      /\ Distinct(results) /\ ~In(results, item) => Distinct(results')
  <2>1. results \in Seq(Items) BY DEF TypeOK
  <2> QED BY <1>1, <1>3, <2>1, Deliver
<1>5. TypeOK' BY <1>1, <1>4 DEF TypeOK
<1>6. CountOK'
  <2>1. IsFiniteSet(Busy') /\ Cardinality(Busy') = Cardinality(Busy) - 1
    BY <1>2, FS_RemoveElement DEF CountOK
  <2>2. Cardinality(Busy') \in Nat BY <2>1, FS_CardinalityType
  <2>3. Len(jobs) \in Nat BY LenProperties DEF TypeOK
  <2>4. outstanding' = Len(jobs') + Cardinality(Busy') + Len(results')
    <3>1. outstanding = Len(jobs) + Cardinality(Busy) + Len(results)
          /\ Cardinality(Busy) \in Nat
      BY DEF CountOK, Conservation
    <3>2. outstanding' = outstanding /\ Len(jobs') = Len(jobs)
          /\ Len(results') = Len(results) + 1 /\ Len(results) \in Nat
      BY <1>1, <1>4
    <3> HIDE DEF PoolInv
    <3> QED BY <2>1, <2>2, <2>3, <3>1, <3>2
  <2> QED BY <2>1, <2>2, <2>4 DEF CountOK, Conservation
<1>7. /\ \A v \in Busy \ {w} : hand'[v] = hand[v] /\ hand[v] # item
      /\ Carried(item) /\ ~In(jobs, item) /\ ~In(results, item)
  BY <1>1, <1>2 DEF Apart, Carried, Busy, TypeOK
<1> HIDE DEF item
<1>8. \A x : (\E v \in Busy' : hand'[v] = x) => Carried(x) /\ x # item
  BY <1>2, <1>7 DEF Carried
<1>9. \A x : Carried(x) => x = item \/ \E v \in Busy' : hand'[v] = x
  BY <1>2, <1>7 DEF Carried, item
<1>10. Apart'
  <2>1. \A u, v \in Busy' : hand'[u] = hand'[v] => u = v
    BY <1>2, <1>7 DEF Apart
  <2>2. \A v \in Busy' : hand'[v] \in Items BY <1>2, <1>7 DEF Apart
  <2> QED BY <1>1, <1>4, <1>7, <1>8, <2>1, <2>2 DEF Apart, Carried
<1>11. Covered' BY <1>1, <1>4, <1>9 DEF Covered, Carried
<1>12. ErrorsComing'
  <2>1. \A v \in Workers \ {w} : stage'[v] = stage[v] /\ hand'[v] = hand[v]
    BY <1>1 DEF TypeOK
  <2> QED BY <1>1, <1>4, <2>1 DEF ErrorsComing, item
<1>13. LinesOK' /\ FirstErrOK' BY <1>1 DEF LinesOK, FirstErrOK
<1> QED BY <1>5, <1>6, <1>10, <1>11, <1>12, <1>13

\* A worker that leaves has nothing in hand.
LEMMA LeaveInv == ASSUME PoolInv, NEW w \in Workers, Leave(w) PROVE PoolInv'
<1> USE SizesAssumption, WorkersOK DEF PoolInv
<1>1. /\ stage[w] = "idle" /\ stage' = [stage EXCEPT ![w] = "gone"]
      /\ UNCHANGED <<at, next, outstanding, kept, firstErr, closed, jobs, results,
                     failed, hand>>
  BY DEF Leave, collectorVars
<1>2. Busy' = Busy BY <1>1 DEF Busy, TypeOK
<1>3. TypeOK' BY <1>1 DEF TypeOK
<1>4. CountOK' BY <1>1, <1>2 DEF CountOK, Conservation
<1>5. Apart' BY <1>1, <1>2 DEF Apart, Carried
<1>6. Covered' BY <1>1, <1>2 DEF Covered, Carried
<1>7. ErrorsComing' BY <1>1 DEF ErrorsComing, TypeOK
<1>8. LinesOK' /\ FirstErrOK' BY <1>1 DEF LinesOK, FirstErrOK
<1> QED BY <1>3, <1>4, <1>5, <1>6, <1>7, <1>8

\* Every step of the pool keeps the invariant.
LEMMA PoolStepInv == ASSUME PoolInv, PoolStep PROVE PoolInv'
BY CollectorInv, TakeInv, FetchInv, SendInv, LeaveInv DEF PoolStep, Worker

\* So does a step of somebody else.
LEMMA PoolStutterInv == ASSUME PoolInv, UNCHANGED vars PROVE PoolInv'
BY DEF vars, PoolInv, TypeOK, LinesOK, CountOK, Conservation, Apart, Carried, Busy,
       Covered, ErrorsComing, FirstErrOK

(***************************************************************************)
(* What follows from it.                                                   *)
(***************************************************************************)

\* No send blocks: the items under way fit into either channel.
LEMMA PoolNeverBlocks == ASSUME PoolInv PROVE NoBlockedSend
<1> USE WorkersOK DEF PoolInv
<1>1. /\ Len(jobs) \in Nat /\ Len(results) \in Nat /\ outstanding \in 0..W
      /\ IsFiniteSet(Busy) /\ Cardinality(Busy) \in Nat
      /\ outstanding = Len(jobs) + Cardinality(Busy) + Len(results)
  BY LenProperties DEF TypeOK, CountOK, Conservation
<1>2. (at = "priming" /\ MorePriming) \/ at = "refilling" => Len(jobs) < W
  BY <1>1 DEF MorePriming, LinesOK
<1>3. ASSUME NEW w \in Workers, stage[w] = "sending" PROVE Len(results) < W
  <2>1. Busy # {} BY <1>3 DEF Busy
  <2>2. Cardinality(Busy) # 0 BY <1>1, <2>1, FS_EmptySet
  <2> QED BY <1>1, <2>2
<1> QED BY <1>2, <1>3 DEF NoBlockedSend

\* When the collector waits for nothing more, nothing is under way.
LEMMA PoolIsEmpty ==
  ASSUME PoolInv, outstanding = 0 PROVE Busy = {} /\ jobs = <<>> /\ results = <<>>
<1> USE DEF PoolInv
<1>1. /\ Len(jobs) \in Nat /\ Len(results) \in Nat
      /\ IsFiniteSet(Busy) /\ Cardinality(Busy) \in Nat
      /\ outstanding = Len(jobs) + Cardinality(Busy) + Len(results)
  BY LenProperties DEF TypeOK, CountOK, Conservation
<1>2. Len(jobs) = 0 /\ Len(results) = 0 /\ Cardinality(Busy) = 0 BY <1>1
<1> QED BY <1>1, <1>2, EmptySeq, FS_EmptySet DEF TypeOK

\* The answer is every item or an error that happened.
LEMMA PoolAnswers == ASSUME PoolInv PROVE CompleteOrError
<1> SUFFICES ASSUME at = "returned"
             PROVE  /\ firstErr = None => kept = Items /\ failed = {}
                    /\ firstErr # None => firstErr \in failed /\ firstErr \notin kept
                    /\ Busy = {} /\ jobs = <<>> /\ results = <<>>
  BY DEF CompleteOrError
<1>1. Busy = {} /\ jobs = <<>> /\ results = <<>>
  BY PoolIsEmpty DEF PoolInv, LinesOK
<1>2. \A x : ~In(jobs, x) /\ ~In(results, x) /\ ~Carried(x)
  BY <1>1, InEmpty DEF Carried
<1>3. ASSUME firstErr = None PROVE kept = Items /\ failed = {}
  <2>1. next = N + 1 BY <1>3 DEF PoolInv, LinesOK
  <2>2. \A x \in Items : x < next BY <2>1, SizesAssumption DEF Items
  <2>3. Items \subseteq kept BY <1>2, <1>3, <2>2 DEF PoolInv, Covered
  <2>4. failed = {} BY <1>1, <1>2, <1>3 DEF PoolInv, ErrorsComing, Busy
  <2> QED BY <2>3, <2>4 DEF PoolInv, TypeOK
<1> QED BY <1>1, <1>3 DEF PoolInv, FirstErrOK

(***************************************************************************)
(* Refinement of ParallelFetch.                                            *)
(***************************************************************************)

\* Nothing is kept, and there is no answer, at the start.
LEMMA PoolInitRefines == Init => Abstract!Init
BY DEF Init, Abstract!Init, Answer

\* A step that neither keeps, fails nor answers is a stutter.
LEMMA PoolQuietStep ==
  ASSUME UNCHANGED <<kept, firstErr>>, at' # "returned", at # "returned"
  PROVE  UNCHANGED Abstract!fetchVars
BY DEF Abstract!fetchVars, Answer

\* A result is a Keep, an error a Fail, what comes after it a stutter.
LEMMA CollectRefines ==
  ASSUME PoolInv, Collect
  PROVE  (\E i \in Items : Abstract!Keep(i) \/ Abstract!Fail(i))
         \/ UNCHANGED Abstract!fetchVars
<1> DEFINE item == Head(results)
<1>1. results \in Seq(Items) /\ results # <<>>
  BY DEF PoolInv, TypeOK, Collect
<1>2. item \in Items /\ In(results, item) BY <1>1, Receive
<1>3. item \notin kept /\ item # None
  BY <1>2, SizesAssumption DEF PoolInv, Apart, Items, None
<1>4. at = "collecting" /\ at' \in {"collecting", "refilling"} BY DEF Collect
<1>5. Answer = "none" /\ Answer' = "none" BY <1>4 DEF Answer
<1>6. CASE firstErr # None
  BY <1>4, <1>6, PoolQuietStep DEF Collect
<1>7. CASE firstErr = None /\ item \in failed
  <2>1. firstErr' = item /\ UNCHANGED kept BY <1>7 DEF Collect
  <2>2. Abstract!Fail(item)
    BY <1>2, <1>3, <1>5, <1>7, <2>1 DEF Abstract!Fail
  <2> QED BY <1>2, <2>2
<1>8. CASE firstErr = None /\ item \notin failed
  <2>1. kept' = kept \cup {item} /\ UNCHANGED firstErr BY <1>8 DEF Collect
  <2>2. Abstract!Keep(item)
    BY <1>2, <1>3, <1>5, <1>8, <2>1 DEF Abstract!Keep
  <2> QED BY <1>2, <2>2
<1> QED BY <1>6, <1>7, <1>8

\* The return is the answer: all items are kept, or an error has happened.
LEMMA ReturnRefines ==
  ASSUME PoolInv, Return PROVE Abstract!Answer
<1>1. at = "waiting" /\ at' = "returned" /\ UNCHANGED <<kept, firstErr>>
  BY DEF Return
<1>2. firstErr = None => kept = Items
  <2>1. ASSUME firstErr = None PROVE kept = Items
    <3>1. outstanding = 0 /\ next = N + 1
      BY <1>1, <2>1 DEF PoolInv, LinesOK
    <3>2. \A x : ~In(jobs, x) /\ ~In(results, x) /\ ~Carried(x)
      BY <3>1, PoolIsEmpty, InEmpty DEF Carried
    <3>3. \A x \in Items : x < next BY <3>1, SizesAssumption DEF Items
    <3> QED BY <2>1, <3>2, <3>3 DEF PoolInv, Covered, TypeOK
  <2> QED BY <2>1
<1>3. CASE firstErr = None BY <1>1, <1>2, <1>3 DEF Abstract!Answer, Answer
<1>4. CASE firstErr # None BY <1>1, <1>4 DEF Abstract!Answer, Answer
<1> QED BY <1>3, <1>4

\* Every step of the pool is a step of ParallelFetch.
LEMMA PoolStepRefines ==
  ASSUME PoolInv, PoolStep PROVE [Abstract!Next]_(Abstract!fetchVars)
<1>1. CASE Collect BY <1>1, CollectRefines DEF Abstract!Next
<1>2. CASE Return BY <1>2, ReturnRefines DEF Abstract!Next
<1>3. CASE Prime \/ EndPriming \/ Refill \/ CloseJobs
  <2>1. /\ UNCHANGED <<kept, firstErr>>
        /\ at \in {"priming", "refilling", "collecting"} /\ at' # "returned"
    BY <1>3 DEF Prime, EndPriming, Refill, CloseJobs
  <2> QED BY <2>1, PoolQuietStep
<1>4. CASE \E w \in Workers : Worker(w)
  <2>1. UNCHANGED <<at, kept, firstErr>>
    BY <1>4 DEF Worker, Take, Fetch, Send, Leave, collectorVars
  <2> QED BY <2>1 DEF Abstract!fetchVars, Answer
<1> QED BY <1>1, <1>2, <1>3, <1>4 DEF PoolStep, Collector

\* So is, as a stutter, a step of somebody else.
LEMMA PoolStutterRefines ==
  ASSUME UNCHANGED vars PROVE UNCHANGED Abstract!fetchVars
BY DEF vars, Abstract!fetchVars, Answer

\* The pool on its own keeps the promise of ParallelFetch, and so does each of
\* its uses whose steps are steps of the pool.
THEOREM PoolRefinement == Spec => ImplementsParallelFetch
<1>1. PoolInv /\ [Next]_vars => PoolInv' /\ [Abstract!Next]_(Abstract!fetchVars)
  BY PoolStepInv, PoolStutterInv, PoolStepRefines, PoolStutterRefines
  DEF Next, PoolStep, Done
<1> QED
  BY <1>1, InitPool, PoolInitRefines, PTL
  DEF Spec, ImplementsParallelFetch, Abstract!Spec
==============================================================================
