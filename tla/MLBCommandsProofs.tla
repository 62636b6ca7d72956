-------------------------- MODULE MLBCommandsProofs --------------------------
(***************************************************************************)
(* What t, tt and sp guarantee however many of them run beside the         *)
(* synchronization, for any clubs, dates and times to live: what they load *)
(* unflagged is young, a failed fetch leaves the last payload, and what    *)
(* they record is what they did.                                           *)
(***************************************************************************)
EXTENDS MLBCommands, SequenceTheorems, TLAPS

Lines == {"idle", "read", "fetch", "save", "mark", "loaded", "replace", "reread",
          "shown", "start", "complete", "done", "dead"}
\* A command has an item in hand.
Loading == {"read", "fetch", "save", "mark", "loaded", "replace", "reread"}

\* The item that a command in state c loads, and its whole plan.
PlanOf(c) == Plan(c.kind, c.clubs)
ItemOf(c) == PlanOf(c)[c.at]

\* A command in state c at time t.
CommandOK(c, t) ==
  /\ c \in CommandState
  /\ c.pc \in Loading => c.at \in 1..Len(PlanOf(c))
  /\ c.pc = "idle" => c.at = 1
  /\ c.started <= t
  /\ c.pc = "save" => c.got \in {t, Empty}
  /\ c.pc \in {"loaded", "replace"} => c.got \in Payload
  /\ c.pc = "mark" => c.prev \in Payload
  /\ c.pc \in {"start", "complete"} => c.refreshed

\* What it has loaded unflagged is young.
Young(c) ==
  c.pc = "loaded" /\ ~c.stale /\ c.got # Empty =>
    c.got > c.started - (IF c.force THEN 1 ELSE TTL[ItemOf(c).dataset])

\* Its record is complete when it is through, and only then.
RecordOK(c, r) ==
  /\ r = "complete" => c.pc = "done" /\ c.refreshed
  /\ c.pc = "done" /\ c.result = "ok" /\ c.refreshed => r = "complete"
  /\ c.pc # "done" => c.result = "none"

\* A snapshot is of the time it was saved at.
SnapshotOK(s) == s # None => s \in Snapshot /\ s.payload \in {s.at, Empty}

MLBInv ==
  /\ clock \in 1..MaxTime
  /\ snap \in [Items -> {None} \union Snapshot]
  /\ \A i \in Items : SnapshotOK(snap[i])
  /\ roster \in [ClubSet -> Payload]
  /\ run \in [Commands -> {"none", "running", "complete"}]
  /\ cmd \in [Commands -> CommandState]
  /\ \A p \in Commands :
       CommandOK(cmd[p], clock) /\ Young(cmd[p]) /\ RecordOK(cmd[p], run[p])

(***************************************************************************)
(* Plans.                                                                  *)
(***************************************************************************)

\* Every plan is a sequence of items, and not an empty one.
LEMMA PlansAreItems ==
  ASSUME NEW kind, NEW clubs \in Selections
  PROVE  Plan(kind, clubs) \in Seq(Items) /\ Len(Plan(kind, clubs)) >= 1
<1> USE MLBAssumption
<1>1. /\ \A d \in Datasets \ {"roster", "futureOdds"} : Item(d, Today) \in Items
      /\ \A c \in ClubSet : Item("roster", c) \in Items
      /\ \A i \in DOMAIN FutureDates : Item("futureOdds", FutureDates[i]) \in Items
  BY DEF Items
<1>2. clubs \in Seq(ClubSet)
  <2>1. CASE clubs = Clubs BY <2>1
  <2>2. ASSUME NEW c \in ClubSet PROVE <<c>> \in Seq(ClubSet) OBVIOUS
  <2> QED BY <2>1, <2>2 DEF Selections
<1>3. [i \in DOMAIN clubs |-> Item("roster", clubs[i])] \in Seq(Items)
  <2>1. /\ Len(clubs) \in Nat /\ DOMAIN clubs = 1..Len(clubs)
        /\ \A i \in 1..Len(clubs) : clubs[i] \in ClubSet
    BY <1>2, LenProperties, ElementOfSeq
  <2> QED BY <1>1, <2>1
<1>4. [i \in DOMAIN FutureDates |-> Item("futureOdds", FutureDates[i])] \in Seq(Items)
  <2>1. Len(FutureDates) \in Nat /\ DOMAIN FutureDates = 1..Len(FutureDates)
    BY LenProperties
  <2> QED BY <1>1, <2>1
<1>5. /\ <<Item("directory", Today), Item("records", Today)>> \in Seq(Items)
      /\ <<Item("directory", Today), Item("totals", Today)>> \in Seq(Items)
      /\ <<Item("directory", Today), Item("currentOdds", Today)>> \in Seq(Items)
      /\ <<Item("slate", Today)>> \in Seq(Items)
  <2>1. \A d \in {"directory", "records", "totals", "currentOdds", "slate"} :
          Item(d, Today) \in Items
    BY <1>1 DEF Datasets
  <2>2. \A x, y \in Items : <<x, y>> \in Seq(Items) /\ <<x>> \in Seq(Items) OBVIOUS
  <2> QED BY <2>1, <2>2
<1>6. TeamsPlan(clubs) \in Seq(Items) /\ Len(TeamsPlan(clubs)) >= 1
  <2>1. \A s, r \in Seq(Items) :
          /\ s \o r \in Seq(Items)
          /\ Len(s) \in Nat /\ Len(r) \in Nat /\ Len(s \o r) = Len(s) + Len(r)
    BY ConcatProperties, LenProperties
  <2> QED BY <1>3, <1>5, <2>1 DEF TeamsPlan
<1>7. ProbablesPlan \in Seq(Items) /\ Len(ProbablesPlan) >= 1
  <2>1. \A s, r \in Seq(Items) :
          /\ s \o r \in Seq(Items)
          /\ Len(s) \in Nat /\ Len(r) \in Nat /\ Len(s \o r) = Len(s) + Len(r)
    BY ConcatProperties, LenProperties
  <2> QED BY <1>4, <1>5, <2>1 DEF ProbablesPlan
<1> QED BY <1>5, <1>6, <1>7 DEF Plan, TotalsPlan

\* A command that loads has an item in hand.
LEMMA LoadsItem ==
  ASSUME NEW c \in CommandState, c.at \in 1..Len(PlanOf(c))
  PROVE  /\ ItemOf(c) \in Items /\ TTL[ItemOf(c).dataset] \in Nat \ {0}
         /\ Len(PlanOf(c)) \in Nat
<1>1. PlanOf(c) \in Seq(Items) BY PlansAreItems DEF CommandState, PlanOf
<1>2. ItemOf(c) \in Items /\ Len(PlanOf(c)) \in Nat
  BY <1>1, ElementOfSeq, LenProperties DEF ItemOf
<1>3. \A i \in Items : i.dataset \in Datasets
  BY DEF Items, Item, Datasets
<1> QED BY <1>2, <1>3, MLBAssumption

(***************************************************************************)
(* What becomes of a command's state.                                      *)
(***************************************************************************)
Changed(c, change) ==
  [f \in DOMAIN c |-> IF f \in DOMAIN change THEN change[f] ELSE c[f]]

\* A command that has just been asked for nothing.
LEMMA NotBegunOK == NotBegun \in CommandState
BY MLBAssumption DEF NotBegun, CommandState, Selections

\* All that a step leaves to a command in state c at time t, with record r.
StateOK(c, r, t) == CommandOK(c, t) /\ Young(c) /\ RecordOK(c, r)

\* Another line, for the same item or none.
LEMMA LineOK ==
  ASSUME NEW t \in Nat, NEW r, NEW c, StateOK(c, r, t), c.pc # "done",
         NEW to \in Lines \ {"done", "save", "loaded", "idle", "dead"},
         to \in Loading => c.pc \in Loading,
         to = "replace" => c.pc = "loaded",
         to = "mark" => c.prev \in Payload,
         to \in {"start", "complete"} => c.refreshed
  PROVE  StateOK(Changed(c, [pc |-> to]), r, t) /\ Changed(c, [pc |-> to]).refreshed = c.refreshed
<1> DEFINE s == Changed(c, [pc |-> to])
<1>1. c \in CommandState BY DEF StateOK, CommandOK
<1>2. s = [c EXCEPT !.pc = to] BY <1>1 DEF CommandState, Changed
<1>3. /\ s \in CommandState /\ s.pc = to /\ s.kind = c.kind /\ s.clubs = c.clubs
      /\ s.at = c.at /\ s.got = c.got /\ s.prev = c.prev /\ s.started = c.started
      /\ s.refreshed = c.refreshed /\ s.result = c.result
  BY <1>1, <1>2 DEF CommandState, Lines
<1> HIDE DEF s
<1>4. PlanOf(s) = PlanOf(c) BY <1>3 DEF PlanOf
<1>5. CommandOK(s, t) BY <1>3, <1>4 DEF StateOK, CommandOK
<1>6. Young(s) BY <1>3 DEF Young
<1>7. RecordOK(s, r) BY <1>3 DEF StateOK, RecordOK
<1> QED BY <1>3, <1>5, <1>6, <1>7 DEF StateOK, s

\* The previous payload is remembered, if there was one, and the fetch begins.
LEMMA FetchOK ==
  ASSUME NEW t \in Nat, NEW r, NEW c, StateOK(c, r, t), c.pc = "read",
         NEW prev \in {None} \union Payload
  PROVE  StateOK(Changed(c, [prev |-> prev, pc |-> "fetch"]), r, t)
<1> DEFINE s == Changed(c, [prev |-> prev, pc |-> "fetch"])
<1>1. c \in CommandState BY DEF StateOK, CommandOK
<1>2. /\ s \in CommandState /\ s.pc = "fetch" /\ s.kind = c.kind /\ s.clubs = c.clubs
      /\ s.at = c.at /\ s.started = c.started /\ s.result = c.result
  BY <1>1 DEF CommandState, Changed
<1> HIDE DEF s
<1>3. CommandOK(s, t) BY <1>2 DEF StateOK, CommandOK, PlanOf, Loading
<1>4. Young(s) BY <1>2 DEF Young
<1>5. RecordOK(s, r) BY <1>2 DEF StateOK, RecordOK
<1> QED BY <1>3, <1>4, <1>5 DEF StateOK, s

\* An answer is in, of now or an empty list.
LEMMA AnswerOK ==
  ASSUME NEW t \in 1..MaxTime, NEW r, NEW c, StateOK(c, r, t), c.pc = "fetch",
         NEW a \in {t, Empty}
  PROVE  StateOK(Changed(c, [got |-> a, pc |-> "save"]), r, t)
<1> DEFINE s == Changed(c, [got |-> a, pc |-> "save"])
<1>1. c \in CommandState BY DEF StateOK, CommandOK
<1>1a. a \in Payload BY MLBAssumption DEF Payload, Empty
<1>2. /\ s \in CommandState /\ s.pc = "save" /\ s.kind = c.kind /\ s.clubs = c.clubs
      /\ s.at = c.at /\ s.started = c.started /\ s.result = c.result /\ s.got = a
  BY <1>1, <1>1a DEF CommandState, Changed
<1> HIDE DEF s
<1>3. CommandOK(s, t) BY <1>2 DEF StateOK, CommandOK, PlanOf, Loading
<1>4. Young(s) BY <1>2 DEF Young
<1>5. RecordOK(s, r) BY <1>2 DEF StateOK, RecordOK
<1> QED BY <1>3, <1>4, <1>5 DEF StateOK, s

\* A command begins with the first item of its plan.
LEMMA BeginOK ==
  ASSUME NEW t \in 1..MaxTime, NEW r, NEW c, StateOK(c, r, t), c.pc = "idle",
         NEW kind \in {"t", "tt", "sp"}, NEW force \in BOOLEAN,
         NEW clubs \in Selections
  PROVE  StateOK(Changed(c, [pc |-> "read", kind |-> kind, force |-> force,
                             clubs |-> clubs, started |-> t]), r, t)
<1> DEFINE change == [pc |-> "read", kind |-> kind, force |-> force,
                      clubs |-> clubs, started |-> t]
           s == Changed(c, change)
<1>1. c \in CommandState /\ c.at = 1 BY DEF StateOK, CommandOK
<1>2. s = [kind |-> kind, force |-> force, clubs |-> clubs, at |-> c.at, pc |-> "read",
           prev |-> c.prev, got |-> c.got, stale |-> c.stale, groups |-> c.groups,
           refreshed |-> c.refreshed, started |-> t, result |-> c.result]
  <2>1. DOMAIN c = {"kind", "force", "clubs", "at", "pc", "prev", "got", "stale",
                    "groups", "refreshed", "started", "result"}
    BY <1>1 DEF CommandState
  <2>2. DOMAIN change = {"pc", "kind", "force", "clubs", "started"} OBVIOUS
  <2>3. /\ change["pc"] = "read" /\ change["kind"] = kind /\ change["force"] = force
        /\ change["clubs"] = clubs /\ change["started"] = t
    OBVIOUS
  <2> HIDE DEF change
  <2>4. s = [f \in DOMAIN c |-> IF f \in DOMAIN change THEN change[f] ELSE c[f]]
    BY DEF s, Changed
  <2> QED BY <2>1, <2>2, <2>3, <2>4
<1>3. /\ s \in CommandState /\ s.pc = "read" /\ s.kind = kind /\ s.clubs = clubs
      /\ s.at = 1 /\ s.started = t /\ s.result = c.result
  BY <1>1, <1>2 DEF CommandState
<1> HIDE DEF s
<1>4. Len(PlanOf(s)) \in Nat /\ Len(PlanOf(s)) >= 1
  BY <1>3, PlansAreItems, LenProperties DEF PlanOf
<1>5. CommandOK(s, t) BY <1>3, <1>4 DEF CommandOK
<1>6. Young(s) BY <1>3 DEF Young
<1>7. RecordOK(s, r) BY <1>3 DEF StateOK, RecordOK
<1> QED BY <1>5, <1>6, <1>7 DEF StateOK, s

\* The next item, or the end of the plan.
ProceedChange(c, shows) ==
  [at |-> c.at + 1, groups |-> c.groups \/ shows,
   prev |-> None, got |-> None, stale |-> FALSE,
   pc |-> IF c.at = Len(Plan(c.kind, c.clubs)) THEN "shown" ELSE "read"]

\* Going to the next item keeps what was shown.
LEMMA ProceedOK ==
  ASSUME NEW t \in Nat, NEW r, NEW c, StateOK(c, r, t), c.pc \in Loading,
         NEW shows \in BOOLEAN
  PROVE  StateOK(Changed(c, ProceedChange(c, shows)), r, t)
<1> DEFINE s == Changed(c, ProceedChange(c, shows))
           groups == c.groups \/ shows
           to == IF c.at = Len(PlanOf(c)) THEN "shown" ELSE "read"
<1>1. c \in CommandState /\ c.at \in 1..Len(PlanOf(c)) /\ Len(PlanOf(c)) \in Nat
  BY LoadsItem DEF StateOK, CommandOK
<1>2. groups \in BOOLEAN /\ to \in {"shown", "read"} OBVIOUS
<1>3. ProceedChange(c, shows) =
        [at |-> c.at + 1, groups |-> groups, prev |-> None, got |-> None,
         stale |-> FALSE, pc |-> to]
  BY DEF ProceedChange, PlanOf
<1>3a. to = "read" => c.at + 1 \in 1..Len(PlanOf(c)) BY <1>1
<1>3b. c.at + 1 \in Nat BY <1>1
<1> HIDE DEF groups, to
<1>4. /\ s \in CommandState /\ s.pc = to /\ s.kind = c.kind /\ s.clubs = c.clubs
      /\ s.at = c.at + 1 /\ s.started = c.started
      /\ s.refreshed = c.refreshed /\ s.result = c.result
  <2> DEFINE change == ProceedChange(c, shows)
  <2>1. DOMAIN c = {"kind", "force", "clubs", "at", "pc", "prev", "got", "stale",
                    "groups", "refreshed", "started", "result"}
    BY <1>1 DEF CommandState
  <2>2. DOMAIN change = {"at", "groups", "prev", "got", "stale", "pc"}
    BY <1>3
  <2>3. /\ change["at"] = c.at + 1 /\ change["groups"] = groups /\ change["pc"] = to
        /\ change["prev"] = None /\ change["got"] = None /\ change["stale"] = FALSE
    BY <1>3
  <2> HIDE DEF change
  <2>4. s = [f \in DOMAIN c |-> IF f \in DOMAIN change THEN change[f] ELSE c[f]]
    BY DEF s, Changed, change
  <2>5. s = [kind |-> c.kind, force |-> c.force, clubs |-> c.clubs, at |-> c.at + 1,
             pc |-> to, prev |-> None, got |-> None, stale |-> FALSE,
             groups |-> groups, refreshed |-> c.refreshed, started |-> c.started,
             result |-> c.result]
    BY <2>1, <2>2, <2>3, <2>4
  <2> QED BY <1>1, <1>2, <1>3b, <2>5 DEF CommandState
<1> HIDE DEF s
<1>5. PlanOf(s) = PlanOf(c) BY <1>4 DEF PlanOf
<1>6. CommandOK(s, t)
  BY <1>2, <1>3a, <1>4, <1>5 DEF StateOK, CommandOK, Loading
<1>7. Young(s) BY <1>2, <1>4 DEF Young
<1>8. RecordOK(s, r)
  BY <1>2, <1>4 DEF StateOK, RecordOK, Loading
<1> QED BY <1>6, <1>7, <1>8 DEF StateOK, s

\* An item has been loaded: from a fresh or a stale snapshot, or by a fetch.
DeliverChange(payload, stale, refreshed) ==
  [got |-> payload, stale |-> stale, prev |-> None, refreshed |-> refreshed,
   pc |-> "loaded"]

\* An item without a mark is young enough for what was asked.
LEMMA DeliverOK ==
  ASSUME NEW t \in Nat, NEW r, NEW c, StateOK(c, r, t), c.pc \in Loading,
         NEW payload \in Payload, NEW stale \in BOOLEAN, NEW refreshed \in BOOLEAN,
         ~stale /\ payload # Empty =>
           payload > c.started - (IF c.force THEN 1 ELSE TTL[ItemOf(c).dataset])
  PROVE  StateOK(Changed(c, DeliverChange(payload, stale, refreshed)), r, t)
<1> DEFINE s == Changed(c, DeliverChange(payload, stale, refreshed))
<1>1. c \in CommandState BY DEF StateOK, CommandOK
<1>2. /\ s \in CommandState /\ s.pc = "loaded" /\ s.kind = c.kind /\ s.clubs = c.clubs
      /\ s.at = c.at /\ s.started = c.started /\ s.got = payload /\ s.stale = stale
      /\ s.force = c.force /\ s.result = c.result
  BY <1>1 DEF CommandState, Changed, DeliverChange
<1> HIDE DEF s
<1>3. PlanOf(s) = PlanOf(c) /\ ItemOf(s) = ItemOf(c) BY <1>2 DEF PlanOf, ItemOf
<1>4. CommandOK(s, t) BY <1>2, <1>3 DEF StateOK, CommandOK
<1>5. Young(s) BY <1>2, <1>3 DEF Young
<1>6. RecordOK(s, r) BY <1>2 DEF StateOK, RecordOK, Loading
<1> QED BY <1>4, <1>5, <1>6 DEF StateOK, s

\* A command ends.
Ending(c, result) ==
  [NotBegun EXCEPT !.pc = "done", !.result = result,
                   !.refreshed = (result = "ok" /\ c.refreshed)]

\* A command that ends shows what the last record says, if that was its own.
LEMMA EndOK ==
  ASSUME NEW t \in Nat, t >= 1, NEW r, NEW c, StateOK(c, r, t), c.pc # "done",
         NEW result \in {"ok", "error"}, NEW r1,
         result = "ok" /\ c.refreshed => r1 = "complete",
         (result = "ok" /\ c.refreshed) \/ r1 = r
  PROVE  StateOK(Ending(c, result), r1, t)
<1> DEFINE s == Ending(c, result)
           refreshed == (result = "ok" /\ c.refreshed)
<1>1. refreshed \in BOOLEAN BY DEF StateOK, CommandOK, CommandState
<1>2. s = [NotBegun EXCEPT !.pc = "done", !.result = result, !.refreshed = refreshed]
  BY DEF Ending
<1>2a. refreshed => r1 = "complete" OBVIOUS
<1>2b. ~refreshed => r1 = r
  BY DEF StateOK, CommandOK, CommandState
<1> HIDE DEF s, refreshed
<1>3. /\ s \in CommandState /\ s.pc = "done" /\ s.result = result
      /\ s.refreshed = refreshed
  BY <1>1, <1>2, NotBegunOK DEF CommandState
<1>3a. s.started = 1 BY <1>2 DEF NotBegun
<1>4. CommandOK(s, t) BY <1>3, <1>3a DEF CommandOK, Loading
<1>5. Young(s) BY <1>3 DEF Young
<1>6. r = "complete" => c.pc = "done" BY DEF StateOK, RecordOK
<1>7. RecordOK(s, r1)
  BY <1>1, <1>2a, <1>2b, <1>3, <1>6 DEF RecordOK
<1> QED BY <1>4, <1>5, <1>7 DEF StateOK, s

(***************************************************************************)
(* The steps.                                                              *)
(***************************************************************************)

\* What a step may never do to a snapshot.
KeepsSnapshots ==
  \A i \in Items : snap[i] # None =>
    /\ snap'[i] # None
    /\ (snap'[i].payload # snap[i].payload \/ snap'[i].at # snap[i].at) =>
         /\ ~snap'[i].stale /\ snap'[i].at = clock
         /\ \/ i.dataset = "currentOdds" /\ snap'[i].payload = clock
            \/ \E p \in Commands :
                 cmd[p].pc = "save" /\ Current(p) = i /\ cmd[p].got = snap'[i].payload

Keeps == MLBInv' /\ KeepsSnapshots

\* One command goes on as r; the store and its record are what they should be.
LEMMA OneCommand ==
  ASSUME MLBInv, NEW p \in Commands, NEW r, cmd' = [cmd EXCEPT ![p] = r],
         UNCHANGED clock, StateOK(r, run'[p], clock),
         run' \in [Commands -> {"none", "running", "complete"}],
         \A q \in Commands \ {p} : run'[q] = run[q],
         snap' \in [Items -> {None} \union Snapshot],
         \A i \in Items : SnapshotOK(snap'[i]),
         roster' \in [ClubSet -> Payload]
  PROVE  MLBInv'
<1> USE DEF MLBInv
<1>1. r \in CommandState BY DEF StateOK, CommandOK
<1>2. /\ cmd' \in [Commands -> CommandState] /\ cmd'[p] = r
      /\ \A q \in Commands \ {p} : cmd'[q] = cmd[q]
  BY <1>1
<1>3. ASSUME NEW q \in Commands
      PROVE  CommandOK(cmd'[q], clock') /\ Young(cmd'[q]) /\ RecordOK(cmd'[q], run'[q])
  <2>1. CASE q = p BY <1>2, <2>1 DEF StateOK
  <2>2. CASE q # p
    <3>1. cmd'[q] = cmd[q] /\ run'[q] = run[q] BY <1>2, <2>2
    <3> QED BY <3>1
  <2> QED BY <2>1, <2>2
<1> QED BY <1>2, <1>3

\* One command goes on as r and does nothing else.
LEMMA OneLooks ==
  ASSUME MLBInv, NEW p \in Commands, NEW r, cmd' = [cmd EXCEPT ![p] = r],
         UNCHANGED <<clock, snap, roster, run>>, StateOK(r, run[p], clock)
  PROVE  Keeps
<1>1. MLBInv' BY OneCommand DEF MLBInv
<1>2. KeepsSnapshots BY DEF KeepsSnapshots
<1> QED BY <1>1, <1>2 DEF Keeps

\* An item is given up or done with.
LEMMA GiveUpInv ==
  ASSUME MLBInv, NEW p \in Commands, cmd[p].pc \in Loading,
         \/ GiveUp(p) \/ EndWith(p, "error")
         \/ \E shows \in BOOLEAN : Proceed(p, shows),
         UNCHANGED <<clock, snap, roster, run>>
  PROVE  Keeps
<1>1. StateOK(cmd[p], run[p], clock) /\ clock \in Nat /\ clock >= 1
  BY MLBAssumption DEF MLBInv, StateOK
<1>2. CASE EndWith(p, "error")
  <2>1. cmd' = [cmd EXCEPT ![p] = Ending(cmd[p], "error")]
    BY <1>2 DEF EndWith, Ending
  <2>2. StateOK(Ending(cmd[p], "error"), run[p], clock)
    BY <1>1, EndOK DEF Loading
  <2> QED BY <2>1, <2>2, OneLooks
<1>3. ASSUME NEW shows \in BOOLEAN, Proceed(p, shows) PROVE Keeps
  <2>1. cmd' = [cmd EXCEPT ![p] = Changed(cmd[p], ProceedChange(cmd[p], shows))]
    BY <1>3 DEF Proceed, Advance, Changed, ProceedChange
  <2>2. StateOK(Changed(cmd[p], ProceedChange(cmd[p], shows)), run[p], clock)
    BY <1>1, ProceedOK
  <2> QED BY <2>1, <2>2, OneLooks
<1> QED BY <1>2, <1>3 DEF GiveUp

\* A snapshot that is replaced by one saved now, or flagged, is one still.
LEMMA SnapshotsOK ==
  ASSUME MLBInv, NEW i \in Items, NEW payload \in {clock, Empty}
  PROVE  /\ [payload |-> payload, at |-> clock, stale |-> FALSE] \in Snapshot
         /\ SnapshotOK([payload |-> payload, at |-> clock, stale |-> FALSE])
         /\ FlagStale(snap[i]) \in {None} \union Snapshot
         /\ SnapshotOK(FlagStale(snap[i]))
         /\ snap[i] # None => /\ FlagStale(snap[i]) # None
                              /\ FlagStale(snap[i]).payload = snap[i].payload
                              /\ FlagStale(snap[i]).at = snap[i].at
<1> USE MLBAssumption
<1>1. clock \in 1..MaxTime /\ payload \in Payload BY DEF MLBInv, Payload, Empty
<1>2. snap[i] # None => snap[i] \in Snapshot /\ snap[i].payload \in {snap[i].at, Empty}
  BY DEF MLBInv, SnapshotOK
<1>3. /\ [payload |-> payload, at |-> clock, stale |-> FALSE] \in Snapshot
      /\ SnapshotOK([payload |-> payload, at |-> clock, stale |-> FALSE])
  BY <1>1 DEF Snapshot, SnapshotOK
<1>4. CASE snap[i] = None
  BY <1>3, <1>4 DEF FlagStale, SnapshotOK
<1>5. CASE snap[i] # None
  <2> DEFINE s == [snap[i] EXCEPT !.stale = TRUE]
  <2>1. s \in Snapshot /\ s.payload = snap[i].payload /\ s.at = snap[i].at
    BY <1>2, <1>5 DEF Snapshot
  <2>2. FlagStale(snap[i]) = s BY <1>5 DEF FlagStale
  <2> HIDE DEF s
  <2> QED BY <1>2, <1>3, <1>5, <2>1, <2>2 DEF SnapshotOK
<1> QED BY <1>4, <1>5

\* Reading a snapshot: it is fresh, or a fetch begins.
LEMMA ReadSnapshotInv ==
  ASSUME MLBInv, NEW p \in Commands, ReadSnapshot(p) PROVE Keeps
<1> DEFINE c == cmd[p]
           s == snap[Current(p)]
<1>1. /\ StateOK(c, run[p], clock) /\ clock \in Nat /\ c.pc = "read"
      /\ c \in CommandState /\ c.at \in 1..Len(PlanOf(c))
      /\ UNCHANGED <<clock, snap, roster, run>>
  BY MLBAssumption DEF MLBInv, StateOK, ReadSnapshot, CommandOK, Loading
<1>2. Current(p) = ItemOf(c) BY DEF Current, ItemOf, PlanOf
<1>3. ItemOf(c) \in Items /\ TTL[ItemOf(c).dataset] \in Nat \ {0} BY <1>1, LoadsItem
<1>4. s # None => /\ s \in Snapshot /\ s.payload \in {s.at, Empty}
  BY <1>2, <1>3 DEF MLBInv, SnapshotOK
<1>5. CASE Fresh(p, s) /\ Deliver(p, s.payload, FALSE, c.refreshed)
  <2>1. /\ s \in Snapshot /\ ~c.force
        /\ c.started - s.at < TTL[ItemOf(c).dataset]
    BY <1>2, <1>4, <1>5 DEF Fresh
  <2>2. /\ s.payload \in Payload /\ s.at \in Int /\ c.started \in Int
        /\ c.refreshed \in BOOLEAN
    BY <1>1, <2>1 DEF Snapshot, CommandState
  <2>3. s.payload # Empty =>
          s.payload > c.started - (IF c.force THEN 1 ELSE TTL[ItemOf(c).dataset])
    <3> DEFINE limit == IF c.force THEN 1 ELSE TTL[ItemOf(c).dataset]
    <3>1. limit = TTL[ItemOf(c).dataset] BY <2>1
    <3>1a. c.started - s.at < limit /\ limit \in Int BY <1>3, <2>1, <3>1
    <3>1b. s.payload # Empty => s.payload = s.at BY <1>4, <2>1, MLBAssumption
    <3>1c. s.at \in Int /\ c.started \in Int BY <2>2
    <3> HIDE DEF limit, c, s
    <3>2. s.payload # Empty => s.payload > c.started - limit
      BY <3>1a, <3>1b, <3>1c
    <3> QED BY <3>2 DEF limit
  <2>4. StateOK(Changed(c, DeliverChange(s.payload, FALSE, c.refreshed)), run[p], clock)
    BY <1>1, <2>2, <2>3, DeliverOK DEF Loading
  <2>5. cmd' = [cmd EXCEPT ![p] = Changed(c, DeliverChange(s.payload, FALSE, c.refreshed))]
    BY <1>5 DEF Deliver, Advance, Changed, DeliverChange
  <2> HIDE DEF c, s
  <2> QED BY <1>1, <2>4, <2>5, OneLooks DEF c
<1>6. CASE Advance(p, [prev |-> IF s = None THEN None ELSE s.payload, pc |-> "fetch"])
  <2> DEFINE prev == IF s = None THEN None ELSE s.payload
  <2>1. prev \in {None} \union Payload BY <1>4 DEF Snapshot
  <2>2. cmd' = [cmd EXCEPT ![p] = Changed(c, [prev |-> prev, pc |-> "fetch"])]
    BY <1>6 DEF Advance, Changed
  <2> HIDE DEF prev
  <2>3. StateOK(Changed(c, [prev |-> prev, pc |-> "fetch"]), run[p], clock)
    BY <1>1, <2>1, FetchOK
  <2> QED BY <1>1, <2>2, <2>3, OneLooks
<1> QED BY <1>5, <1>6 DEF ReadSnapshot

\* A fetch that answers, or fails.
LEMMA FetchInv ==
  ASSUME MLBInv, NEW p \in Commands, FetchSucceeds(p) \/ FetchFails(p) PROVE Keeps
<1> DEFINE c == cmd[p]
<1>1. /\ StateOK(c, run[p], clock) /\ clock \in 1..MaxTime /\ clock \in Nat
      /\ c \in CommandState /\ c.pc = "fetch"
      /\ UNCHANGED <<clock, snap, roster, run>>
  BY MLBAssumption DEF MLBInv, StateOK, FetchSucceeds, FetchFails
<1>2. CASE FetchSucceeds(p)
  <2>1. PICK a \in {clock, Empty} : Advance(p, [got |-> a, pc |-> "save"])
    BY <1>2 DEF FetchSucceeds, Answers
  <2>2. cmd' = [cmd EXCEPT ![p] = Changed(c, [got |-> a, pc |-> "save"])]
    BY <2>1 DEF Advance, Changed
  <2>3. StateOK(Changed(c, [got |-> a, pc |-> "save"]), run[p], clock)
    BY <1>1, AnswerOK
  <2> QED BY <1>1, <2>2, <2>3, OneLooks
<1>3. CASE GiveUp(p)
  BY <1>1, <1>3, GiveUpInv DEF Loading
<1>4. CASE c.prev # None /\ Advance(p, [pc |-> "mark"])
  <2>1. c.prev \in Payload BY <1>1, <1>4 DEF CommandState
  <2>2. cmd' = [cmd EXCEPT ![p] = Changed(c, [pc |-> "mark"])]
    BY <1>4 DEF Advance, Changed
  <2>3. StateOK(Changed(c, [pc |-> "mark"]), run[p], clock)
    BY <1>1, <2>1, LineOK DEF Lines, Loading
  <2> QED BY <1>1, <2>2, <2>3, OneLooks
<1> QED BY <1>2, <1>3, <1>4 DEF FetchFails

\* What was fetched is saved, and loaded.
LEMMA SaveSnapshotInv ==
  ASSUME MLBInv, NEW p \in Commands, SaveSnapshot(p) PROVE Keeps
<1> DEFINE c == cmd[p]
           i == Current(p)
           s == [payload |-> c.got, at |-> clock, stale |-> FALSE]
<1>1. /\ StateOK(c, run[p], clock) /\ clock \in 1..MaxTime /\ clock \in Nat
      /\ c \in CommandState /\ c.pc = "save" /\ c.got \in {clock, Empty}
      /\ c.at \in 1..Len(PlanOf(c)) /\ c.started <= clock
      /\ snap' = [snap EXCEPT ![i] = s] /\ UNCHANGED <<clock, roster, run>>
  BY MLBAssumption DEF MLBInv, StateOK, SaveSnapshot, CommandOK, Loading
<1>2. i = ItemOf(c) BY DEF Current, ItemOf, PlanOf
<1>3. i \in Items /\ TTL[ItemOf(c).dataset] \in Nat \ {0} BY <1>1, <1>2, LoadsItem
<1>4. s \in Snapshot /\ SnapshotOK(s) BY <1>1, <1>3, SnapshotsOK
<1>5. c.got \in Payload /\ c.started \in Int
  BY <1>1, MLBAssumption DEF Payload, Empty, CommandState
<1>6. c.got # Empty =>
        c.got > c.started - (IF c.force THEN 1 ELSE TTL[ItemOf(c).dataset])
  BY <1>1, <1>3, <1>5
<1>7. StateOK(Changed(c, DeliverChange(c.got, FALSE, TRUE)), run[p], clock)
  BY <1>1, <1>5, <1>6, DeliverOK DEF Loading
<1>8. cmd' = [cmd EXCEPT ![p] = Changed(c, DeliverChange(c.got, FALSE, TRUE))]
  BY DEF SaveSnapshot, Deliver, Advance, Changed, DeliverChange
<1>9. /\ s.payload = c.got /\ s.at = clock /\ ~s.stale /\ s # None
  BY <1>4, MLBAssumption
<1> HIDE DEF s
<1>10. /\ snap' \in [Items -> {None} \union Snapshot] /\ snap'[i] = s
       /\ \A j \in Items \ {i} : snap'[j] = snap[j]
  BY <1>1, <1>3, <1>4 DEF MLBInv
<1>11. \A j \in Items : SnapshotOK(snap'[j])
  <2>1. ASSUME NEW j \in Items PROVE SnapshotOK(snap'[j])
    <3>1. CASE j = i BY <1>4, <1>10, <3>1
    <3>2. CASE j # i
      <4>1. snap'[j] = snap[j] BY <1>10, <3>2
      <4> QED BY <4>1 DEF MLBInv
    <3> QED BY <3>1, <3>2
  <2> QED BY <2>1
<1>12. KeepsSnapshots
  BY <1>1, <1>9, <1>10 DEF KeepsSnapshots
<1>13. MLBInv' BY <1>1, <1>7, <1>8, <1>10, <1>11, OneCommand DEF MLBInv
<1> QED BY <1>12, <1>13 DEF Keeps

\* The previous payload is served, and its snapshot flagged unless that fails.
LEMMA MarkStaleInv ==
  ASSUME MLBInv, NEW p \in Commands, MarkStale(p) PROVE Keeps
<1> DEFINE c == cmd[p]
           i == Current(p)
<1>1. /\ StateOK(c, run[p], clock) /\ clock \in 1..MaxTime /\ clock \in Nat
      /\ c \in CommandState /\ c.pc = "mark" /\ c.prev \in Payload
      /\ c.at \in 1..Len(PlanOf(c)) /\ UNCHANGED <<clock, roster, run>>
  BY MLBAssumption DEF MLBInv, StateOK, MarkStale, CommandOK, Loading
<1>2. i = ItemOf(c) BY DEF Current, ItemOf, PlanOf
<1>3. i \in Items BY <1>1, <1>2, LoadsItem
<1>4. c.refreshed \in BOOLEAN BY <1>1 DEF CommandState
<1>5. StateOK(Changed(c, DeliverChange(c.prev, TRUE, c.refreshed)), run[p], clock)
  BY <1>1, <1>4, DeliverOK DEF Loading
<1>6. cmd' = [cmd EXCEPT ![p] = Changed(c, DeliverChange(c.prev, TRUE, c.refreshed))]
  BY DEF MarkStale, Deliver, Advance, Changed, DeliverChange
<1>7. snap' = snap \/ snap' = [snap EXCEPT ![i] = FlagStale(snap[i])]
  BY DEF MarkStale
<1>8. \A j \in Items : snap'[j] \in {snap[j], FlagStale(snap[j])}
  BY <1>3, <1>7 DEF MLBInv
<1>9. /\ snap' \in [Items -> {None} \union Snapshot]
      /\ \A j \in Items : SnapshotOK(snap'[j])
      /\ KeepsSnapshots
  BY <1>7, <1>8, SnapshotsOK DEF MLBInv, KeepsSnapshots
<1>10. MLBInv' BY <1>1, <1>5, <1>6, <1>9, OneCommand DEF MLBInv
<1> QED BY <1>9, <1>10 DEF Keeps

\* Nothing more is loaded from here on.
LEMMA UseInv ==
  ASSUME MLBInv, NEW p \in Commands,
         \/ Show(p) \/ CheckRoster(p) \/ ReplaceRoster(p) \/ RereadRoster(p)
         \/ ReplaceStats(p) \/ SnapshotFails(p)
  PROVE  Keeps
<1> DEFINE c == cmd[p]
<1>1. /\ StateOK(c, run[p], clock) /\ clock \in Nat
      /\ c \in CommandState /\ c.pc \in Loading /\ UNCHANGED <<clock, snap, run>>
  <2>1. StateOK(c, run[p], clock) /\ clock \in Nat /\ c \in CommandState
    BY MLBAssumption DEF MLBInv, StateOK
  <2>2. c.pc \in Loading /\ UNCHANGED <<clock, snap, run>>
    BY DEF Show, CheckRoster, ReplaceRoster, RereadRoster, ReplaceStats, SnapshotFails,
           Loading
  <2> QED BY <2>1, <2>2
<1>2. CASE Show(p) \/ RereadRoster(p) \/ ReplaceStats(p) \/ SnapshotFails(p)
  BY <1>1, <1>2, GiveUpInv DEF Show, RereadRoster, ReplaceStats, SnapshotFails
<1>3. CASE CheckRoster(p)
  <2>1. CASE EndWith(p, "error")
    BY <1>1, <1>3, <2>1, GiveUpInv DEF CheckRoster
  <2>2. CASE Advance(p, [pc |-> "replace"])
    <3>1. cmd' = [cmd EXCEPT ![p] = Changed(c, [pc |-> "replace"])]
      BY <2>2 DEF Advance, Changed
    <3>2. StateOK(Changed(c, [pc |-> "replace"]), run[p], clock)
      BY <1>1, <1>3, LineOK DEF Lines, Loading, CheckRoster
    <3> QED BY <1>1, <1>3, <3>1, <3>2, OneLooks DEF CheckRoster
  <2> QED BY <1>3, <2>1, <2>2 DEF CheckRoster
<1>4. CASE ReplaceRoster(p)
  <2>1. /\ cmd' = [cmd EXCEPT ![p] = Changed(c, [pc |-> "reread"])]
        /\ roster' = [roster EXCEPT ![Current(p).scope] = c.got] /\ c.pc = "replace"
    BY <1>4 DEF ReplaceRoster, Advance, Changed
  <2>2. c.got \in Payload BY <1>1, <2>1 DEF StateOK, CommandOK
  <2>3. roster' \in [ClubSet -> Payload] BY <2>1, <2>2 DEF MLBInv
  <2>4. StateOK(Changed(c, [pc |-> "reread"]), run[p], clock)
    BY <1>1, <2>1, LineOK DEF Lines, Loading
  <2>5. MLBInv' BY <1>1, <2>1, <2>3, <2>4, OneCommand DEF MLBInv
  <2>6. KeepsSnapshots BY <1>1 DEF KeepsSnapshots
  <2> QED BY <2>5, <2>6 DEF Keeps
<1> QED BY <1>2, <1>3, <1>4

\* A command ends well, with nothing to record.
LEMMA EndWithInv ==
  ASSUME MLBInv, NEW p \in Commands, cmd[p].pc # "done",
         \/ EndWith(p, "error")
         \/ EndWith(p, "ok") /\ ~cmd[p].refreshed,
         UNCHANGED <<clock, snap, roster, run>>
  PROVE  Keeps
<1>1. StateOK(cmd[p], run[p], clock) /\ clock \in Nat /\ clock >= 1
  BY MLBAssumption DEF MLBInv, StateOK
<1>2. ASSUME NEW result \in {"ok", "error"}, EndWith(p, result),
             result = "ok" => ~cmd[p].refreshed
      PROVE  Keeps
  <2>1. cmd' = [cmd EXCEPT ![p] = Ending(cmd[p], result)]
    BY <1>2 DEF EndWith, Ending
  <2>2. StateOK(Ending(cmd[p], result), run[p], clock) BY <1>1, <1>2, EndOK
  <2> QED BY <2>1, <2>2, OneLooks
<1> QED BY <1>2

\* The end: what was refreshed is recorded.
LEMMA RecordInv ==
  ASSUME MLBInv, NEW p \in Commands,
         Finish(p) \/ StartRecord(p) \/ CompleteRecord(p) \/ StoreFails(p)
  PROVE  Keeps
<1> DEFINE c == cmd[p]
<1>1. StateOK(c, run[p], clock) /\ clock \in Nat /\ clock >= 1 /\ c \in CommandState
  BY MLBAssumption DEF MLBInv, StateOK
<1>1a. c.pc # "done"
  BY DEF Finish, StartRecord, CompleteRecord, StoreFails
<1>2. CASE Finish(p)
  <2>1. c.pc = "shown" /\ UNCHANGED <<clock, snap, roster, run>> BY <1>2 DEF Finish
  <2>2. CASE EndWith(p, "error") BY <1>1a, <2>1, <2>2, EndWithInv
  <2>3. CASE ~c.refreshed /\ EndWith(p, "ok") BY <1>1a, <2>1, <2>3, EndWithInv
  <2>4. CASE c.refreshed /\ Advance(p, [pc |-> "start"])
    <3>1. cmd' = [cmd EXCEPT ![p] = Changed(c, [pc |-> "start"])]
      BY <2>4 DEF Advance, Changed
    <3>2. StateOK(Changed(c, [pc |-> "start"]), run[p], clock)
      BY <1>1, <2>1, <2>4, LineOK DEF Lines, Loading
    <3> QED BY <2>1, <3>1, <3>2, OneLooks
  <2> QED BY <1>2, <2>2, <2>3, <2>4 DEF Finish
<1>3. CASE StartRecord(p)
  <2> DEFINE s == Changed(c, [pc |-> "complete"])
  <2>1. /\ c.pc = "start" /\ UNCHANGED <<clock, snap, roster>>
        /\ cmd' = [cmd EXCEPT ![p] = s] /\ run' = [run EXCEPT ![p] = "running"]
    BY <1>3 DEF StartRecord, Advance, Changed
  <2>2. c.refreshed BY <1>1, <2>1 DEF StateOK, CommandOK
  <2>3. StateOK(s, run[p], clock) BY <1>1, <2>1, <2>2, LineOK DEF Lines, Loading
  <2>4. s.pc = "complete" BY <1>1 DEF CommandState, Changed
  <2> HIDE DEF s
  <2>5. /\ run' \in [Commands -> {"none", "running", "complete"}]
        /\ run'[p] = "running" /\ \A q \in Commands \ {p} : run'[q] = run[q]
    BY <2>1 DEF MLBInv
  <2>6. StateOK(s, run'[p], clock) BY <2>3, <2>4, <2>5 DEF StateOK, RecordOK
  <2>7. MLBInv' BY <2>1, <2>5, <2>6, OneCommand DEF MLBInv
  <2>8. KeepsSnapshots BY <2>1 DEF KeepsSnapshots
  <2> QED BY <2>7, <2>8 DEF Keeps
<1>4. CASE CompleteRecord(p)
  <2>1. /\ c.pc = "complete" /\ UNCHANGED <<clock, snap, roster>>
        /\ cmd' = [cmd EXCEPT ![p] = Ending(c, "ok")]
        /\ run' = [run EXCEPT ![p] = "complete"]
    BY <1>4 DEF CompleteRecord, EndWith, Ending
  <2>2. c.refreshed BY <1>1, <2>1 DEF StateOK, CommandOK
  <2>3. /\ run' \in [Commands -> {"none", "running", "complete"}]
        /\ run'[p] = "complete" /\ \A q \in Commands \ {p} : run'[q] = run[q]
    BY <2>1 DEF MLBInv
  <2>4. StateOK(Ending(c, "ok"), run'[p], clock) BY <1>1, <1>1a, <2>2, <2>3, EndOK
  <2>5. MLBInv' BY <2>1, <2>3, <2>4, OneCommand DEF MLBInv
  <2>6. KeepsSnapshots BY <2>1 DEF KeepsSnapshots
  <2> QED BY <2>5, <2>6 DEF Keeps
<1>5. CASE StoreFails(p)
  BY <1>1a, <1>5, EndWithInv DEF StoreFails
<1> QED BY <1>2, <1>3, <1>4, <1>5

\* A command begins, or dies.
LEMMA BeginKillInv ==
  ASSUME MLBInv, NEW p \in Commands, Begin(p) \/ Kill(p) PROVE Keeps
<1> DEFINE c == cmd[p]
<1>1. /\ StateOK(c, run[p], clock) /\ clock \in 1..MaxTime /\ clock \in Nat
      /\ c \in CommandState /\ UNCHANGED <<clock, snap, roster, run>>
  BY MLBAssumption DEF MLBInv, StateOK, Begin, Kill
<1>2. CASE Begin(p)
  <2>1. PICK kind \in {"t", "tt", "sp"}, force \in BOOLEAN, clubs \in Selections :
          Advance(p, [pc |-> "read", kind |-> kind, force |-> force,
                      clubs |-> clubs, started |-> clock])
    BY <1>2 DEF Begin
  <2> DEFINE s == Changed(c, [pc |-> "read", kind |-> kind, force |-> force,
                              clubs |-> clubs, started |-> clock])
  <2>2. cmd' = [cmd EXCEPT ![p] = s] BY <2>1 DEF Advance, Changed
  <2>3. c.pc = "idle" BY <1>2 DEF Begin
  <2>4. StateOK(s, run[p], clock) BY <1>1, <2>3, BeginOK
  <2> QED BY <1>1, <2>2, <2>4, OneLooks
<1>3. CASE Kill(p)
  <2> DEFINE s == [NotBegun EXCEPT !.pc = "dead"]
  <2>1. cmd' = [cmd EXCEPT ![p] = s] /\ c.pc # "done" BY <1>3 DEF Kill, Active
  <2>2. s \in CommandState /\ s.pc = "dead" BY NotBegunOK DEF CommandState
  <2>3. s.started = 1 /\ s.result = "none" BY DEF NotBegun
  <2> HIDE DEF s
  <2>4. CommandOK(s, clock) BY <1>1, <2>2, <2>3 DEF CommandOK, Loading
  <2>5. Young(s) BY <2>2 DEF Young
  <2>6. RecordOK(s, run[p]) BY <1>1, <2>1, <2>2, <2>3 DEF StateOK, RecordOK
  <2>7. StateOK(s, run[p], clock) BY <2>4, <2>5, <2>6 DEF StateOK
  <2> QED BY <1>1, <2>1, <2>7, OneLooks
<1> QED BY <1>2, <1>3

\* The synchronization writes the same tables, and time passes between commands.
LEMMA WorldInv ==
  ASSUME MLBInv,
         (\E c \in ClubSet : SyncRoster(c)) \/ SyncOdds \/ Tick \/ UNCHANGED vars
  PROVE  Keeps
<1> USE MLBAssumption
<1>1. clock \in 1..MaxTime /\ clock \in Nat BY DEF MLBInv
<1>2. CASE (\E c \in ClubSet : SyncRoster(c)) \/ UNCHANGED vars
  <2>1. UNCHANGED <<clock, snap, run, cmd>> BY <1>2 DEF SyncRoster, vars
  <2>2. roster' \in [ClubSet -> Payload] BY <1>1, <1>2 DEF SyncRoster, vars, Payload, MLBInv
  <2>3. MLBInv' BY <2>1, <2>2 DEF MLBInv
  <2>4. KeepsSnapshots BY <2>1 DEF KeepsSnapshots
  <2> QED BY <2>3, <2>4 DEF Keeps
<1>3. CASE SyncOdds
  <2> DEFINE odds == Item("currentOdds", Today)
             s == [payload |-> clock, at |-> clock, stale |-> FALSE]
  <2>1. odds \in Items /\ odds.dataset = "currentOdds" BY DEF Items, Item, Datasets
  <2>2. /\ UNCHANGED <<clock, roster, run, cmd>>
        /\ \/ snap' = [snap EXCEPT ![odds] = s]
           \/ snap' = [snap EXCEPT ![odds] = FlagStale(snap[odds])]
    BY <1>3 DEF SyncOdds
  <2>3. s \in Snapshot /\ SnapshotOK(s) BY <2>1, SnapshotsOK
  <2>4. s.payload = clock /\ s.at = clock /\ ~s.stale /\ s # None BY <2>3
  <2> HIDE DEF odds, s
  <2>5. /\ \A j \in Items \ {odds} : snap'[j] = snap[j]
        /\ snap'[odds] \in {s, FlagStale(snap[odds])}
        /\ snap' \in [Items -> {None} \union Snapshot]
    BY <2>1, <2>2, <2>3, SnapshotsOK DEF MLBInv
  <2>6. \A j \in Items : SnapshotOK(snap'[j])
    <3>1. ASSUME NEW j \in Items PROVE SnapshotOK(snap'[j])
      <4>1. CASE j = odds BY <2>1, <2>3, <2>5, <4>1, SnapshotsOK
      <4>2. CASE j # odds
        <5>1. snap'[j] = snap[j] BY <2>5, <4>2
        <5> QED BY <5>1 DEF MLBInv
      <4> QED BY <4>1, <4>2
    <3> QED BY <3>1
  <2>7. MLBInv' BY <2>2, <2>5, <2>6 DEF MLBInv
  <2>8. KeepsSnapshots
    <3>1. \A j \in Items \ {odds} : snap'[j] = snap[j] BY <2>5
    <3>2. snap[odds] # None /\ snap'[odds] = FlagStale(snap[odds]) =>
            /\ snap'[odds] # None
            /\ snap'[odds].payload = snap[odds].payload
            /\ snap'[odds].at = snap[odds].at
      BY <2>1, SnapshotsOK
    <3> QED BY <2>1, <2>4, <2>5, <3>1, <3>2 DEF KeepsSnapshots
  <2> QED BY <2>7, <2>8 DEF Keeps
<1>4. CASE Tick
  <2>1. /\ clock' = clock + 1 /\ clock < MaxTime /\ UNCHANGED <<snap, roster, run, cmd>>
        /\ \A p \in Commands : cmd[p].pc \in {"idle", "done", "dead"}
    BY <1>4 DEF Tick, Active
  <2>2. ASSUME NEW p \in Commands PROVE CommandOK(cmd[p], clock')
    <3>1. CommandOK(cmd[p], clock) /\ cmd[p].pc \in {"idle", "done", "dead"}
      BY <2>1 DEF MLBInv
    <3>2. cmd[p].started \in Int BY <3>1 DEF CommandOK, CommandState
    <3> QED BY <1>1, <2>1, <3>1, <3>2 DEF CommandOK, Loading
  <2>3. clock' \in 1..MaxTime BY <1>1, <2>1
  <2>4. MLBInv' BY <2>1, <2>2, <2>3 DEF MLBInv
  <2>5. KeepsSnapshots BY <2>1 DEF KeepsSnapshots
  <2> QED BY <2>4, <2>5 DEF Keeps
<1> QED BY <1>2, <1>3, <1>4

\* Nothing has been loaded, or everything in this tick.
LEMMA InitMLB == Init => MLBInv
<1> SUFFICES ASSUME Init PROVE MLBInv OBVIOUS
<1> USE MLBAssumption DEF Init
<1>1. NotBegun \in CommandState BY NotBegunOK
<1>2. /\ NotBegun.pc = "idle" /\ NotBegun.at = 1 /\ NotBegun.started = 1
      /\ NotBegun.result = "none"
  BY DEF NotBegun
<1>3. /\ CommandOK(NotBegun, 1) /\ Young(NotBegun) /\ RecordOK(NotBegun, "none")
  BY <1>1, <1>2 DEF CommandOK, Young, RecordOK, Loading
<1> DEFINE s == [payload |-> 1, at |-> 1, stale |-> FALSE]
<1>4. s \in Snapshot /\ SnapshotOK(s) /\ SnapshotOK(None)
  BY DEF Snapshot, SnapshotOK, Payload
<1> HIDE DEF s
<1>5. /\ snap \in [Items -> {None} \union Snapshot]
      /\ \A i \in Items : SnapshotOK(snap[i])
  BY <1>4 DEF s
<1>6. roster \in [ClubSet -> Payload] BY DEF Payload, Empty
<1> QED BY <1>1, <1>3, <1>5, <1>6 DEF MLBInv

\* Every step keeps the invariant and what snapshots hold.
LEMMA NextMLB == ASSUME MLBInv, [Next]_vars PROVE Keeps
<1>1. ASSUME NEW p \in Commands, CommandStep(p) PROVE Keeps
  BY <1>1, ReadSnapshotInv, FetchInv, SaveSnapshotInv, MarkStaleInv, UseInv, RecordInv
  DEF CommandStep
<1> QED BY <1>1, BeginKillInv, WorldInv DEF Next

(***************************************************************************)
(* The theorems.                                                           *)
(***************************************************************************)

\* The strengthening is an invariant.
LEMMA MLBInvariance == Spec => []MLBInv
<1>1. MLBInv /\ [Next]_vars => MLBInv' BY NextMLB DEF Keeps
<1> QED BY <1>1, InitMLB, PTL DEF Spec

\* What cached hands a command without its stale flag is no older than the time its
\* dataset may live, or was fetched since the command began if it was told to, whatever
\* others did. Of the flag it says nothing more: the commands drop it for the directory
\* and the records, and print those unmarked however old they are.
THEOREM UnflaggedStaysYoung == Spec => []UnflaggedIsYoung
<1>1. MLBInv => UnflaggedIsYoung
  BY DEF MLBInv, Young, UnflaggedIsYoung, Current, ItemOf, PlanOf
<1> QED BY <1>1, MLBInvariance, PTL

\* The records of refreshes are of what the commands did, and every variable has its
\* type.
THEOREM RecordsStayTrue == Spec => []RecordsAreTrue
<1>1. ASSUME MLBInv PROVE RecordsAreTrue
  <2>1. TypeOK BY <1>1 DEF MLBInv, TypeOK
  <2>2. ASSUME NEW p \in Commands
        PROVE  /\ run[p] = "complete" => cmd[p].refreshed
               /\ cmd[p].result = "ok" /\ cmd[p].refreshed => run[p] = "complete"
    BY <1>1 DEF MLBInv, RecordOK
  <2> QED BY <2>1, <2>2 DEF RecordsAreTrue, RefreshIsRecorded
<1>2. MLBInv => RecordsAreTrue BY <1>1
<1> QED BY <1>2, MLBInvariance, PTL

\* A failed fetch leaves the last usable payload: a snapshot is never dropped, and its
\* payload and time change only together, to an answer that was fetched.
THEOREM SnapshotsAreKept == Spec => SnapshotsKept
<1>1. MLBInv /\ [Next]_vars => KeepsSnapshots BY NextMLB DEF Keeps
<1>2. MLBInv /\ [Next]_vars =>
        [\A i \in Items : snap[i] # None =>
           /\ snap'[i] # None
           /\ (snap'[i].payload # snap[i].payload \/ snap'[i].at # snap[i].at) =>
                /\ ~snap'[i].stale /\ snap'[i].at = clock
                /\ \/ i.dataset = "currentOdds" /\ snap'[i].payload = clock
                   \/ \E p \in Commands : cmd[p].pc = "save" /\ Current(p) = i
                                          /\ cmd[p].got = snap'[i].payload]_vars
  BY <1>1 DEF KeepsSnapshots
<1> QED BY <1>2, MLBInvariance, PTL DEF Spec, SnapshotsKept
==============================================================================
