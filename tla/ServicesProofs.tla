---------------------------- MODULE ServicesProofs ----------------------------
(***************************************************************************)
(* Proofs about the parts that share nothing with one another, for every   *)
(* value of their constants: first about each part alone, then, at the     *)
(* end, about the composition in which they are model-checked.             *)
(***************************************************************************)
EXTENDS Services, Sequences, FiniteSetTheorems, WellFoundedInduction, TLAPS

(***************************************************************************)
(* The provider cache: a name denotes whole files only, now and after any  *)
(* loss of power. A file gets its name when it has been written and synced *)
(* (rename), and a power loss tears only files that were not.              *)
(***************************************************************************)

\* The staged file of a command: there while it is written, complete once it may be renamed.
StagedFile ==
  \A p \in Readers :
    /\ client[p].pc \in {"write", "sync", "rename"} => client[p].temp \in Cache!Files
    /\ client[p].pc \in {"sync", "rename"} => client[p].temp.whole
    /\ client[p].pc = "rename" => client[p].temp.synced

CacheInv == Cache!CacheTypeOK /\ StagedFile /\ Cache!EntryIsWhole

\* Nothing is cached and nothing staged at first.
LEMMA CacheInitInv == Cache!CacheAssumption /\ Cache!CacheInit => CacheInv
BY DEF Cache!CacheAssumption, Cache!CacheInit, CacheInv, Cache!CacheTypeOK, StagedFile,
       Cache!EntryIsWhole, Cache!Idle, Cache!Resting, Cache!Files

\* A command that stages its file goes on with it.
LEMMA StagingInv ==
  ASSUME CacheInv, NEW p \in Readers, NEW staging \in Cache!Files, NEW pc \in {"write", "sync", "rename"},
         pc # "write" => staging.whole, pc = "rename" => staging.synced,
         Cache!Set(p, [pc |-> pc, temp |-> staging]), UNCHANGED <<time, entry, survivors, pruner>>
  PROVE  CacheInv'
<1> DEFINE staged == [pc |-> pc, now |-> client[p].now, temp |-> staging]
<1>1. client' = [client EXCEPT ![p] = staged]
  <2> DEFINE change == [pc |-> pc, temp |-> staging]
  <2>1. DOMAIN client[p] = {"pc", "now", "temp"} BY DEF CacheInv, Cache!CacheTypeOK
  <2>2. DOMAIN change = {"pc", "temp"} /\ change["pc"] = pc /\ change["temp"] = staging
    OBVIOUS
  <2>3. client' = [client EXCEPT ![p] = [f \in DOMAIN client[p] |->
                     IF f \in DOMAIN change THEN change[f] ELSE client[p][f]]]
    BY DEF Cache!Set
  <2> HIDE DEF change
  <2>4. [f \in DOMAIN client[p] |-> IF f \in DOMAIN change THEN change[f] ELSE client[p][f]]
          = staged
    BY <2>1, <2>2
  <2> QED BY <2>3, <2>4
<1>2. Cache!CacheTypeOK' BY <1>1 DEF CacheInv, Cache!CacheTypeOK
<1>3. StagedFile' BY <1>1 DEF CacheInv, Cache!CacheTypeOK, StagedFile
<1>4. Cache!EntryIsWhole' BY DEF CacheInv, Cache!EntryIsWhole
<1> QED BY <1>2, <1>3, <1>4 DEF CacheInv

\* Every step keeps the invariant.
LEMMA CacheNextInv ==
  ASSUME Cache!CacheAssumption, CacheInv, [Cache!CacheNext]_(Cache!cacheVars)
  PROVE  CacheInv'
<1> USE DEF Cache!CacheAssumption, CacheInv, Cache!CacheTypeOK, StagedFile, Cache!EntryIsWhole
<1>0. CASE UNCHANGED Cache!cacheVars BY <1>0 DEF Cache!cacheVars
<1>1. ASSUME NEW p \in Readers, Cache!Ask(p) PROVE CacheInv'
  <2>1. PICK pc \in {"uncached", "find"} : Cache!Set(p, [pc |-> pc, now |-> time])
    BY <1>1 DEF Cache!Ask
  <2> QED BY <1>1, <2>1 DEF Cache!Ask, Cache!Set, Cache!Finish, Cache!In, Cache!Files
<1>2. ASSUME NEW p \in Readers, Cache!Find(p) PROVE CacheInv'
  <2>1. PICK pc \in {"fetch", "read"} : Cache!Set(p, [pc |-> pc])
    BY <1>2 DEF Cache!Find
  <2> QED BY <1>2, <2>1 DEF Cache!Find, Cache!Set, Cache!Finish, Cache!In, Cache!Files
<1>3. ASSUME NEW p \in Readers, Cache!Read(p) PROVE CacheInv'
  <2>1. \/ \E pc \in {"uncached", "fetch"} : Cache!Set(p, [pc |-> pc])
        \/ Cache!Finish(p)
    BY <1>3 DEF Cache!Read
  <2> QED BY <1>3, <2>1 DEF Cache!Read, Cache!Set, Cache!Finish, Cache!In, Cache!Files
<1>4. ASSUME NEW p \in Readers, Cache!FileFails(p) PROVE CacheInv'
  BY <1>4 DEF Cache!FileFails, Cache!Set, Cache!Finish, Cache!In, Cache!Files, Cache!Rename
<1>5. ASSUME NEW p \in Readers, Cache!Fetch(p) PROVE CacheInv'
  BY <1>5 DEF Cache!Fetch, Cache!Set, Cache!Finish, Cache!In, Cache!Files, Cache!Rename
<1>6. ASSUME NEW p \in Readers, Cache!FetchUncached(p) PROVE CacheInv'
  BY <1>6 DEF Cache!FetchUncached, Cache!Set, Cache!Finish, Cache!In, Cache!Files, Cache!Rename
<1>7. ASSUME NEW p \in Readers, Cache!Create(p) PROVE CacheInv'
  <2>1. PICK staging \in Cache!Files :
          Cache!Set(p, [pc |-> "write", temp |-> staging])
    BY <1>7 DEF Cache!Create, Cache!In, Cache!Files
  <2>2. CacheInv OBVIOUS
  <2> QED BY ONLY <1>7, <2>1, <2>2, StagingInv DEF Cache!Create
<1>8. ASSUME NEW p \in Readers, Cache!Write(p) PROVE CacheInv'
  <2>1. PICK staging \in Cache!Files :
          staging.whole /\ Cache!Set(p, [pc |-> "sync", temp |-> staging])
    BY <1>8 DEF Cache!Write, Cache!In, Cache!Files
  <2>2. CacheInv OBVIOUS
  <2> QED BY ONLY <1>8, <2>1, <2>2, StagingInv DEF Cache!Write
<1>9. ASSUME NEW p \in Readers, Cache!Sync(p) PROVE CacheInv'
  <2>1. PICK staging \in Cache!Files :
          staging.whole /\ staging.synced /\ Cache!Set(p, [pc |-> "rename", temp |-> staging])
    BY <1>9 DEF Cache!Sync, Cache!In, Cache!Files
  <2>2. CacheInv OBVIOUS
  <2> QED BY ONLY <1>9, <2>1, <2>2, StagingInv DEF Cache!Sync
<1>10. ASSUME NEW p \in Readers, Cache!Replace(p) PROVE CacheInv'
  BY <1>10 DEF Cache!Replace, Cache!Set, Cache!Finish, Cache!In, Cache!Files, Cache!Rename
<1>11. ASSUME NEW p \in Readers, Cache!SyncDirectory(p) PROVE CacheInv'
  BY <1>11 DEF Cache!SyncDirectory, Cache!Set, Cache!Finish, Cache!In, Cache!Files, Cache!Rename
<1>12. ASSUME NEW p \in Readers, Cache!PutFails(p) PROVE CacheInv'
  BY <1>12 DEF Cache!PutFails, Cache!Set, Cache!Finish, Cache!In, Cache!Files, Cache!Rename
<1>13. ASSUME NEW p \in Readers, Cache!KillReader(p) PROVE CacheInv'
  BY <1>13 DEF Cache!KillReader, Cache!Set, Cache!Finish, Cache!In, Cache!Files, Cache!Rename
<1>14. ASSUME NEW q \in Pruners, Cache!StartPrune(q) PROVE CacheInv'
  BY <1>14 DEF Cache!StartPrune, Cache!Rename
<1>15. ASSUME NEW q \in Pruners, Cache!Judge(q) PROVE CacheInv'
  BY <1>15 DEF Cache!Judge, Cache!Rename
<1>16. ASSUME NEW q \in Pruners, Cache!Remove(q) PROVE CacheInv'
  BY <1>16 DEF Cache!Remove, Cache!Rename
<1>17. CASE Cache!PassTime BY <1>17 DEF Cache!PassTime, Cache!Files
<1>18. CASE Cache!PowerLoss
  BY <1>18 DEF Cache!PowerLoss, Cache!AfterPowerLoss, Cache!Idle, Cache!Resting, Cache!Files
<1> QED
  BY <1>0, <1>1, <1>2, <1>3, <1>4, <1>5, <1>6, <1>7, <1>8, <1>9, <1>10, <1>11, <1>12, <1>13, <1>14, <1>15, <1>16, <1>17, <1>18 DEF Cache!CacheNext

\* Every variable of the cache keeps its type, whatever the number of readers and pruners.
LEMMA CacheTypes == Cache!CacheSpec => []Cache!CacheTypeOK
<1>0. Cache!CacheAssumption BY ServicesAssumption
<1>1. Cache!CacheInit => CacheInv BY <1>0, CacheInitInv
<1>2. CacheInv /\ [Cache!CacheNext]_(Cache!cacheVars) => CacheInv' BY <1>0, CacheNextInv
<1>3. CacheInv => Cache!CacheTypeOK BY DEF CacheInv
<1> QED BY <1>1, <1>2, <1>3, PTL DEF Cache!CacheSpec

\* A file found under the entry's name is whole and synced, at any moment and after any loss
\* of power, whatever the number of commands and pruners and however long entries are kept.
LEMMA EntriesAreWhole == Cache!CacheSpec => []Cache!EntryIsWhole
<1>0. Cache!CacheAssumption BY ServicesAssumption
<1>1. Cache!CacheInit => CacheInv BY <1>0, CacheInitInv
<1>2. CacheInv /\ [Cache!CacheNext]_(Cache!cacheVars) => CacheInv' BY <1>0, CacheNextInv
<1>3. CacheInv => Cache!EntryIsWhole BY DEF CacheInv
<1> QED BY <1>1, <1>2, <1>3, PTL DEF Cache!CacheSpec

(***************************************************************************)
(* The rosters' step: a row names the roster that is stored. From the      *)
(* attempt until the success is recorded the row of the club says          *)
(* "running", and a later run takes it as due whatever came in between.    *)
(***************************************************************************)

AtClub == stage \in {"need", "attempt", "fetch", "replace", "success"}

\* A club between its attempt and its success has no complete row.
RunningRow ==
  /\ stage # "idle" => run > 0
  /\ stage \in {"fetch", "replace", "success"} => row[club].status = "running"
  /\ stage = "success" => rosters[club] = run

\* Of the clubs this run is done with each has failed, or has a row that is fresh.
DoneWith(c) == c \notin todo /\ c \notin counted.failed /\ (AtClub => c # club)
DoneAreFresh ==
  stage \notin {"idle", "directory"} => \A c \in Clubs : DoneWith(c) =>
    row[c].status = "complete" /\ (c \in stale => row[c].success = run)

\* A success of this run is counted.
SuccessIsCounted ==
  \A c \in Clubs :
    /\ row[c].success <= run
    /\ stage # "idle" /\ row[c].success = run => c \in counted.succeeded
    /\ stage = "directory" => counted.succeeded = {}

RosterInv ==
  /\ Roster!RosterTypeOK /\ Roster!FreshRowHasItsRoster /\ Roster!OutcomeIsHonest
  /\ RunningRow /\ DoneAreFresh /\ SuccessIsCounted

\* Nothing is stored at first.
LEMMA RosterInitInv == Roster!RosterAssumption /\ Roster!RosterInit => RosterInv
<1> SUFFICES ASSUME Roster!RosterAssumption, Roster!RosterInit PROVE RosterInv
  OBVIOUS
<1> USE DEF Roster!RosterAssumption, Roster!RosterInit, Roster!NoClubs
<1>1. Roster!RosterTypeOK
  <2>1. rosters \in [Clubs -> 0..MaxRuns] OBVIOUS
  <2>2. row \in [Clubs -> [status: {"none", "running", "complete", "failed"}, success: 0..MaxRuns]]
    OBVIOUS
  <2>3. counted \in [succeeded: SUBSET Clubs, failed: SUBSET Clubs] OBVIOUS
  <2> QED BY <2>1, <2>2, <2>3 DEF Roster!RosterTypeOK
<1>2. Roster!FreshRowHasItsRoster /\ Roster!OutcomeIsHonest
  BY DEF Roster!FreshRowHasItsRoster, Roster!OutcomeIsHonest
<1>3. RunningRow /\ DoneAreFresh /\ SuccessIsCounted
  BY DEF RunningRow, DoneAreFresh, SuccessIsCounted
<1> QED BY <1>1, <1>2, <1>3 DEF RosterInv

\* Every step keeps the invariant.
LEMMA RosterNextInv ==
  ASSUME Roster!RosterAssumption, RosterInv, [Roster!RosterNext]_(Roster!rosterVars)
  PROVE  RosterInv'
<1> USE DEF Roster!RosterAssumption, RosterInv, Roster!RosterTypeOK, Roster!FreshRowHasItsRoster,
            Roster!OutcomeIsHonest, RunningRow, DoneAreFresh, DoneWith, AtClub, SuccessIsCounted
<1>0. CASE UNCHANGED Roster!rosterVars BY <1>0 DEF Roster!rosterVars
<1>1. CASE Roster!Begin BY <1>1 DEF Roster!Begin, Roster!Go, Roster!NoClubs
<1>2. CASE Roster!Directory BY <1>2 DEF Roster!Directory, Roster!Go
<1>3. CASE Roster!NextClub BY <1>3 DEF Roster!NextClub, Roster!Go
<1>4. CASE Roster!Need BY <1>4 DEF Roster!Need, Roster!Needed, Roster!Leave, Roster!Go
<1>5. CASE Roster!Attempt BY <1>5 DEF Roster!Attempt, Roster!Leave, Roster!Go
<1>6. CASE Roster!Fetch BY <1>6 DEF Roster!Fetch, Roster!Fail, Roster!Leave, Roster!Go
<1>7. CASE Roster!Replace BY <1>7 DEF Roster!Replace, Roster!Fail, Roster!Leave, Roster!Go
<1>8. CASE Roster!Success
  <2>1. CASE Roster!Fail /\ Roster!Leave(TRUE) /\ UNCHANGED stale
    BY <1>8, <2>1 DEF Roster!Success, Roster!Fail, Roster!Leave, Roster!Go
  <2>2. CASE /\ row' = [row EXCEPT ![club] = [status |-> "complete", success |-> run]]
             /\ stale' = stale \ {club}
             /\ counted' = [counted EXCEPT !.succeeded = @ \union {club}]
             /\ stage' = "next"
    <3>1. /\ rosters[club] = run /\ run > 0
          /\ UNCHANGED <<run, force, todo, club, rosters, verdict>>
      BY <1>8 DEF Roster!Success
    <3>2. Roster!RosterTypeOK' BY <2>2, <3>1
    <3>3. Roster!FreshRowHasItsRoster' BY <2>2, <3>1
    <3>4. Roster!OutcomeIsHonest' BY <2>2, <3>1
    <3>5. RunningRow' BY <2>2, <3>1
    <3>6. DoneAreFresh' BY <2>2, <3>1, <1>8 DEF Roster!Success
    <3>7. SuccessIsCounted' BY <2>2, <3>1, <1>8 DEF Roster!Success
    <3> QED BY <3>2, <3>3, <3>4, <3>5, <3>6, <3>7
  <2> QED BY <1>8, <2>1, <2>2 DEF Roster!Success, Roster!Go
<1>9. CASE Roster!End
  <2>1. /\ stage = "next" /\ todo = {} /\ stage' = "idle"
        /\ verdict' = Roster!Verdict(counted)
        /\ UNCHANGED <<run, force, todo, club, counted, rosters, row, stale>>
    BY <1>9 DEF Roster!End, Roster!Go
  <2>2. /\ verdict' \in {"complete", "degraded", "failed"}
        /\ verdict' = "complete" => counted.failed = {}
        /\ verdict' = "failed" => counted.succeeded = {}
    BY <2>1 DEF Roster!Verdict
  <2>3. Roster!OutcomeIsHonest'
    <3>1. verdict' = "failed" => \A c \in Clubs : row[c].success < run
      <4> SUFFICES ASSUME verdict' = "failed", NEW c \in Clubs PROVE row[c].success < run
        OBVIOUS
      <4>1. row[c].success <= run /\ row[c].success # run BY <2>1, <2>2
      <4>2. row[c].success \in Nat /\ run \in Nat OBVIOUS
      <4> QED BY ONLY <4>1, <4>2
    <3>2. verdict' = "complete" =>
            \A c \in Clubs : row[c].status = "complete" /\ (c \in stale => row[c].success = run)
      BY <2>1, <2>2
    <3> QED BY <2>1, <3>1, <3>2
  <2> QED BY <2>1, <2>2, <2>3
<1>10. CASE Roster!Die BY <1>10 DEF Roster!Die, Roster!Go
<1> QED
  BY <1>0, <1>1, <1>2, <1>3, <1>4, <1>5, <1>6, <1>7, <1>8, <1>9, <1>10 DEF Roster!RosterNext

\* A fresh row has the roster of the run that succeeded, and what a run says of itself is so,
\* whatever the number of clubs and of runs that failed or died before.
LEMMA RosterRowsHonest == Roster!RosterSpec => [](Roster!RosterTypeOK /\ Roster!RosterStepIsHonest)
<1>0. Roster!RosterAssumption BY ServicesAssumption
<1>1. Roster!RosterInit => RosterInv BY <1>0, RosterInitInv
<1>2. RosterInv /\ [Roster!RosterNext]_(Roster!rosterVars) => RosterInv' BY <1>0, RosterNextInv
<1>3. RosterInv => Roster!RosterTypeOK /\ Roster!RosterStepIsHonest
  BY DEF RosterInv, Roster!RosterStepIsHonest
<1> QED BY <1>1, <1>2, <1>3, PTL DEF Roster!RosterSpec

(***************************************************************************)
(* One request: the URLs that were visited are as many as requests were    *)
(* allowed, and as long as the headers are whole none has left home.       *)
(***************************************************************************)

\* Where the request is, what it has visited and how often it was sent.
Chain ==
  /\ request.url \in request.visited /\ IsFiniteSet(request.visited)
  /\ Cardinality(request.visited) = request.redirects + 1 /\ request.redirects <= RedirectLimit
  /\ request.method = "POST" => request.redirects = 0
  /\ request.pc = "validate" => request.visited = {request.url}
  /\ request.pc \in {"validate", "dispatch"} => request.sent = request.redirects
  /\ request.pc \in {"answer", "body", "done"} => request.sent = request.redirects + 1
  /\ request.sent <= request.redirects + 1

\* Headers that are whole have seen one origin only.
WholeHeaders == request.sensitive => \A u \in request.visited : u.origin = request.home

\* A request that may be sent is on https, or has never left loopback hosts.
SafeScheme ==
  request.pc \in {"dispatch", "answer", "body", "done"} =>
    request.url.scheme = "https" \/ \A u \in request.visited : u.scheme = "http" /\ u.loopback

TransportInv == TransportTypeOK /\ Chain /\ WholeHeaders /\ SafeScheme

\* A request begins with the one URL it was given.
LEMMA TransportInitInv == TransportInit => TransportInv
<1> SUFFICES ASSUME TransportInit PROVE TransportInv
  OBVIOUS
<1>1. PICK m \in Methods, u \in URLs, s \in BOOLEAN :
        request = [pc |-> "validate", method |-> m, url |-> u, home |-> u.origin, sensitive |-> s,
                   visited |-> {u}, redirects |-> 0, sent |-> 0]
  BY DEF TransportInit
<1>2. IsFiniteSet({u}) /\ Cardinality({u}) = 1 BY FS_Singleton
<1>3. TransportTypeOK BY <1>1, TransportAssumption DEF TransportTypeOK
<1>4. Chain BY <1>1, <1>2, TransportAssumption DEF Chain
<1>5. WholeHeaders BY <1>1 DEF WholeHeaders
<1>6. SafeScheme BY <1>1 DEF SafeScheme
<1> QED BY <1>3, <1>4, <1>5, <1>6 DEF TransportInv

\* A step that changes at most where the request is and how often it was sent.
LEMMA TransportStays ==
  ASSUME TransportInv, NEW to \in {"dispatch", "answer", "body", "done", "error"}, NEW sent \in Nat,
         Change([pc |-> to, sent |-> sent]) \/ (Change([pc |-> to]) /\ sent = request.sent),
         sent <= request.redirects + 1, to = "dispatch" => sent = request.redirects,
         to \in {"answer", "body", "done"} => sent = request.redirects + 1,
         to # "error" => \/ request.pc = "validate" /\ ValidInitial(request.url)
                         \/ request.pc \notin {"validate", "error"}
  PROVE  TransportInv'
<1>1. /\ DOMAIN request = {"pc", "method", "url", "home", "sensitive", "visited", "redirects", "sent"}
      /\ request.redirects \in Nat /\ RedirectLimit \in Nat
  BY TransportAssumption DEF TransportInv, TransportTypeOK
<1>2. request' = [request EXCEPT !.pc = to, !.sent = sent]
  <2>1. ASSUME Change([pc |-> to, sent |-> sent]) PROVE request' = [request EXCEPT !.pc = to, !.sent = sent]
    <3> DEFINE change == [pc |-> to, sent |-> sent]
    <3>1. DOMAIN change = {"pc", "sent"} /\ change["pc"] = to /\ change["sent"] = sent OBVIOUS
    <3>2. request' = [f \in DOMAIN request |-> IF f \in DOMAIN change THEN change[f] ELSE request[f]]
      BY <2>1 DEF Change
    <3> HIDE DEF change
    <3> QED BY <1>1, <3>1, <3>2
  <2>2. ASSUME Change([pc |-> to]), sent = request.sent PROVE request' = [request EXCEPT !.pc = to, !.sent = sent]
    <3> DEFINE change == [pc |-> to]
    <3>1. DOMAIN change = {"pc"} /\ change["pc"] = to OBVIOUS
    <3>2. request' = [f \in DOMAIN request |-> IF f \in DOMAIN change THEN change[f] ELSE request[f]]
      BY <2>2 DEF Change
    <3> HIDE DEF change
    <3> QED BY <1>1, <2>2, <3>1, <3>2
  <2> QED BY <2>1, <2>2
<1>3. /\ request'.pc = to /\ request'.sent = sent /\ request'.method = request.method
      /\ request'.url = request.url /\ request'.home = request.home
      /\ request'.sensitive = request.sensitive /\ request'.visited = request.visited
      /\ request'.redirects = request.redirects
  BY <1>1, <1>2
<1>4. TransportTypeOK'
  <2>1. to \in {"validate", "dispatch", "answer", "body", "done", "error"} /\ sent \in Nat
    OBVIOUS
  <2> QED BY <1>2, <2>1 DEF TransportInv, TransportTypeOK
<1>5. Chain' BY <1>3 DEF TransportInv, Chain
<1>6. WholeHeaders' BY <1>3 DEF TransportInv, WholeHeaders
<1>7. SafeScheme'
  <2>1. CASE request.pc \in {"dispatch", "answer", "body", "done"}
    BY <1>3, <2>1, <1>1 DEF TransportInv, SafeScheme
  <2>2. CASE to = "error" BY <1>3, <2>2 DEF SafeScheme
  <2>3. CASE request.pc = "validate" /\ ValidInitial(request.url)
    <3>1. request.visited = {request.url} BY <2>3 DEF TransportInv, Chain
    <3> QED BY <1>3, <2>3, <3>1 DEF SafeScheme, ValidInitial
  <2> QED BY <2>1, <2>2, <2>3 DEF TransportInv, TransportTypeOK
<1> QED BY <1>4, <1>5, <1>6, <1>7 DEF TransportInv

\* A redirect that is followed adds a URL that was not visited, and takes the headers along
\* within their origin only.
LEMMA FollowKeeps ==
  ASSUME TransportInv, request.pc = "answer", request.method \in Redirectable,
         NEW next \in URLs, RedirectAllowed(next), Follow(next)
  PROVE  TransportInv'
<1>0. request \in [pc: {"validate", "dispatch", "answer", "body", "done", "error"}, method: Methods,
               url: URLs, home: {u.origin : u \in URLs}, sensitive: BOOLEAN, visited: SUBSET URLs,
               redirects: Nat, sent: Nat]
  BY DEF TransportInv, TransportTypeOK
<1>1. /\ DOMAIN request = {"pc", "method", "url", "home", "sensitive", "visited", "redirects", "sent"}
      /\ RedirectLimit \in Nat
  BY <1>0, TransportAssumption
<1> DEFINE sensitive == request.sensitive /\ request.url.origin = next.origin
           visited == request.visited \union {next}
<1>2. sensitive \in BOOLEAN OBVIOUS
<1>2a. sensitive => request.sensitive /\ request.url.origin = next.origin BY <1>0
<1>3. /\ IsFiniteSet(visited) /\ Cardinality(visited) = request.redirects + 2
  BY FS_AddElement, <1>0, <1>1 DEF TransportInv, Chain, RedirectAllowed
<1>4. request' = [pc |-> "dispatch", method |-> request.method, url |-> next, home |-> request.home,
                  sensitive |-> sensitive, visited |-> visited,
                  redirects |-> request.redirects + 1, sent |-> request.sent]
  <2> DEFINE change == [pc |-> "dispatch", url |-> next, visited |-> visited,
                        redirects |-> request.redirects + 1, sensitive |-> sensitive]
  <2>1. request' = [f \in DOMAIN request |-> IF f \in DOMAIN change THEN change[f] ELSE request[f]]
    BY DEF Follow, Change
  <2> HIDE DEF sensitive, visited
  <2>2. /\ DOMAIN change = {"pc", "url", "visited", "redirects", "sensitive"}
        /\ change["pc"] = "dispatch" /\ change["url"] = next /\ change["visited"] = visited
        /\ change["redirects"] = request.redirects + 1 /\ change["sensitive"] = sensitive
    OBVIOUS
  <2> HIDE DEF change
  <2> QED BY <1>0, <1>1, <2>1, <2>2
<1>5. request.redirects + 1 \in Nat /\ request.redirects + 1 <= RedirectLimit
  BY <1>0, <1>1 DEF RedirectAllowed
<1>6. visited \in SUBSET URLs BY <1>0
<1>7. next \in visited OBVIOUS
<1>8. WholeHeaders'
  <2> HIDE DEF sensitive
  <2>1. request'.sensitive = sensitive /\ request'.visited = visited /\ request'.home = request.home
    BY <1>4
  <2>2. ASSUME sensitive PROVE \A u \in visited : u.origin = request.home
    <3>1. \A u \in request.visited : u.origin = request.home
      BY <1>2a, <2>2 DEF TransportInv, WholeHeaders
    <3>2. next.origin = request.home
      BY <1>2a, <2>2, <3>1 DEF TransportInv, Chain
    <3> QED BY <3>1, <3>2
  <2> QED BY <2>1, <2>2 DEF WholeHeaders
<1>9. SafeScheme'
  <2>1. request'.url = next /\ request'.visited = visited BY <1>4
  <2>2. ASSUME next.scheme # "https" PROVE \A u \in visited : u.scheme = "http" /\ u.loopback
    <3>1. /\ next.scheme = "http" /\ next.loopback /\ request.url.scheme # "https"
      BY <2>2 DEF RedirectAllowed, ValidRedirect
    <3>2. \A u \in request.visited : u.scheme = "http" /\ u.loopback
      BY <3>1 DEF TransportInv, SafeScheme
    <3> QED BY <3>1, <3>2
  <2> QED BY <2>1, <2>2 DEF SafeScheme
<1> HIDE DEF sensitive, visited
<1>10. TransportTypeOK' BY <1>0, <1>2, <1>4, <1>5, <1>6 DEF TransportTypeOK
<1>11. Chain'
  <2>1. request.method # "POST" BY DEF Redirectable
  <2>2. request.sent = request.redirects + 1 /\ request.redirects \in Nat
    BY <1>0, <1>1 DEF TransportInv, Chain
  <2> QED BY <1>0, <1>3, <1>4, <1>5, <1>7, <2>1, <2>2 DEF Chain
<1> QED BY <1>8, <1>9, <1>10, <1>11 DEF TransportInv

\* Every step keeps the invariant.
LEMMA TransportNextInv == ASSUME TransportInv, [TransportNext]_request PROVE TransportInv'
<1>0. /\ request.sent \in Nat /\ request.redirects \in Nat
      /\ request.sent <= request.redirects + 1
      /\ request.pc \in {"validate", "dispatch"} => request.sent = request.redirects
      /\ request.pc \in {"answer", "body", "done"} => request.sent = request.redirects + 1
  BY TransportAssumption DEF TransportInv, TransportTypeOK, Chain
<1>1. CASE UNCHANGED request
  BY <1>1 DEF TransportInv, TransportTypeOK, Chain, WholeHeaders, SafeScheme
<1>2. CASE Validate
  <2>1. CASE ValidInitial(request.url) /\ Change([pc |-> "dispatch"])
    BY <1>0, <1>2, <2>1, TransportStays DEF Validate
  <2>2. CASE Refuse BY <1>0, <2>2, TransportStays DEF Refuse
  <2> QED BY <1>2, <2>1, <2>2 DEF Validate
<1>3. CASE Dispatch BY <1>0, <1>3, TransportStays DEF Dispatch
<1>4. CASE Refuse BY <1>0, <1>4, TransportStays DEF Refuse
<1>5. CASE Redirect
  <2>1. PICK next \in URLs : (RedirectAllowed(next) /\ Follow(next)) \/ Refuse
    BY <1>5 DEF Redirect
  <2> QED BY <1>4, <1>5, <2>1, FollowKeeps DEF Redirect
<1>6. CASE Receive BY <1>0, <1>6, TransportStays DEF Receive
<1>7. CASE ReadBody
  <2>1. \/ Refuse
        \/ \E to \in {"error", "done"} : Change([pc |-> to])
    BY <1>7 DEF ReadBody
  <2>2. request.pc = "body" BY <1>7 DEF ReadBody
  <2>3. ASSUME NEW to \in {"error", "done"}, Change([pc |-> to]) PROVE TransportInv'
    BY <1>0, <2>2, <2>3, TransportStays
  <2> QED BY <1>4, <2>1, <2>3
<1> QED
  BY <1>1, <1>2, <1>3, <1>4, <1>5, <1>6, <1>7 DEF TransportNext, ConnectionFails

\* A request has its type.
LEMMA TransportTypes == TransportSpec => []TransportTypeOK
<1>1. TransportInit => TransportInv BY TransportInitInv
<1>2. TransportInv /\ [TransportNext]_request => TransportInv' BY TransportNextInv
<1>3. TransportInv => TransportTypeOK BY DEF TransportInv
<1> QED BY <1>1, <1>2, <1>3, PTL DEF TransportSpec

\* Authorization and cookies reach their own origin only and no request leaves https but between
\* loopback hosts; a chain follows at most RedirectLimit redirects, sends at most one request
\* more and never two to a URL. Whatever servers answer, and whatever the limits.
THEOREM ChainsAreContained == TransportSpec => []ChainIsContained
<1>1. TransportInit => TransportInv BY TransportInitInv
<1>2. TransportInv /\ [TransportNext]_request => TransportInv' BY TransportNextInv
<1>3. TransportInv => HeadersStayHome
  BY DEF TransportInv, WholeHeaders, SafeScheme, HeadersStayHome
<1>4. TransportInv => ChainIsBounded
  <2> SUFFICES ASSUME TransportInv PROVE ChainIsBounded
    OBVIOUS
  <2>1. request.sent \in Nat /\ request.redirects \in Nat /\ RedirectLimit \in Nat
    BY TransportAssumption DEF TransportInv, TransportTypeOK
  <2> QED BY <2>1 DEF TransportInv, Chain, ChainIsBounded
<1> QED BY <1>1, <1>2, <1>3, <1>4, PTL DEF TransportSpec, ChainIsContained

(***************************************************************************)
(* st beside a synchronization: what a row tells of a run was stored       *)
(* before the row, and what is stored only grows, so parts that are read   *)
(* in the other order hold at least what the row tells of.                 *)
(***************************************************************************)

Stamps == 0..MaxSyncs
Boards ==
  [last: Stamps, ended: {"none", "success", "degraded", "failed"}, people: Stamps, items: Stamps,
   failures: 0..CircuitLimit, open: BOOLEAN, legacy: BOOLEAN]

StatusTypes ==
  /\ Status!StatusTypeOK
  /\ people \in Stamps /\ items \in Stamps /\ process \in Stamps /\ since \in Stamps
  /\ board \in Boards /\ inARow \in Nat
  /\ view \in [run: {"none", "running", "complete", "failed"}, board: Boards, people: Stamps, items: Stamps]
  /\ statusStep \in {"idle", "yahoo", "fangraphs", "finish", "board"}
  /\ result \in {"none", "success", "degraded", "failed"}
  /\ reader \in {"idle", "runs", "board", "people", "items", "shown"}

\* Runs are numbered in the order they begin, and what is stored is of one that has begun.
InOrder ==
  /\ \A q, r \in Status!Runs : q < r /\ rows[r] # "none" => rows[q] # "none"
  /\ people > 0 => rows[people] # "none"
  /\ items > 0 => rows[items] # "none"
  /\ statusStep # "idle" =>
       process \in Status!Runs /\ people <= process /\ items <= process /\ file = "ready"
  /\ file # "ready" => people = 0 /\ items = 0 /\ board.people = 0 /\ board.items = 0

\* The row of the run under way, until it has ended.
UnderWay ==
  /\ statusStep \in {"yahoo", "fangraphs", "finish"} => rows[process] = "running" /\ result # "none"
  /\ statusStep = "board" => result # "none" /\ (result # "failed" => rows[process] = "complete")

\* A dashboard that tells of a success, now or when it was read.
EndedComplete(b) == b.ended \in {"success", "degraded"} => b.last > 0 /\ rows[b.last] = "complete"

\* A dashboard tells of nothing that is not stored.
NotAhead(b) == b.people <= people /\ b.items <= items

\* The parts read so far, each at least what the one before it tells of.
ReadSoFar ==
  /\ since <= people /\ NotAhead(view.board)
  /\ reader \in {"items", "shown"} => view.people >= view.board.people /\ view.people >= since
  /\ reader = "shown" => view.items >= view.board.items

\* The failures of the row are those in a row, up to the limit.
FailuresCounted ==
  /\ board.failures = IF inARow < CircuitLimit THEN inARow ELSE CircuitLimit
  /\ Status!OpenAfterLimit

StatusInv ==
  /\ StatusTypes /\ InOrder /\ UnderWay /\ EndedComplete(board) /\ EndedComplete(view.board)
  /\ NotAhead(board) /\ ReadSoFar /\ FailuresCounted

\* A new dashboard is one.
LEMMA NewBoardOK ==
  ASSUME Status!StatusAssumption, NEW failures \in 0..CircuitLimit
  PROVE  LET b == Status!NewBoard(failures)
         IN /\ b \in Boards /\ b.ended = "none" /\ b.people = 0 /\ b.items = 0
            /\ b.failures = failures /\ b.open = (failures >= CircuitLimit)
<1> DEFINE open == failures >= CircuitLimit
           legacy == failures > 0
<1>1. open \in BOOLEAN /\ legacy \in BOOLEAN OBVIOUS
<1>2. Status!NewBoard(failures) =
        [last |-> 0, ended |-> "none", people |-> 0, items |-> 0, failures |-> failures,
         open |-> open, legacy |-> legacy]
  BY DEF Status!NewBoard, Status!NoRun
<1>3. 0 \in Stamps BY DEF Status!StatusAssumption, Stamps
<1> HIDE DEF open, legacy
<1>4. Status!NewBoard(failures) \in Boards BY <1>1, <1>2, <1>3 DEF Boards
<1> QED BY <1>2, <1>4 DEF open

\* The first state, with the failures of a former login or without.
LEMMA StatusInitInv == Status!StatusAssumption /\ Status!StatusInit => StatusInv
<1> SUFFICES ASSUME Status!StatusAssumption, Status!StatusInit PROVE StatusInv
  OBVIOUS
<1>1. PICK failures \in 0..CircuitLimit :
        /\ file = IF failures = 0 THEN "none" ELSE "ready"
        /\ board = Status!NewBoard(failures) /\ inARow = failures
  BY DEF Status!StatusInit
<1>2. /\ board \in Boards /\ board.ended = "none" /\ board.people = 0 /\ board.items = 0
      /\ board.failures = failures /\ board.open = (failures >= CircuitLimit)
  BY <1>1, NewBoardOK
<1>3. /\ CircuitLimit \in Nat \ {0} /\ MaxSyncs \in Nat /\ 0 \in Stamps
  BY DEF Status!StatusAssumption, Stamps
<1>4. view = [run |-> "none", board |-> Status!NewBoard(0), people |-> 0, items |-> 0]
  BY DEF Status!StatusInit, Status!NoView
<1>5. Status!NewBoard(0) \in Boards /\ Status!NewBoard(0).ended = "none"
      /\ Status!NewBoard(0).people = 0 /\ Status!NewBoard(0).items = 0
  BY <1>3, NewBoardOK
<1>6. /\ rows = [r \in Status!Runs |-> "none"] /\ people = 0 /\ items = 0 /\ process = 0
      /\ statusStep = "idle" /\ result = "none" /\ reader = "idle" /\ since = 0
      /\ file \in {"none", "ready"}
  BY <1>1 DEF Status!StatusInit, Status!NoRun
<1>7. StatusTypes
  BY <1>1, <1>2, <1>3, <1>4, <1>5, <1>6 DEF StatusTypes, Status!StatusTypeOK, Status!NoRun
<1>8. InOrder BY <1>2, <1>6 DEF InOrder
<1>9. UnderWay /\ EndedComplete(board) /\ EndedComplete(view.board)
  BY <1>2, <1>4, <1>5, <1>6 DEF UnderWay, EndedComplete
<1>10. NotAhead(board) /\ ReadSoFar
  BY <1>2, <1>4, <1>5, <1>6 DEF NotAhead, ReadSoFar
<1>11. FailuresCounted BY <1>1, <1>2, <1>3 DEF FailuresCounted, Status!OpenAfterLimit
<1> QED BY <1>7, <1>8, <1>9, <1>10, <1>11 DEF StatusInv

\* A step of the synchronization leaves what the command has read as true as it was: what is
\* stored grows, and a complete row stays complete.
LEMMA ReaderUndisturbed ==
  ASSUME StatusInv, UNCHANGED <<reader, view, since>>, people' \in Stamps, items' \in Stamps,
         people' >= people, items' >= items,
         \A r \in Status!Runs : rows[r] = "complete" => rows'[r] = "complete",
         Status!StatusAssumption
  PROVE  EndedComplete(view.board)' /\ ReadSoFar'
<1> USE DEF StatusInv, StatusTypes, Boards, Stamps, Status!StatusAssumption
<1>1. EndedComplete(view.board)'
  <2>1. view.board.last \in 0..MaxSyncs OBVIOUS
  <2> QED BY <2>1 DEF EndedComplete, Status!Runs
<1>2. since \in Nat /\ people \in Nat /\ items \in Nat /\ view.board.people \in Nat
      /\ view.board.items \in Nat /\ people' \in Nat /\ items' \in Nat
  OBVIOUS
<1>3. ReadSoFar' BY <1>2 DEF ReadSoFar, NotAhead
<1> QED BY <1>1, <1>3

\* The database is created, a run begins, and its steps store what they have.
LEMMA StatusRuns ==
  ASSUME Status!StatusAssumption, StatusInv,
         \/ Status!OpenDatabase \/ Status!StartRun \/ Status!SyncYahoo \/ Status!SyncFanGraphs
         \/ Status!FinishRun \/ Status!Die
  PROVE  StatusInv'
<1>0. /\ StatusTypes /\ InOrder /\ UnderWay /\ EndedComplete(board) /\ NotAhead(board)
      /\ FailuresCounted
  BY DEF StatusInv
<1>a. MaxSyncs \in Nat /\ CircuitLimit \in Nat \ {0} BY DEF Status!StatusAssumption
<1>b. UNCHANGED <<reader, view, since>> /\ UNCHANGED <<board, inARow>>
  BY DEF Status!OpenDatabase, Status!StartRun, Status!SyncYahoo, Status!SyncFanGraphs,
         Status!FinishRun, Status!Die, Status!database
<1>c. FailuresCounted' BY <1>0, <1>b DEF FailuresCounted, Status!OpenAfterLimit
<1>d. ASSUME people' \in Stamps, items' \in Stamps, people' >= people, items' >= items,
             \A r \in Status!Runs : rows[r] = "complete" => rows'[r] = "complete"
      PROVE  /\ EndedComplete(view.board)' /\ ReadSoFar' /\ NotAhead(board)'
             /\ EndedComplete(board)'
  <2>1. EndedComplete(view.board)' /\ ReadSoFar' BY <1>b, <1>d, ReaderUndisturbed
  <2>2. /\ board.people \in Nat /\ board.items \in Nat /\ people \in Nat /\ items \in Nat
        /\ people' \in Nat /\ items' \in Nat /\ board.last \in 0..MaxSyncs
    BY <1>0, <1>a, <1>d DEF StatusTypes, Boards, Stamps
  <2>3. NotAhead(board)' BY <1>0, <1>b, <1>d, <2>2 DEF NotAhead
  <2>4. EndedComplete(board)' BY <1>0, <1>b, <1>d, <2>2 DEF EndedComplete, Status!Runs
  <2> QED BY <2>1, <2>3, <2>4
<1> USE DEF StatusTypes, Status!StatusTypeOK, Stamps, Status!Runs, Status!NoRun
<1>1. CASE Status!OpenDatabase
  <2>1. StatusTypes' /\ InOrder' /\ UnderWay'
    BY <1>0, <1>1, <1>b DEF Status!OpenDatabase, InOrder, UnderWay, Status!writer
  <2>2. UNCHANGED <<people, items, rows>> BY <1>1 DEF Status!OpenDatabase
  <2>3. /\ EndedComplete(view.board)' /\ ReadSoFar' /\ NotAhead(board)' /\ EndedComplete(board)'
    BY <1>0, <1>a, <1>d, <2>2
  <2> QED BY <1>c, <2>1, <2>3 DEF StatusInv
<1>2. CASE Status!StartRun
  <2>1. PICK r \in Status!Runs :
          /\ rows[r] = "none" /\ \A q \in Status!Runs : q < r => rows[q] # "none"
          /\ rows' = [rows EXCEPT ![r] = "running"] /\ process' = r
    BY <1>2 DEF Status!StartRun
  <2>2. /\ statusStep' = "yahoo" /\ result' = "failed" /\ file = "ready" /\ file' = file
        /\ UNCHANGED <<people, items>>
    BY <1>2 DEF Status!StartRun
  <2>3. people <= r /\ items <= r
    BY <1>0, <1>a, <2>1 DEF InOrder
  <2>4. StatusTypes' BY <1>0, <1>b, <2>1, <2>2
  <2>5. InOrder' BY <1>0, <1>a, <1>b, <2>1, <2>2, <2>3 DEF InOrder
  <2>6. UnderWay' BY <1>0, <2>1, <2>2 DEF UnderWay
  <2>7. /\ EndedComplete(view.board)' /\ ReadSoFar' /\ NotAhead(board)' /\ EndedComplete(board)'
    BY <1>0, <1>a, <1>d, <2>1, <2>2
  <2> QED BY <1>c, <2>4, <2>5, <2>6, <2>7 DEF StatusInv
<1>3. CASE Status!SyncYahoo
  <2>1. /\ statusStep = "yahoo" /\ statusStep' = "fangraphs"
        /\ people' \in {people, process} /\ result' \in {result, "success"}
        /\ UNCHANGED <<file, rows, items, process>>
    BY <1>3 DEF Status!SyncYahoo
  <2>2. process \in Status!Runs /\ people <= process /\ items <= process /\ file = "ready"
    BY <1>0, <2>1 DEF InOrder
  <2>3. StatusTypes' BY <1>0, <1>a, <1>b, <2>1, <2>2
  <2>4. InOrder' BY <1>0, <1>a, <1>b, <2>1, <2>2 DEF InOrder, UnderWay
  <2>5. UnderWay' BY <1>0, <2>1 DEF UnderWay
  <2>6. /\ EndedComplete(view.board)' /\ ReadSoFar' /\ NotAhead(board)' /\ EndedComplete(board)'
    BY <1>0, <1>a, <1>d, <2>1, <2>2
  <2> QED BY <1>c, <2>3, <2>4, <2>5, <2>6 DEF StatusInv
<1>4. CASE Status!SyncFanGraphs
  <2>1. /\ statusStep = "fangraphs" /\ statusStep' = "finish"
        /\ items' \in {items, process} /\ result' \in {"success", "degraded", "failed"}
        /\ UNCHANGED <<file, rows, people, process>>
    BY <1>4 DEF Status!SyncFanGraphs, Status!Improved, Status!Worsened
  <2>2. process \in Status!Runs /\ people <= process /\ items <= process /\ file = "ready"
    BY <1>0, <2>1 DEF InOrder
  <2>3. StatusTypes' BY <1>0, <1>a, <1>b, <2>1, <2>2
  <2>4. InOrder' BY <1>0, <1>a, <1>b, <2>1, <2>2 DEF InOrder, UnderWay
  <2>5. UnderWay' BY <1>0, <2>1 DEF UnderWay
  <2>6. /\ EndedComplete(view.board)' /\ ReadSoFar' /\ NotAhead(board)' /\ EndedComplete(board)'
    BY <1>0, <1>a, <1>d, <2>1, <2>2
  <2> QED BY <1>c, <2>3, <2>4, <2>5, <2>6 DEF StatusInv
<1>5. CASE Status!FinishRun
  <2>1. /\ statusStep = "finish" /\ statusStep' = "board"
        /\ UNCHANGED <<file, people, items, process, result>>
    BY <1>5 DEF Status!FinishRun
  <2>2. /\ process \in Status!Runs /\ rows[process] = "running" /\ result # "none"
    BY <1>0, <2>1 DEF InOrder, UnderWay
  <2>3. \/ result # "failed" /\ rows' = [rows EXCEPT ![process] = "complete"]
        \/ result = "failed" /\ (rows' = rows \/ rows' = [rows EXCEPT ![process] = "failed"])
    BY <1>5 DEF Status!FinishRun
  <2>4. StatusTypes' BY <1>0, <1>b, <2>1, <2>2, <2>3
  <2>5. InOrder' BY <1>0, <1>a, <1>b, <2>1, <2>2, <2>3 DEF InOrder
  <2>6. UnderWay' BY <1>0, <2>1, <2>2, <2>3 DEF UnderWay
  <2>7. /\ EndedComplete(view.board)' /\ ReadSoFar' /\ NotAhead(board)' /\ EndedComplete(board)'
    BY <1>0, <1>a, <1>d, <2>1, <2>2, <2>3
  <2> QED BY <1>c, <2>4, <2>5, <2>6, <2>7 DEF StatusInv
<1>6. CASE Status!Die
  <2>1. /\ statusStep' = "idle" /\ result' = "none" /\ process' = 0
        /\ UNCHANGED <<file, rows, people, items>>
    BY <1>6 DEF Status!Die, Status!database
  <2>2. StatusTypes' BY <1>0, <1>a, <1>b, <2>1
  <2>3. InOrder' /\ UnderWay' BY <1>0, <1>b, <2>1 DEF InOrder, UnderWay
  <2>4. /\ EndedComplete(view.board)' /\ ReadSoFar' /\ NotAhead(board)' /\ EndedComplete(board)'
    BY <1>0, <1>a, <1>d, <2>1
  <2> QED BY <1>c, <2>2, <2>3, <2>4 DEF StatusInv
<1> QED BY <1>1, <1>2, <1>3, <1>4, <1>5, <1>6

\* The dashboard's row is written when the run has ended.
LEMMA StatusRecords ==
  ASSUME Status!StatusAssumption, StatusInv, Status!RecordOutcome
  PROVE  StatusInv'
<1>0. /\ StatusTypes /\ InOrder /\ UnderWay /\ FailuresCounted
      /\ MaxSyncs \in Nat /\ CircuitLimit \in Nat \ {0}
  BY DEF StatusInv, Status!StatusAssumption
<1>1. /\ statusStep = "board" /\ statusStep' = "idle" /\ process' = 0 /\ result' = "none"
      /\ UNCHANGED <<file, rows, people, items, reader, view, since>>
  BY DEF Status!RecordOutcome, Status!NoRun
<1>2. /\ process \in Status!Runs /\ process \in Stamps
      /\ result # "failed" => rows[process] = "complete" /\ result \in {"success", "degraded"}
  BY <1>0, <1>1 DEF InOrder, UnderWay, StatusTypes
<1>3. /\ people \in Stamps /\ items \in Stamps /\ board.failures \in 0..CircuitLimit /\ inARow \in Nat
  BY <1>0 DEF StatusTypes, Boards
<1>4. /\ board' \in Boards /\ inARow' \in Nat
      /\ board'.last = process /\ board'.people = people /\ board'.items = items
      /\ board'.ended \in {"success", "degraded"} => rows[process] = "complete"
      /\ board'.failures = (IF inARow' < CircuitLimit THEN inARow' ELSE CircuitLimit)
      /\ board'.open = (inARow' >= CircuitLimit)
  <2>1. CASE result = "failed"
    <3> DEFINE open == board.failures + 1 >= CircuitLimit
               failures == IF board.failures < CircuitLimit THEN board.failures + 1 ELSE CircuitLimit
    <3>1. open \in BOOLEAN /\ failures \in 0..CircuitLimit BY <1>0, <1>3
    <3>2. inARow' = inARow + 1 /\
          board' = [last |-> process, ended |-> "failed", people |-> people, items |-> items,
                    failures |-> failures, open |-> open, legacy |-> FALSE]
      BY <2>1 DEF Status!RecordOutcome, Status!ProviderFailure
    <3>3. board.failures = (IF inARow < CircuitLimit THEN inARow ELSE CircuitLimit)
      BY <1>0 DEF FailuresCounted
    <3>4. /\ failures = (IF inARow + 1 < CircuitLimit THEN inARow + 1 ELSE CircuitLimit)
          /\ open <=> inARow + 1 >= CircuitLimit
      BY <1>0, <1>3, <3>3
    <3>5. open = (inARow + 1 >= CircuitLimit) BY <3>1, <3>4
    <3> HIDE DEF open, failures
    <3>6. board' \in Boards BY <1>2, <1>3, <3>1, <3>2 DEF Boards
    <3> QED BY <1>3, <3>2, <3>4, <3>5, <3>6
  <2>2. CASE result # "failed"
    <3> DEFINE blank == Status!NewBoard(0)
    <3>1. blank \in Boards /\ blank.failures = 0 /\ blank.open = (0 >= CircuitLimit)
      BY <1>0, NewBoardOK
    <3>2. inARow' = 0 /\ board' = [blank EXCEPT !.last = process, !.ended = result,
                                                !.people = people, !.items = items]
      BY <2>2 DEF Status!RecordOutcome, Status!ProviderSuccess
    <3> HIDE DEF blank
    <3>3. board' \in Boards BY <1>2, <1>3, <2>2, <3>1, <3>2 DEF Boards
    <3>4. board'.failures = 0 /\ board'.open = (0 >= CircuitLimit)
      BY <3>1, <3>2 DEF Boards
    <3>5. board'.last = process /\ board'.people = people /\ board'.items = items
          /\ board'.ended = result
      BY <3>1, <3>2 DEF Boards
    <3> QED BY <1>0, <1>2, <2>2, <3>2, <3>3, <3>4, <3>5
  <2> QED BY <2>1, <2>2
<1>5. StatusTypes'
  BY <1>0, <1>1, <1>4 DEF StatusTypes, Status!StatusTypeOK, Status!NoRun, Boards, Stamps
<1>6. InOrder' /\ UnderWay' BY <1>0, <1>1, <1>4 DEF InOrder, UnderWay
<1>7. EndedComplete(board)' BY <1>1, <1>2, <1>4 DEF EndedComplete, Status!Runs
<1>8. NotAhead(board)' BY <1>1, <1>3, <1>4 DEF NotAhead, Stamps
<1>9. EndedComplete(view.board)' /\ ReadSoFar'
  BY <1>1, <1>3, ReaderUndisturbed DEF Stamps
<1>10. FailuresCounted' BY <1>4 DEF FailuresCounted, Status!OpenAfterLimit
<1> QED BY <1>5, <1>6, <1>7, <1>8, <1>9, <1>10 DEF StatusInv

\* The latest row, if there is any, has a status of its own.
LEMMA LatestOK ==
  ASSUME Status!StatusAssumption, StatusTypes
  PROVE  Status!Latest \in {"none", "running", "complete", "failed"}
<1> DEFINE begun == {r \in Status!Runs : rows[r] # "none"}
           left == {MaxSyncs - r : r \in begun}
<1>1. MaxSyncs \in Nat \ {0} BY DEF Status!StatusAssumption
<1>2. CASE rows[1] = "none" BY <1>2 DEF Status!Latest
<1>3. CASE rows[1] # "none"
  <2>1. left \in SUBSET Nat /\ left # {} BY <1>1, <1>3 DEF Status!Runs
  <2>2. IsWellFoundedOn(OpToRel(<, Nat), Nat) BY NatLessThanWellFounded
  <2>3. PICK x \in left : \A y \in left : ~(<<y, x>> \in OpToRel(<, Nat))
    BY <2>1, <2>2, WFMin
  <2>4. PICK r \in begun : x = MaxSyncs - r BY <2>3
  <2>5. \A q \in begun : q <= r
    <3> SUFFICES ASSUME NEW q \in begun, q > r PROVE FALSE
      BY DEF Status!Runs
    <3>1. MaxSyncs - q \in left /\ MaxSyncs - q < x /\ MaxSyncs - q \in Nat /\ x \in Nat
      BY <1>1, <2>4 DEF Status!Runs
    <3> QED BY <2>3, <3>1 DEF OpToRel
  <2>6. \E q \in Status!Runs : rows[q] # "none" /\ \A s \in Status!Runs : s > q => rows[s] = "none"
    BY <2>5 DEF Status!Runs
  <2>7. \E q \in Status!Runs : Status!Latest = rows[q]
    BY <1>3, <2>6 DEF Status!Latest
  <2> QED BY <2>7 DEF StatusTypes, Status!StatusTypeOK
<1> QED BY <1>2, <1>3

\* The command reads one part after the other.
LEMMA StatusReads ==
  ASSUME Status!StatusAssumption, StatusInv,
         \/ Status!Inspect \/ Status!ReadRuns \/ Status!ReadBoard
         \/ Status!ReadPeople \/ Status!ReadItems
  PROVE  StatusInv'
<1>0. /\ StatusTypes /\ InOrder /\ UnderWay /\ EndedComplete(board) /\ EndedComplete(view.board)
      /\ NotAhead(board) /\ ReadSoFar /\ FailuresCounted /\ MaxSyncs \in Nat
  BY DEF StatusInv, Status!StatusAssumption
<1>1. UNCHANGED <<file, rows, people, items, board, process, statusStep, result, inARow>>
  BY DEF Status!Inspect, Status!ReadRuns, Status!ReadBoard, Status!ReadPeople, Status!ReadItems,
         Status!Read, Status!database, Status!writer
<1>2. InOrder' /\ UnderWay' /\ EndedComplete(board)' /\ NotAhead(board)' /\ FailuresCounted'
  BY <1>0, <1>1 DEF InOrder, UnderWay, EndedComplete, NotAhead, FailuresCounted,
                    Status!OpenAfterLimit
<1>3. /\ people \in Nat /\ items \in Nat /\ since \in Nat
      /\ view \in [run: {"none", "running", "complete", "failed"}, board: Boards,
                   people: Stamps, items: Stamps]
      /\ view.board \in Boards /\ view.people \in Nat /\ view.items \in Nat
      /\ view.board.people \in Nat /\ view.board.items \in Nat /\ board \in Boards
      /\ people \in Stamps /\ items \in Stamps
  BY <1>0 DEF StatusTypes, Stamps, Boards
<1>4. /\ view' \in [run: {"none", "running", "complete", "failed"}, board: Boards,
                    people: Stamps, items: Stamps]
      /\ since' \in Stamps /\ reader' \in {"runs", "board", "people", "items", "shown"}
      /\ EndedComplete(view.board)' /\ ReadSoFar'
  <2>1. CASE Status!Inspect
    <3>1. /\ Status!NewBoard(0) \in Boards /\ Status!NewBoard(0).ended = "none"
          /\ Status!NewBoard(0).people = 0 /\ Status!NewBoard(0).items = 0
      BY NewBoardOK DEF Status!StatusAssumption
    <3>2. /\ view' = [run |-> "none", board |-> Status!NewBoard(0), people |-> 0, items |-> 0]
          /\ since' = people /\ reader' = IF file = "none" THEN "shown" ELSE "runs"
      BY <2>1 DEF Status!Inspect, Status!NoView
    <3>3. 0 \in Stamps BY <1>0 DEF Stamps
    <3>4. file = "none" => people = 0 BY <1>0 DEF InOrder
    <3> QED BY <1>1, <1>3, <3>1, <3>2, <3>3, <3>4 DEF EndedComplete, ReadSoFar, NotAhead
  <2>2. CASE Status!ReadRuns
    <3>1. Status!Latest \in {"none", "running", "complete", "failed"}
      BY <1>0, LatestOK
    <3> QED BY <1>0, <1>1, <1>3, <2>2, <3>1
            DEF Status!ReadRuns, Status!Read, EndedComplete, ReadSoFar, NotAhead, StatusTypes
  <2>3. CASE Status!ReadBoard
    <3>1. /\ reader' = "people" /\ view' = [view EXCEPT !.board = board] /\ since' = since
      BY <2>3 DEF Status!ReadBoard, Status!Read
    <3>2. /\ view'.board = board /\ view'.people = view.people /\ view'.items = view.items
          /\ view' \in [run: {"none", "running", "complete", "failed"}, board: Boards,
                        people: Stamps, items: Stamps]
      BY <1>3, <3>1
    <3> QED BY <1>0, <1>1, <3>1, <3>2 DEF EndedComplete, ReadSoFar, NotAhead, StatusTypes
  <2>4. CASE Status!ReadPeople
    <3>1. /\ reader' = "items" /\ view' = [view EXCEPT !.people = people] /\ since' = since
      BY <2>4 DEF Status!ReadPeople, Status!Read
    <3>2. /\ view'.board = view.board /\ view'.people = people /\ view'.items = view.items
          /\ view' \in [run: {"none", "running", "complete", "failed"}, board: Boards,
                        people: Stamps, items: Stamps]
      BY <1>3, <3>1
    <3> QED BY <1>0, <1>1, <3>1, <3>2 DEF EndedComplete, ReadSoFar, NotAhead, StatusTypes
  <2>5. CASE Status!ReadItems
    <3>1. /\ reader = "items" /\ reader' = "shown" /\ view' = [view EXCEPT !.items = items]
          /\ since' = since
      BY <2>5 DEF Status!ReadItems, Status!Read
    <3>2. /\ view'.board = view.board /\ view'.people = view.people /\ view'.items = items
          /\ view' \in [run: {"none", "running", "complete", "failed"}, board: Boards,
                        people: Stamps, items: Stamps]
      BY <1>3, <3>1
    <3> QED BY <1>0, <1>1, <3>1, <3>2 DEF EndedComplete, ReadSoFar, NotAhead, StatusTypes
  <2> QED BY <2>1, <2>2, <2>3, <2>4, <2>5
<1>5. StatusTypes' BY <1>0, <1>1, <1>4 DEF StatusTypes, Status!StatusTypeOK
<1> QED BY <1>2, <1>4, <1>5 DEF StatusInv

\* Every step keeps the invariant.
LEMMA StatusNextInv ==
  ASSUME Status!StatusAssumption, StatusInv, [Status!StatusNext]_(Status!statusVars)
  PROVE  StatusInv'
<1>1. CASE UNCHANGED Status!statusVars
  BY <1>1 DEF Status!statusVars, Status!database, Status!writer, StatusInv, StatusTypes,
     Status!StatusTypeOK, InOrder, UnderWay, EndedComplete, NotAhead, ReadSoFar,
     FailuresCounted, Status!OpenAfterLimit
<1> QED BY <1>1, StatusRuns, StatusRecords, StatusReads DEF Status!StatusNext

\* What st shows beside a run was committed with it or later, the last run has ended and the
\* circuit is open for the failures on record, wherever a synchronization commits or dies
\* between the statements, for any number of runs and any limit of failures.
LEMMA StatusShown == Status!StatusSpec => [](Status!StatusTypeOK /\ Status!StatusIsTrue)
<1>0. Status!StatusAssumption BY ServicesAssumption
<1>1. Status!StatusInit => StatusInv BY <1>0, StatusInitInv
<1>2. StatusInv /\ [Status!StatusNext]_(Status!statusVars) => StatusInv' BY <1>0, StatusNextInv
<1>3. StatusInv => Status!ShownRunIsCounted
  BY DEF StatusInv, ReadSoFar, Status!ShownRunIsCounted
<1>4. StatusInv => Status!LastRunHasEnded
  BY DEF StatusInv, StatusTypes, Boards, EndedComplete, Status!LastRunHasEnded, Status!LastRun
<1>5. StatusInv => Status!OpenAfterLimit /\ Status!StatusTypeOK
  BY DEF StatusInv, StatusTypes, FailuresCounted
<1> QED BY <1>1, <1>2, <1>3, <1>4, <1>5, PTL DEF Status!StatusSpec, Status!StatusIsTrue

(***************************************************************************)
(* Stored matchups. A week before the stored current one has ended, and    *)
(* its rows were stored after that: by the synchronization that stored the *)
(* week, or since. So a command may prefer them whatever their age; what   *)
(* it takes otherwise it has just fetched, or it is young, or marked.      *)
(***************************************************************************)

Rows == [at: Nat, stale: BOOLEAN, version: {"v1", "v2"}]
Parts == [week: 1..Weeks, at: Nat] \cup {None}
Commands ==
  [kind: Matchups!Kinds, week: 1..Weeks, prefer: BOOLEAN, archive: BOOLEAN, frozen: BOOLEAN,
   begun: Nat,
   at: {"done", "feed", "feed roster", "overlay", "slots", "resolve", "pairing", "roster"},
   phase: {"read", "fetch", "reread"}, pairing: Parts, roster: Parts, stale: BOOLEAN,
   result: {"none", "view", "local", "error"}]

\* Time, weeks and the league.
WorldTypes ==
  /\ clock \in Nat /\ ends \in Seq(Nat) /\ Len(ends) <= Weeks
  /\ \A w \in 1..Len(ends) : ends[w] <= clock
  /\ past \in BOOLEAN /\ archived \in BOOLEAN
  /\ sync \in [week: 1..Weeks, since: Nat] \cup {None}
  /\ current \in 1..Weeks \cup {None}

\* What is stored.
RowTypes ==
  /\ own \in [Matchups!Items -> [1..Weeks -> Rows \cup {None}]]
  /\ feed \in [pairing: Parts, roster: [1..Weeks -> [at: Nat] \cup {None}]]

\* Weeks before the one that is stored, or that a synchronization was told, have ended, and
\* that one has not ended more than once since it was told.
WeeksBefore ==
  /\ current # None => current <= Len(ends) + 1
  /\ sync # None =>
       /\ ~archived /\ sync.week <= Len(ends) + 1 /\ Len(ends) <= sync.week
       /\ current # None => current <= sync.week
       /\ sync.since = clock => sync.week = Matchups!YahooWeek
  /\ archived => Len(ends) = Weeks

\* Can nothing of week w change any more, as far as the database tells?
Over(w) == archived \/ (current # None /\ w < current)

\* What is stored of a week that is over is final.
OverIsFinal ==
  \A item \in {"pairing", "roster"}, w \in 1..Weeks :
    own[item][w] # None /\ Over(w) => Matchups!IsFinal(w, own[item][w].at)

\* A part of a view that needs no mark.
Fine(c, piece) ==
  piece # None => \/ ~c.archive /\ c.begun - piece.at <= Window
                 \/ Matchups!IsFinal(piece.week, piece.at)

Unmarked(c) == c.kind # "r" /\ (c.archive => c.frozen) /\ (~c.stale \/ c.archive)
PartsFine(c) == Unmarked(c) => Fine(c, c.pairing) /\ (c.kind # "m day" => Fine(c, c.roster))

\* Where a command is, and why it prefers snapshots.
Underway(c) ==
  c.at # "done" =>
    /\ c.begun = clock /\ (c.frozen => archived) /\ current # None
    /\ c.week <= current \/ c.kind = "rt"
    /\ c.archive => c.kind \in {"m week", "mm", "rt"}
    /\ c.at \in {"feed", "feed roster", "overlay"} => c.kind = "m now"
    /\ c.at = "slots" => c.kind = "r"
    /\ c.at = "resolve" => c.kind = "m day"
    /\ c.at = "pairing" => c.kind \in {"m week", "m day", "mm", "rt"}
    /\ c.at = "roster" => c.kind \in {"m week", "m day"}
    /\ c.prefer => c.archive \/ c.week < current \/ (c.kind = "m day" /\ c.at # "resolve")

\* The pairing of the week a day was found in, or could not be looked for in: it was fetched
\* for that, or marked, or is final.
Resolved(c, stored) ==
  c.kind = "m day" /\ (c.at = "pairing" \/ (c.at = "resolve" /\ c.phase = "reread")) =>
    LET held == stored["pairing"][c.week]
    IN held # None =>
         held.stale \/ c.begun - held.at <= Window \/ Matchups!IsFinal(c.week, held.at)

CommandInv == cmd \in Commands /\ PartsFine(cmd) /\ Underway(cmd) /\ Resolved(cmd, own)

MatchupsInv == WorldTypes /\ RowTypes /\ WeeksBefore /\ OverIsFinal /\ CommandInv

\* Nothing is stored before the first synchronization, and no command can run.
LEMMA MatchupsInitInv ==
  Matchups!StoredMatchupsAssumption /\ Matchups!MatchupsInit => MatchupsInv
<1> SUFFICES ASSUME Matchups!StoredMatchupsAssumption, Matchups!MatchupsInit PROVE MatchupsInv
  OBVIOUS
<1>1. /\ clock = 1 /\ ends = <<>> /\ past = FALSE /\ archived = FALSE /\ sync = None /\ current = None
      /\ own = [i \in Matchups!Items |-> [w \in 1..Weeks |-> None]]
      /\ feed = [pairing |-> None, roster |-> [w \in 1..Weeks |-> None]]
      /\ cmd = [kind |-> "r", week |-> 1, prefer |-> FALSE, archive |-> FALSE, frozen |-> FALSE,
                begun |-> 0, at |-> "done", phase |-> "read", pairing |-> None, roster |-> None,
                stale |-> FALSE, result |-> "none"]
  BY DEF Matchups!MatchupsInit, Matchups!NoCommand
<1>2. 1 \in 1..Weeks /\ Weeks \in Nat BY DEF Matchups!StoredMatchupsAssumption
<1>3. WorldTypes
  <2>1. ends \in Seq(Nat) /\ Len(ends) = 0
    BY <1>1, <<>> \in Seq(Nat), Len(<<>>) = 0
  <2>2. \A w \in 1..Len(ends) : ends[w] <= clock BY <2>1
  <2>3. Len(ends) <= Weeks BY <1>2, <2>1
  <2>4. /\ clock \in Nat /\ past \in BOOLEAN /\ archived \in BOOLEAN
        /\ sync \in [week: 1..Weeks, since: Nat] \cup {None} /\ current \in 1..Weeks \cup {None}
    BY <1>1
  <2> QED BY <2>1, <2>2, <2>3, <2>4 DEF WorldTypes
<1>4. RowTypes BY <1>1 DEF RowTypes, Parts
<1>5. WeeksBefore BY <1>1 DEF WeeksBefore
<1>6. OverIsFinal BY <1>1 DEF OverIsFinal, Over
<1>7. cmd \in Commands BY <1>1, <1>2 DEF Commands, Parts, Matchups!Kinds
<1>8. PartsFine(cmd) /\ Underway(cmd) /\ Resolved(cmd, own)
  BY <1>1 DEF PartsFine, Unmarked, Underway, Resolved
<1> QED BY <1>3, <1>4, <1>5, <1>6, <1>7, <1>8 DEF MatchupsInv, CommandInv

\* What is final stays so, however many weeks end later.
LEMMA FinalStays ==
  ASSUME WorldTypes, NEW w \in 1..Weeks, NEW at \in Nat, Matchups!IsFinal(w, at),
         ends' = ends \/ (clock' \in Nat /\ ends' = Append(ends, clock'))
  PROVE  Matchups!IsFinal(w, at)'
<1>1. w <= Len(ends) /\ ends[w] <= at /\ ends \in Seq(Nat) /\ Len(ends) \in Nat
  BY DEF WorldTypes, Matchups!IsFinal
<1>2. w <= Len(ends') /\ ends'[w] = ends[w]
  <2>1. CASE ends' = ends BY <1>1, <2>1
  <2>2. CASE clock' \in Nat /\ ends' = Append(ends, clock')
    <3>1. Len(ends') = Len(ends) + 1 /\ ends'[w] = ends[w] BY <1>1, <2>2
    <3> QED BY <1>1, <3>1
  <2> QED BY <2>1, <2>2
<1> QED BY <1>1, <1>2 DEF Matchups!IsFinal

\* What a command has, and where it is, does not depend on what goes on around it.
LEMMA CommandStays ==
  ASSUME MatchupsInv, cmd' = cmd,
         ends' = ends \/ (clock' \in Nat /\ ends' = Append(ends, clock')),
         cmd.at # "done" => /\ clock' = clock /\ (archived => archived')
                            /\ current' # None /\ (current # None => current <= current')
                            /\ Weeks \in Nat /\ current \in 1..Weeks /\ current' \in 1..Weeks
  PROVE  PartsFine(cmd)' /\ Underway(cmd)'
<1>1. PartsFine(cmd)'
  <2>1. WorldTypes /\ cmd \in Commands /\ PartsFine(cmd) BY DEF MatchupsInv, CommandInv
  <2>2. ASSUME NEW piece \in Parts, piece # None, Matchups!IsFinal(piece.week, piece.at)
        PROVE  Matchups!IsFinal(piece.week, piece.at)'
    BY <2>1, <2>2, FinalStays DEF Parts
  <2>3. cmd.pairing \in Parts /\ cmd.roster \in Parts BY <2>1 DEF Commands
  <2> QED BY <2>1, <2>2, <2>3 DEF PartsFine, Unmarked, Fine
<1>2. Underway(cmd)'
  <2>1. Underway(cmd) /\ cmd.week \in 1..Weeks BY DEF MatchupsInv, CommandInv, Commands
  <2>3. CASE cmd.at = "done" BY <2>3 DEF Underway
  <2> SUFFICES ASSUME cmd.at # "done" PROVE Underway(cmd)'
    BY <2>3
  <2>2. clock' = clock /\ (archived => archived') /\ current' # None OBVIOUS
  <2>2a. current # None /\ (cmd.week <= current \/ cmd.kind = "rt") BY <2>1 DEF Underway
  <2>2b. /\ cmd.week <= current' \/ cmd.kind = "rt"
         /\ cmd.week < current => cmd.week < current'
    BY <2>1, <2>2a
  <2>4. /\ cmd.begun = clock' /\ (cmd.frozen => archived') /\ current' # None
        /\ cmd.week <= current' \/ cmd.kind = "rt"
        /\ cmd.prefer => cmd.archive \/ cmd.week < current' \/ (cmd.kind = "m day" /\ cmd.at # "resolve")
    BY <2>1, <2>2, <2>2a, <2>2b DEF Underway
  <2>5. cmd' = cmd OBVIOUS
  <2> QED BY ONLY <2>1, <2>4, <2>5 DEF Underway
<1> QED BY <1>1, <1>2

\* Time passes between two commands, and once at most within a synchronization.
LEMMA TickInv == ASSUME MatchupsInv, Matchups!StoredMatchupsAssumption, Matchups!MatchupsTick PROVE MatchupsInv'
<1>1. /\ cmd.at = "done" /\ clock' = clock + 1 /\ (sync # None => sync.since = clock)
      /\ ends' = ends \/ (Len(ends) # Weeks /\ ends' = Append(ends, clock + 1))
      /\ UNCHANGED <<past, archived, sync, current, own, feed, cmd, commands>>
  BY DEF Matchups!MatchupsTick, Matchups!SeasonOver
<1>2. WorldTypes /\ Weeks \in Nat \ {0} /\ clock \in Nat /\ clock' \in Nat
  BY <1>1 DEF MatchupsInv, WorldTypes, Matchups!StoredMatchupsAssumption
<1>3. /\ ends' \in Seq(Nat) /\ Len(ends') <= Weeks /\ Len(ends) <= Len(ends')
      /\ Len(ends') <= Len(ends) + 1 /\ Len(ends) \in Nat /\ Len(ends') \in Nat
      /\ \A w \in 1..Len(ends') : ends'[w] <= clock'
  <2>1. /\ ends \in Seq(Nat) /\ Len(ends) \in Nat /\ Len(ends) <= Weeks
        /\ \A w \in 1..Len(ends) : ends[w] <= clock /\ ends[w] \in Nat
    BY <1>2 DEF WorldTypes
  <2>2. CASE ends' = ends BY <1>1, <1>2, <2>1, <2>2
  <2>3. CASE Len(ends) # Weeks /\ ends' = Append(ends, clock + 1)
    <3>1. /\ ends' \in Seq(Nat) /\ Len(ends') = Len(ends) + 1
          /\ \A w \in 1..Len(ends') : ends'[w] = IF w <= Len(ends) THEN ends[w] ELSE clock + 1
      BY <1>2, <2>1, <2>3
    <3>2. \A w \in 1..Len(ends') : ends'[w] <= clock'
      BY <1>1, <1>2, <2>1, <3>1
    <3> QED BY <1>2, <2>1, <2>3, <3>1, <3>2
  <2> QED BY <1>1, <2>2, <2>3
<1>4. WorldTypes' BY <1>1, <1>2, <1>3 DEF WorldTypes
<1>5. RowTypes' BY <1>1 DEF MatchupsInv, RowTypes
<1>6. WeeksBefore'
  <2>1. sync # None => sync.week \in 1..Weeks /\ Len(ends') <= sync.week /\ sync.week <= Len(ends') + 1
    BY <1>1, <1>2, <1>3 DEF MatchupsInv, WeeksBefore, WorldTypes, Matchups!YahooWeek
  <2>2. sync # None => sync.since # clock' BY <1>1, <1>2
  <2>3. current # None => current \in 1..Weeks BY <1>2 DEF WorldTypes
  <2> QED BY <1>1, <1>2, <1>3, <2>1, <2>2, <2>3 DEF MatchupsInv, WeeksBefore
<1>7. OverIsFinal'
  <2> SUFFICES ASSUME NEW item \in {"pairing", "roster"}, NEW w \in 1..Weeks,
                      own[item][w] # None, Over(w)
               PROVE  Matchups!IsFinal(w, own[item][w].at)'
    BY <1>1 DEF OverIsFinal, Over
  <2>1. own[item][w] \in Rows BY DEF MatchupsInv, RowTypes, Matchups!Items
  <2>2. own[item][w].at \in Nat /\ Matchups!IsFinal(w, own[item][w].at)
    BY <2>1 DEF MatchupsInv, OverIsFinal, Rows
  <2>3. own' = own BY <1>1
  <2> QED BY <1>1, <1>2, <2>2, <2>3, FinalStays
<1>8. cmd' \in Commands BY <1>1 DEF MatchupsInv, CommandInv
<1>9. PartsFine(cmd)' /\ Underway(cmd)' BY <1>1, <1>2, CommandStays
<1>10. Resolved(cmd, own)' BY <1>1 DEF Resolved
<1> QED BY <1>4, <1>5, <1>6, <1>7, <1>8, <1>9, <1>10 DEF MatchupsInv, CommandInv

\* Another league is selected, a synchronization reads the settings, or it fails.
LEMMA SyncBeginsInv ==
  ASSUME MatchupsInv, Matchups!StoredMatchupsAssumption,
         Matchups!SelectAnotherLeague \/ Matchups!SyncReadsSettings \/ Matchups!SyncFails
  PROVE  MatchupsInv'
<1>1. UNCHANGED <<clock, ends, archived, current, own, feed, cmd>>
  BY DEF Matchups!SelectAnotherLeague, Matchups!SyncReadsSettings, Matchups!SyncFails, Matchups!world
<1>2. \/ past' = TRUE /\ UNCHANGED sync
      \/ sync' = None /\ UNCHANGED past
      \/ ~archived /\ sync' = [week |-> Matchups!YahooWeek, since |-> clock] /\ UNCHANGED past
  BY DEF Matchups!SelectAnotherLeague, Matchups!SyncReadsSettings, Matchups!SyncFails, Matchups!world
<1>3. WorldTypes /\ Weeks \in Nat \ {0} /\ clock \in Nat /\ Len(ends) \in Nat
  BY DEF MatchupsInv, WorldTypes, Matchups!StoredMatchupsAssumption
<1>4. /\ Matchups!YahooWeek \in 1..Weeks /\ Matchups!YahooWeek <= Len(ends) + 1
      /\ Len(ends) <= Matchups!YahooWeek
      /\ current # None => current <= Matchups!YahooWeek
  BY <1>3 DEF Matchups!YahooWeek, MatchupsInv, WeeksBefore, WorldTypes
<1>5. WorldTypes'
  <2>1. sync' \in [week: 1..Weeks, since: Nat] \cup {None}
    <3>1. CASE sync' = [week |-> Matchups!YahooWeek, since |-> clock] BY <1>3, <1>4, <3>1
    <3>2. CASE sync' = None BY <3>2
    <3>3. CASE UNCHANGED sync BY <1>3, <3>3 DEF WorldTypes
    <3> QED BY <1>2, <1>3, <3>1, <3>2, <3>3 DEF WorldTypes
  <2>2. past' \in BOOLEAN BY <1>2, <1>3 DEF WorldTypes
  <2> QED BY <1>1, <1>3, <2>1, <2>2 DEF WorldTypes
<1>6. RowTypes' /\ OverIsFinal'
  BY <1>1 DEF MatchupsInv, RowTypes, OverIsFinal, Over, Matchups!IsFinal
<1>7. WeeksBefore'
  BY <1>1, <1>2, <1>3, <1>4 DEF MatchupsInv, WeeksBefore, Matchups!YahooWeek
<1>8. CommandInv'
  BY <1>1 DEF MatchupsInv, CommandInv, PartsFine, Unmarked, Fine, Underway, Resolved, Matchups!IsFinal
<1> QED BY <1>5, <1>6, <1>7, <1>8 DEF MatchupsInv

\* The history of a synchronization: every week so far, with the time it is stored at.
LEMMA SyncStoresInv ==
  ASSUME MatchupsInv, Matchups!StoredMatchupsAssumption, Matchups!SyncStores PROVE MatchupsInv'
<1>1. /\ sync # None /\ current' = sync.week /\ archived' = (archived \/ Matchups!SeasonOver)
      /\ own' = [i \in Matchups!Items |-> [w \in 1..Weeks |-> Matchups!History(i, w)]]
      /\ sync' = None /\ UNCHANGED <<clock, ends, past, feed, cmd>>
  BY DEF Matchups!SyncStores
<1>2. /\ WorldTypes /\ RowTypes /\ WeeksBefore /\ OverIsFinal /\ CommandInv
      /\ Weeks \in Nat \ {0} /\ None \notin Nat
  BY DEF MatchupsInv, Matchups!StoredMatchupsAssumption
<1>3. /\ sync \in [week: 1..Weeks, since: Nat] /\ sync.week \in 1..Weeks /\ Len(ends) \in Nat
      /\ clock \in Nat /\ archived = FALSE /\ ends \in Seq(Nat)
      /\ \A w \in 1..Len(ends) : ends[w] <= clock
  BY <1>1, <1>2 DEF WorldTypes, WeeksBefore
<1>4. /\ sync.week <= Len(ends) + 1 /\ Len(ends) <= sync.week
      /\ current # None => current \in 1..Weeks /\ current <= sync.week
  BY <1>1, <1>2 DEF WorldTypes, WeeksBefore
<1>5. archived' \in BOOLEAN /\ (archived' => Len(ends) = Weeks /\ sync.week = Weeks)
  BY <1>1, <1>2, <1>3, <1>4 DEF Matchups!SeasonOver, WorldTypes
<1>6. WorldTypes' BY <1>1, <1>2, <1>3, <1>5 DEF WorldTypes
<1> DEFINE fresh == [at |-> clock, stale |-> FALSE, version |-> "v1"]
<1>7. ASSUME NEW item \in Matchups!Items, NEW w \in 1..Weeks
      PROVE  /\ own'[item][w] \in Rows \cup {None}
             /\ w <= sync.week /\ item # "day roster" => own'[item][w] = fresh
  <2>1. own'[item][w] = Matchups!History(item, w) BY <1>1
  <2>2. fresh \in Rows BY <1>3 DEF Rows
  <2>3. own[item][w] \in Rows \cup {None} BY <1>2 DEF RowTypes
  <2> QED BY <2>1, <2>2, <2>3 DEF Matchups!History
<1>8. RowTypes'
  <2>1. own' \in [Matchups!Items -> [1..Weeks -> Rows \cup {None}]] BY <1>1, <1>7
  <2> QED BY <1>1, <1>2, <2>1 DEF RowTypes
<1>9. WeeksBefore' BY <1>1, <1>3, <1>4, <1>5 DEF WeeksBefore
<1>10. OverIsFinal'
  <2> SUFFICES ASSUME NEW item \in {"pairing", "roster"}, NEW w \in 1..Weeks, Over(w)'
               PROVE  Matchups!IsFinal(w, own[item][w].at)'
    BY Zenon DEF OverIsFinal
  <2>1. w <= sync.week /\ w <= Len(ends)
    BY <1>1, <1>2, <1>3, <1>4, <1>5 DEF Over
  <2>2. own'[item][w] = fresh BY <1>7, <2>1 DEF Matchups!Items
  <2>3. own'[item][w].at = clock /\ ends[w] <= clock
    <3>1. fresh.at = clock /\ w \in 1..Len(ends) BY <1>3, <2>1
    <3> QED BY <1>3, <2>2, <3>1
  <2> QED BY <1>1, <2>1, <2>3 DEF Matchups!IsFinal
<1>11. cmd' \in Commands BY <1>1, <1>2 DEF CommandInv
<1>12. PartsFine(cmd)' /\ Underway(cmd)'
  <2>1. current' # None /\ current' \in 1..Weeks BY <1>1, <1>2, <1>3
  <2>2. cmd.at # "done" => current # None BY <1>2 DEF CommandInv, Underway
  <2> QED BY <1>1, <1>2, <1>3, <1>4, <1>5, <2>1, <2>2, CommandStays
<1>13. Resolved(cmd, own)'
  <2>1. ASSUME cmd.kind = "m day", cmd.at \in {"pairing", "resolve"}
        PROVE  own'["pairing"][cmd.week] = fresh /\ cmd.begun = clock
    <3>1. cmd.week \in 1..Weeks BY <1>2 DEF CommandInv, Commands
    <3>2. current # None /\ cmd.week <= current /\ cmd.begun = clock
      BY <1>2, <2>1 DEF CommandInv, Underway
    <3>3. cmd.week <= sync.week BY <1>3, <1>4, <3>1, <3>2
    <3> QED BY <1>7, <3>1, <3>2, <3>3 DEF Matchups!Items
  <2>2. Window \in Nat BY DEF Matchups!StoredMatchupsAssumption
  <2>3. fresh.at = clock /\ clock - clock <= Window BY <1>3, <2>2
  <2>4. cmd' = cmd BY <1>1
  <2> HIDE DEF fresh
  <2> QED BY <2>1, <2>3, <2>4 DEF Resolved
<1> QED BY <1>6, <1>8, <1>9, <1>10, <1>11, <1>12, <1>13 DEF MatchupsInv, CommandInv

(***************************************************************************)
(* The steps of a command.                                                 *)
(***************************************************************************)

\* A step of a command that stores nothing.
LEMMA CommandStep ==
  ASSUME MatchupsInv, UNCHANGED <<clock, ends, past, archived, sync, current, own>>,
         feed' = feed \/ feed' \in [pairing: Parts, roster: [1..Weeks -> [at: Nat] \cup {None}]],
         cmd' \in Commands, PartsFine(cmd'), Underway(cmd'), Resolved(cmd', own)
  PROVE  MatchupsInv'
<1>1. WorldTypes' /\ WeeksBefore' BY DEF MatchupsInv, WorldTypes, WeeksBefore, Matchups!YahooWeek
<1>2. RowTypes' BY DEF MatchupsInv, RowTypes
<1>3. OverIsFinal' BY DEF MatchupsInv, OverIsFinal, Over, Matchups!IsFinal
<1>4. PartsFine(cmd)' BY DEF PartsFine, Unmarked, Fine, Matchups!IsFinal
<1>5. Underway(cmd)' BY DEF Underway
<1>6. Resolved(cmd, own)' BY DEF Resolved, Matchups!IsFinal
<1> QED BY <1>1, <1>2, <1>3, <1>4, <1>5, <1>6 DEF MatchupsInv, CommandInv

\* A command begins with nothing, on a week that has come unless it is rt.
LEMMA BeginCommandInv ==
  ASSUME MatchupsInv, Matchups!StoredMatchupsAssumption,
         NEW kind \in Matchups!Kinds, NEW week \in 1..Weeks, Matchups!BeginCommand(kind, week)
  PROVE  MatchupsInv'
<1> DEFINE prefer == (week < current \/ past) /\ kind # "rt"
           at == CASE kind = "m now" -> "feed" [] kind = "r" -> "slots"
                   [] kind = "m day" -> "resolve" [] OTHER -> "pairing"
<1>1. /\ current # None /\ (week <= current \/ kind = "rt")
      /\ kind \in {"m now", "m day", "r"} => ~past
      /\ UNCHANGED <<clock, ends, past, archived, sync, current, own, feed>>
  BY DEF Matchups!BeginCommand, Matchups!world
<1>2. cmd' = [kind |-> kind, week |-> week, prefer |-> prefer, archive |-> past, frozen |-> archived,
              begun |-> clock, at |-> at, phase |-> "read", pairing |-> None, roster |-> None,
              stale |-> FALSE, result |-> "none"]
  BY DEF Matchups!BeginCommand, Matchups!NoCommand
<1>3. clock \in Nat /\ past \in BOOLEAN /\ archived \in BOOLEAN BY DEF MatchupsInv, WorldTypes
<1>4. /\ at \in {"feed", "slots", "resolve", "pairing"} /\ prefer \in BOOLEAN
      /\ at = "feed" => kind = "m now"
      /\ at = "slots" => kind = "r"
      /\ at = "resolve" => kind = "m day"
      /\ at = "pairing" => kind \in {"m week", "mm", "rt"}
      /\ prefer => past \/ week < current
      /\ past => kind \in {"m week", "mm", "rt"}
  BY <1>1, <1>3 DEF Matchups!Kinds
<1> HIDE DEF prefer, at
<1>5. cmd' \in Commands BY <1>2, <1>3, <1>4 DEF Commands, Parts
<1>6. PartsFine(cmd') BY <1>2 DEF PartsFine, Fine
<1>7. Underway(cmd') BY <1>1, <1>2, <1>4 DEF Underway
<1>8. Resolved(cmd', own) BY <1>2, <1>4 DEF Resolved
<1> QED BY <1>1, <1>5, <1>6, <1>7, <1>8, CommandStep

\* What a command has after it took a row of its item.
LEMMA TookFields ==
  ASSUME cmd \in Commands, NEW held \in Rows, NEW marked \in BOOLEAN, Matchups!Acquiring
  PROVE  LET took == Matchups!Took(held, marked)
             piece == [week |-> cmd.week, at |-> held.at]
         IN /\ took \in Commands
            /\ took.kind = cmd.kind /\ took.week = cmd.week /\ took.archive = cmd.archive
            /\ took.frozen = cmd.frozen /\ took.begun = cmd.begun
            /\ cmd.at = "resolve" =>
                 /\ took.at = "pairing" /\ took.stale = cmd.stale
                 /\ took.pairing = cmd.pairing /\ took.roster = cmd.roster
            /\ cmd.at # "resolve" =>
                 /\ took.at = "done" \/ (took.at = "roster" /\ cmd.at = "pairing"
                                          /\ cmd.kind \in {"m week", "m day"})
                 /\ took.prefer = cmd.prefer /\ took.stale = (cmd.stale \/ marked)
                 /\ Matchups!Item = "pairing" => took.pairing = piece /\ took.roster = cmd.roster
                 /\ Matchups!Item # "pairing" => took.pairing = cmd.pairing /\ took.roster = piece
<1> DEFINE took == Matchups!Took(held, marked)
           piece == [week |-> cmd.week, at |-> held.at]
           mark == cmd.stale \/ marked
           pairing == IF Matchups!Item = "pairing" THEN piece ELSE cmd.pairing
           roster == IF Matchups!Item = "pairing" THEN cmd.roster ELSE piece
           Taken(place, shown) ==
             [kind |-> cmd.kind, week |-> cmd.week, prefer |-> cmd.prefer, archive |-> cmd.archive,
              frozen |-> cmd.frozen, begun |-> cmd.begun, at |-> place, phase |-> "read",
              pairing |-> pairing, roster |-> roster, stale |-> mark, result |-> shown]
           next == [cmd EXCEPT !.stale = mark, !.phase = "read", !.pairing = pairing, !.roster = roster]
<1>1. piece \in Parts /\ pairing \in Parts /\ roster \in Parts BY DEF Parts, Commands, Rows
<1>2. mark \in BOOLEAN BY DEF Commands
<1>3. took = IF cmd.at = "resolve"
               THEN [cmd EXCEPT !.at = "pairing", !.phase = "read", !.prefer = TRUE]
             ELSE IF cmd.at = "pairing" /\ cmd.kind \in {"m week", "m day"}
               THEN [next EXCEPT !.at = "roster"]
               ELSE [next EXCEPT !.at = "done", !.phase = "read", !.result = "view"]
  BY DEF Matchups!Took, Matchups!End
<1>4. CASE cmd.at = "resolve" BY <1>3, <1>4 DEF Commands
<1>5. CASE cmd.at # "resolve"
  <2>1. /\ Matchups!Item = "pairing" => pairing = piece /\ roster = cmd.roster
        /\ Matchups!Item # "pairing" => pairing = cmd.pairing /\ roster = piece
    OBVIOUS
  <2> HIDE DEF piece, pairing, roster, mark
  <2>2. CASE cmd.at = "pairing" /\ cmd.kind \in {"m week", "m day"}
    <3>1. took = Taken("roster", cmd.result) BY <1>3, <1>5, <2>2 DEF Commands
    <3> HIDE DEF took
    <3>2. took \in Commands BY <1>1, <1>2, <3>1 DEF Commands
    <3>3. /\ took.kind = cmd.kind /\ took.week = cmd.week /\ took.archive = cmd.archive
          /\ took.frozen = cmd.frozen /\ took.begun = cmd.begun /\ took.prefer = cmd.prefer
          /\ took.stale = mark /\ took.pairing = pairing /\ took.roster = roster
          /\ took.at = "roster"
      BY <3>1
    <3> QED BY <1>5, <2>2, <2>1, <3>2, <3>3 DEF took, mark, piece
  <2>3. CASE ~(cmd.at = "pairing" /\ cmd.kind \in {"m week", "m day"})
    <3>1. took = Taken("done", "view") BY <1>3, <1>5, <2>3 DEF Commands
    <3> HIDE DEF took
    <3>2. took \in Commands BY <1>1, <1>2, <3>1 DEF Commands
    <3>3. /\ took.kind = cmd.kind /\ took.week = cmd.week /\ took.archive = cmd.archive
          /\ took.frozen = cmd.frozen /\ took.begun = cmd.begun /\ took.prefer = cmd.prefer
          /\ took.stale = mark /\ took.pairing = pairing /\ took.roster = roster
          /\ took.at = "done"
      BY <3>1
    <3> QED BY <1>5, <2>1, <3>2, <3>3 DEF took, mark, piece
  <2> QED BY <2>2, <2>3
<1> QED BY <1>4, <1>5

\* A command goes on in order with a row that needs no mark, or that it marks.
LEMMA TookKeeps ==
  ASSUME CommandInv, NEW held \in Rows, NEW marked \in BOOLEAN, NEW stored, Matchups!Acquiring,
         Unmarked([cmd EXCEPT !.stale = marked]) /\ Matchups!Item # "day roster"
           => Fine(cmd, [week |-> cmd.week, at |-> held.at]),
         cmd.at = "resolve" =>
           Resolved([cmd EXCEPT !.at = "pairing"], stored)
  PROVE  LET took == Matchups!Took(held, marked)
         IN took \in Commands /\ PartsFine(took) /\ Underway(took) /\ Resolved(took, stored)
<1> DEFINE took == Matchups!Took(held, marked)
           piece == [week |-> cmd.week, at |-> held.at]
<1>1. /\ cmd \in Commands /\ PartsFine(cmd) /\ Underway(cmd) /\ cmd.at # "done"
      /\ cmd.at \in {"resolve", "pairing", "roster", "overlay", "slots"}
  BY DEF CommandInv, Matchups!Acquiring
<1>2. /\ took \in Commands
      /\ took.kind = cmd.kind /\ took.week = cmd.week /\ took.archive = cmd.archive
      /\ took.frozen = cmd.frozen /\ took.begun = cmd.begun
      /\ cmd.at = "resolve" =>
           /\ took.at = "pairing" /\ took.stale = cmd.stale
           /\ took.pairing = cmd.pairing /\ took.roster = cmd.roster
      /\ cmd.at # "resolve" =>
           /\ took.at = "done" \/ (took.at = "roster" /\ cmd.at = "pairing"
                                    /\ cmd.kind \in {"m week", "m day"})
           /\ took.prefer = cmd.prefer /\ took.stale = (cmd.stale \/ marked)
           /\ Matchups!Item = "pairing" => took.pairing = piece /\ took.roster = cmd.roster
           /\ Matchups!Item # "pairing" => took.pairing = cmd.pairing /\ took.roster = piece
  BY <1>1, TookFields
<1> HIDE DEF took
<1>3. Unmarked(took) => Unmarked(cmd) \/ cmd.at = "resolve"
  BY <1>1, <1>2 DEF Unmarked, Commands
<1>4. PartsFine(took)
  <2> SUFFICES ASSUME Unmarked(took)
               PROVE  Fine(took, took.pairing) /\ (took.kind # "m day" => Fine(took, took.roster))
    BY DEF PartsFine
  <2>1. Unmarked(cmd) BY <1>1, <1>2 DEF Unmarked, Commands
  <2>2. Fine(cmd, cmd.pairing) /\ (cmd.kind # "m day" => Fine(cmd, cmd.roster))
    BY <1>1, <2>1 DEF PartsFine
  <2>3. ASSUME NEW p, Fine(cmd, p) PROVE Fine(took, p)
    BY <1>2, <2>3 DEF Fine
  <2>4. CASE cmd.at = "resolve" BY <1>2, <2>2, <2>3, <2>4
  <2>5. CASE cmd.at # "resolve"
    <3>1. Unmarked([cmd EXCEPT !.stale = marked])
      <4>1. took.kind # "r" /\ (took.archive => took.frozen) /\ (~took.stale \/ took.archive)
        BY DEF Unmarked
      <4>2. /\ [cmd EXCEPT !.stale = marked].kind = cmd.kind
            /\ [cmd EXCEPT !.stale = marked].archive = cmd.archive
            /\ [cmd EXCEPT !.stale = marked].frozen = cmd.frozen
            /\ [cmd EXCEPT !.stale = marked].stale = marked
        BY <1>1 DEF Commands
      <4>3. took.stale = (cmd.stale \/ marked) BY <1>2, <2>5
      <4> QED BY <1>2, <4>1, <4>2, <4>3 DEF Unmarked
    <3>2. Matchups!Item # "day roster" => Fine(took, piece) BY <2>3, <3>1
    <3>3. CASE Matchups!Item = "pairing" BY <1>2, <2>2, <2>3, <2>5, <3>2, <3>3
    <3>4. CASE Matchups!Item # "pairing"
      <4>1. took.kind # "m day" => Matchups!Item # "day roster"
        BY <1>2, <3>4 DEF Matchups!Item
      <4> QED BY <1>2, <2>2, <2>3, <2>5, <3>2, <3>4, <4>1
    <3> QED BY <3>3, <3>4
  <2> QED BY <2>4, <2>5
<1>5. Underway(took)
  <2>1. CASE cmd.at = "resolve" BY <1>1, <1>2, <2>1 DEF Underway
  <2>2. CASE cmd.at # "resolve" BY <1>1, <1>2, <2>2 DEF Underway
  <2> QED BY <2>1, <2>2
<1>6. Resolved(took, stored)
  <2>1. CASE cmd.at = "resolve"
    <3>1. /\ [cmd EXCEPT !.at = "pairing"].kind = cmd.kind
          /\ [cmd EXCEPT !.at = "pairing"].at = "pairing"
          /\ [cmd EXCEPT !.at = "pairing"].week = cmd.week
          /\ [cmd EXCEPT !.at = "pairing"].begun = cmd.begun
      BY <1>1 DEF Commands
    <3> QED BY <1>2, <2>1, <3>1 DEF Resolved
  <2>2. CASE cmd.at # "resolve" BY <1>2, <2>2 DEF Resolved
  <2> QED BY <2>1, <2>2
<1> QED BY <1>2, <1>4, <1>5, <1>6 DEF took

\* A command gives up, or shows what it has.
LEMMA EndKeeps ==
  ASSUME CommandInv, NEW shown \in {"view", "local", "error"}, NEW stored
  PROVE  LET over == Matchups!End(cmd, shown)
         IN over \in Commands /\ PartsFine(over) /\ Underway(over) /\ Resolved(over, stored)
<1> DEFINE over == Matchups!End(cmd, shown)
<1>1. cmd \in Commands /\ PartsFine(cmd) BY DEF CommandInv
<1>2. /\ over \in Commands
      /\ over.kind = cmd.kind /\ over.archive = cmd.archive /\ over.frozen = cmd.frozen
      /\ over.begun = cmd.begun /\ over.pairing = cmd.pairing /\ over.roster = cmd.roster
      /\ over.stale = cmd.stale /\ over.at = "done"
  BY <1>1 DEF Commands, Matchups!End
<1> HIDE DEF over
<1>3. PartsFine(over) BY <1>1, <1>2 DEF PartsFine, Unmarked, Fine
<1>4. Underway(over) /\ Resolved(over, stored) BY <1>2 DEF Underway, Resolved
<1> QED BY <1>2, <1>3, <1>4 DEF over

\* A week that is over had ended by now.
LEMMA OverHasEnded ==
  ASSUME MatchupsInv, NEW w \in 1..Weeks, Over(w)
  PROVE  w <= Len(ends) /\ ends[w] <= clock
<1>1. /\ WorldTypes /\ Len(ends) \in Nat /\ (archived => Len(ends) = Weeks)
      /\ current # None => current \in 1..Weeks /\ current <= Len(ends) + 1
  BY DEF MatchupsInv, WorldTypes, WeeksBefore
<1>2. w <= Len(ends) BY <1>1 DEF Over
<1> QED BY <1>1, <1>2 DEF WorldTypes

\* What a command finds stored of a week that is over is final; of an archived league every
\* week is.
LEMMA StoredIsFinal ==
  ASSUME MatchupsInv, Matchups!Acquiring, Matchups!Stored # None,
         Matchups!Item # "day roster", (cmd.archive /\ cmd.frozen) \/ cmd.week < current
  PROVE  Matchups!IsFinal(cmd.week, Matchups!Stored.at)
<1>1. /\ OverIsFinal /\ cmd.week \in 1..Weeks /\ Underway(cmd) /\ cmd.at # "done"
  BY DEF MatchupsInv, CommandInv, Commands, Matchups!Acquiring
<1>2. Over(cmd.week) BY <1>1 DEF Over, Underway
<1>3. Matchups!Item \in {"pairing", "roster"} BY DEF Matchups!Item
<1> QED BY <1>1, <1>2, <1>3 DEF OverIsFinal, Matchups!Stored

\* What is stored of a command's item is a row.
LEMMA StoredIsRow ==
  ASSUME MatchupsInv, Matchups!Acquiring
  PROVE  /\ Matchups!Item \in Matchups!Items /\ cmd.week \in 1..Weeks
         /\ Matchups!Stored \in Rows \cup {None}
<1>1. cmd.week \in 1..Weeks BY DEF MatchupsInv, CommandInv, Commands
<1>2. Matchups!Item \in Matchups!Items BY DEF Matchups!Item, Matchups!Items
<1>3. own \in [Matchups!Items -> [1..Weeks -> Rows \cup {None}]] BY DEF MatchupsInv, RowTypes
<1> QED BY <1>1, <1>2, <1>3 DEF Matchups!Stored

\* Only the phase of a command changes.
LEMMA PhaseKeeps ==
  ASSUME CommandInv, NEW phase \in {"fetch", "reread"}, NEW stored,
         Resolved([cmd EXCEPT !.phase = phase], stored)
  PROVE  LET next == [cmd EXCEPT !.phase = phase]
         IN next \in Commands /\ PartsFine(next) /\ Underway(next) /\ Resolved(next, stored)
<1> DEFINE next == [cmd EXCEPT !.phase = phase]
<1>1. cmd \in Commands /\ PartsFine(cmd) /\ Underway(cmd) BY DEF CommandInv
<1>2. /\ next \in Commands
      /\ next.kind = cmd.kind /\ next.week = cmd.week /\ next.prefer = cmd.prefer
      /\ next.archive = cmd.archive /\ next.frozen = cmd.frozen /\ next.begun = cmd.begun
      /\ next.at = cmd.at /\ next.pairing = cmd.pairing /\ next.roster = cmd.roster
      /\ next.stale = cmd.stale
  BY <1>1 DEF Commands
<1> HIDE DEF next
<1>3. PartsFine(next) BY <1>1, <1>2 DEF PartsFine, Unmarked, Fine
<1>4. Underway(next) BY <1>1, <1>2 DEF Underway
<1> QED BY <1>2, <1>3, <1>4 DEF next

\* A snapshot is reused within the window, or preferred; otherwise the command fetches.
LEMMA ReadSnapshotInv ==
  ASSUME MatchupsInv, Matchups!ReadSnapshot PROVE MatchupsInv'
<1>1. /\ Matchups!Acquiring /\ cmd.phase = "read" /\ CommandInv
      /\ cmd' = IF Matchups!ReusedOrPreferred THEN Matchups!Took(Matchups!Stored, Matchups!Stored.stale)
                ELSE [cmd EXCEPT !.phase = "fetch"]
      /\ UNCHANGED <<clock, ends, past, archived, sync, current, own, feed>>
  BY DEF Matchups!ReadSnapshot, Matchups!world, MatchupsInv
<1>2. cmd' \in Commands /\ PartsFine(cmd') /\ Underway(cmd') /\ Resolved(cmd', own)
  <2>1. CASE ~Matchups!ReusedOrPreferred
    <3>1. Resolved([cmd EXCEPT !.phase = "fetch"], own)
      BY <1>1 DEF CommandInv, Resolved, Commands
    <3> QED BY <1>1, <2>1, <3>1, PhaseKeeps
  <2>2. CASE Matchups!ReusedOrPreferred
    <3> DEFINE held == Matchups!Stored
    <3>1. held \in Rows /\ held # None BY <1>1, <2>2, StoredIsRow DEF Matchups!ReusedOrPreferred, Matchups!Usable
    <3>2. /\ cmd \in Commands /\ Underway(cmd) /\ cmd.at # "done" /\ Resolved(cmd, own)
      BY <1>1 DEF CommandInv, Matchups!Acquiring
    <3>3. held.stale \in BOOLEAN /\ held.at \in Nat BY <3>1 DEF Rows
    <3>4. cmd.begun = clock /\ (cmd.kind = "m day" => ~cmd.archive) BY <3>2 DEF Underway
    <3>5. \/ cmd.at \notin {"resolve", "roster"} /\ ~held.stale /\ clock - held.at <= Window
          \/ cmd.at \in {"resolve", "pairing", "roster"} /\ cmd.prefer
      BY <2>2 DEF Matchups!ReusedOrPreferred, Matchups!InWindow
    <3>6. ASSUME Unmarked([cmd EXCEPT !.stale = held.stale]), Matchups!Item # "day roster"
          PROVE  Fine(cmd, [week |-> cmd.week, at |-> held.at])
      <4>1. (cmd.archive => cmd.frozen) /\ (~held.stale \/ cmd.archive)
        <5>1. /\ [cmd EXCEPT !.stale = held.stale].archive = cmd.archive
              /\ [cmd EXCEPT !.stale = held.stale].frozen = cmd.frozen
              /\ [cmd EXCEPT !.stale = held.stale].stale = held.stale
          BY <3>2 DEF Commands
        <5> QED BY <3>6, <5>1 DEF Unmarked
      <4>2. CASE cmd.archive \/ cmd.week < current
        BY <1>1, <3>1, <3>6, <4>1, <4>2, StoredIsFinal DEF Fine
      <4>3. CASE ~cmd.archive /\ clock - held.at <= Window
        BY <3>4, <4>3 DEF Fine
      <4>4. CASE ~(cmd.archive \/ cmd.week < current) /\ cmd.prefer
                 /\ cmd.at \in {"resolve", "pairing", "roster"}
        <5>1. cmd.kind = "m day" /\ cmd.at # "resolve" BY <3>2, <4>4 DEF Underway
        <5>2. cmd.at = "pairing" BY <3>6, <4>4, <5>1 DEF Matchups!Item
        <5>3. held = own["pairing"][cmd.week] BY <5>2 DEF Matchups!Stored, Matchups!Item
        <5>4. clock - held.at <= Window \/ Matchups!IsFinal(cmd.week, held.at)
          BY <3>1, <3>2, <3>4, <4>1, <5>1, <5>2, <5>3 DEF Resolved
        <5> QED BY <3>4, <4>4, <5>4 DEF Fine
      <4> QED BY <3>5, <4>2, <4>3, <4>4
    <3>7. ASSUME cmd.at = "resolve" PROVE Resolved([cmd EXCEPT !.at = "pairing"], own)
      <4>1. held = own["pairing"][cmd.week] BY <3>7 DEF Matchups!Stored, Matchups!Item
      <4>2. cmd.week < current /\ Matchups!Item # "day roster"
        <5>1. cmd.kind = "m day" BY <3>2, <3>7 DEF Underway
        <5>2. cmd.prefer /\ ~cmd.archive BY <3>4, <3>5, <3>7, <5>1
        <5>3. cmd.week < current BY <3>2, <3>7, <5>2 DEF Underway
        <5> QED BY <3>7, <5>3 DEF Matchups!Item
      <4>3. Matchups!IsFinal(cmd.week, held.at) BY <1>1, <3>1, <4>2, StoredIsFinal
      <4>4. [cmd EXCEPT !.at = "pairing"].week = cmd.week BY <3>2 DEF Commands
      <4> QED BY <4>1, <4>3, <4>4 DEF Resolved
    <3>8. cmd' = Matchups!Took(held, held.stale) BY <1>1, <2>2
    <3> HIDE DEF held
    <3> QED BY <1>1, <3>1, <3>3, <3>6, <3>7, <3>8, TookKeeps
  <2> QED BY <2>1, <2>2
<1> QED BY <1>1, <1>2, CommandStep

\* A row of a week is replaced or marked.
LEMMA CommandStores ==
  ASSUME MatchupsInv, UNCHANGED <<clock, ends, past, archived, sync, current, feed>>,
         Matchups!Acquiring, NEW held \in Rows,
         own' = [own EXCEPT ![Matchups!Item][cmd.week] = held],
         Matchups!Item # "day roster" /\ Over(cmd.week) => Matchups!IsFinal(cmd.week, held.at),
         cmd' \in Commands, PartsFine(cmd'), Underway(cmd'), Resolved(cmd', own')
  PROVE  MatchupsInv'
<1>1. WorldTypes' /\ WeeksBefore' BY DEF MatchupsInv, WorldTypes, WeeksBefore, Matchups!YahooWeek
<1>2. /\ own \in [Matchups!Items -> [1..Weeks -> Rows \cup {None}]]
      /\ Matchups!Item \in Matchups!Items /\ cmd.week \in 1..Weeks
  BY StoredIsRow DEF MatchupsInv, RowTypes
<1>3. ASSUME NEW item \in Matchups!Items, NEW w \in 1..Weeks
      PROVE  own'[item][w] = IF item = Matchups!Item /\ w = cmd.week THEN held ELSE own[item][w]
  BY <1>2
<1>4. RowTypes'
  <2>1. own' \in [Matchups!Items -> [1..Weeks -> Rows \cup {None}]] BY <1>2
  <2> QED BY <2>1 DEF MatchupsInv, RowTypes
<1>5. OverIsFinal'
  <2> SUFFICES ASSUME NEW item \in {"pairing", "roster"}, NEW w \in 1..Weeks,
                      own'[item][w] # None, Over(w)
               PROVE  Matchups!IsFinal(w, own'[item][w].at)
    BY DEF OverIsFinal, Over, Matchups!IsFinal
  <2>1. item \in Matchups!Items /\ item # "day roster" BY DEF Matchups!Items
  <2>2. CASE item = Matchups!Item /\ w = cmd.week
    <3>1. own'[item][w] = held BY <1>3, <2>1, <2>2
    <3>2. Over(cmd.week) /\ Matchups!Item # "day roster" BY <2>1, <2>2
    <3> QED BY <2>2, <3>1, <3>2
  <2>3. CASE ~(item = Matchups!Item /\ w = cmd.week)
    <3>1. own'[item][w] = own[item][w] BY <1>3, <2>1, <2>3
    <3> QED BY <3>1 DEF MatchupsInv, OverIsFinal
  <2> QED BY <2>2, <2>3
<1>6. PartsFine(cmd)' BY DEF PartsFine, Unmarked, Fine, Matchups!IsFinal
<1>7. Underway(cmd)' BY DEF Underway
<1>8. Resolved(cmd, own)' BY DEF Resolved, Matchups!IsFinal
<1> QED BY <1>1, <1>4, <1>5, <1>6, <1>7, <1>8 DEF MatchupsInv, CommandInv

\* An item is fetched and stored; what Yahoo says of a week that is over is final.
LEMMA FetchItemInv ==
  ASSUME MatchupsInv, Matchups!StoredMatchupsAssumption, Matchups!FetchItem PROVE MatchupsInv'
<1> DEFINE held == [at |-> clock, stale |-> FALSE, version |-> Matchups!Version(Matchups!Item)]
<1>1. /\ Matchups!Acquiring /\ ~cmd.archive /\ CommandInv
      /\ own' = [own EXCEPT ![Matchups!Item][cmd.week] = held] /\ cmd' = Matchups!Took(held, FALSE)
      /\ UNCHANGED <<clock, ends, past, archived, sync, current, feed>>
  BY DEF Matchups!FetchItem, Matchups!world, MatchupsInv
<1>2. clock \in Nat /\ Window \in Nat BY DEF MatchupsInv, WorldTypes, Matchups!StoredMatchupsAssumption
<1>3. held \in Rows /\ held.at = clock /\ clock - clock <= Window
  BY <1>2 DEF Rows, Matchups!Version
<1> HIDE DEF held
<1>4. /\ cmd \in Commands /\ cmd.week \in 1..Weeks /\ cmd.begun = clock
      /\ own \in [Matchups!Items -> [1..Weeks -> Rows \cup {None}]]
      /\ Matchups!Item \in Matchups!Items
  BY <1>1, StoredIsRow DEF CommandInv, Commands, Underway, Matchups!Acquiring, MatchupsInv, RowTypes
<1>5. Over(cmd.week) => Matchups!IsFinal(cmd.week, held.at)
  BY <1>3, <1>4, OverHasEnded DEF Matchups!IsFinal
<1>6. Fine(cmd, [week |-> cmd.week, at |-> held.at]) BY <1>1, <1>3, <1>4 DEF Fine
<1>7. ASSUME cmd.at = "resolve" PROVE Resolved([cmd EXCEPT !.at = "pairing"], own')
  <2>1. /\ [cmd EXCEPT !.at = "pairing"].week = cmd.week
        /\ [cmd EXCEPT !.at = "pairing"].begun = clock
    BY <1>4 DEF Commands
  <2>2. Matchups!Item = "pairing" BY <1>7 DEF Matchups!Item
  <2>3. own'["pairing"][cmd.week] = held BY <1>1, <1>4, <2>2
  <2> QED BY <1>3, <2>1, <2>3 DEF Resolved
<1>8. cmd' \in Commands /\ PartsFine(cmd') /\ Underway(cmd') /\ Resolved(cmd', own')
  BY <1>1, <1>3, <1>6, <1>7, TookKeeps
<1> QED BY <1>1, <1>3, <1>5, <1>8, CommandStores

\* An item cannot be fetched: what is stored of it is marked, or left alone.
LEMMA FetchItemFailsInv ==
  ASSUME MatchupsInv, Matchups!FetchItemFails PROVE MatchupsInv'
<1> DEFINE held == Matchups!Stored
           kept == held = None \/ cmd.at = "slots" \/ (cmd.archive /\ Matchups!Item = "pairing")
           next == [cmd EXCEPT !.phase = "reread"]
<1>1. /\ Matchups!Acquiring /\ CommandInv /\ cmd' = next
      /\ own' = IF kept THEN own ELSE [own EXCEPT ![Matchups!Item][cmd.week].stale = TRUE]
      /\ UNCHANGED <<clock, ends, past, archived, sync, current, feed>>
  BY DEF Matchups!FetchItemFails, Matchups!world, MatchupsInv, Matchups!Stored
<1>2. /\ cmd \in Commands /\ cmd.week \in 1..Weeks /\ cmd.begun = clock
      /\ cmd.kind = "m day" => ~cmd.archive
      /\ own \in [Matchups!Items -> [1..Weeks -> Rows \cup {None}]]
      /\ Matchups!Item \in Matchups!Items /\ held \in Rows \cup {None} /\ Resolved(cmd, own)
  BY <1>1, StoredIsRow DEF CommandInv, Commands, Underway, Matchups!Acquiring, MatchupsInv, RowTypes
<1>3. next.kind = cmd.kind /\ next.at = cmd.at /\ next.week = cmd.week /\ next.begun = cmd.begun
  BY <1>2 DEF Commands
<1>4. cmd.kind = "m day" /\ cmd.at \in {"pairing", "resolve"} =>
        /\ kept => own["pairing"][cmd.week] = None
        /\ Matchups!Item = "pairing"
  BY <1>2 DEF Matchups!Item, Matchups!Stored
<1>5. CASE kept
  <2>1. Resolved(next, own) BY <1>3, <1>4, <1>5 DEF Resolved
  <2>2. cmd' \in Commands /\ PartsFine(cmd') /\ Underway(cmd') /\ Resolved(cmd', own)
    BY <1>1, <2>1, PhaseKeeps
  <2> QED BY <1>1, <1>5, <2>2, CommandStep
<1>6. CASE ~kept
  <2> DEFINE marked == [held EXCEPT !.stale = TRUE]
  <2>1. held \in Rows /\ held # None BY <1>2, <1>6
  <2>2. marked \in Rows /\ marked.at = held.at /\ marked.stale BY <2>1 DEF Rows
  <2>3. own' = [own EXCEPT ![Matchups!Item][cmd.week] = marked]
    BY <1>1, <1>2, <1>6 DEF Matchups!Stored
  <2>4. Matchups!Item # "day roster" /\ Over(cmd.week) => Matchups!IsFinal(cmd.week, marked.at)
    <3>1. Matchups!Item # "day roster" => Matchups!Item \in {"pairing", "roster"}
      BY DEF Matchups!Item
    <3> QED BY <1>2, <2>1, <2>2, <3>1 DEF MatchupsInv, OverIsFinal, Matchups!Stored
  <2> HIDE DEF marked
  <2>5. Resolved(next, own')
    <3>1. Matchups!Item = "pairing" => own'["pairing"][cmd.week] = marked
      BY <1>2, <2>3
    <3> QED BY <1>3, <1>4, <2>2, <3>1 DEF Resolved
  <2>6. cmd' \in Commands /\ PartsFine(cmd') /\ Underway(cmd') /\ Resolved(cmd', own')
    BY <1>1, <2>5, PhaseKeeps
  <2> QED BY <1>1, <2>2, <2>3, <2>4, <2>6, CommandStores
<1> QED BY <1>5, <1>6

\* After a failure the stored row is shown as stale, or the command ends.
LEMMA RereadSnapshotInv ==
  ASSUME MatchupsInv, Matchups!RereadSnapshot PROVE MatchupsInv'
<1>1. /\ Matchups!Acquiring /\ cmd.phase = "reread" /\ CommandInv
      /\ cmd' = IF Matchups!Usable THEN Matchups!Took(Matchups!Stored, cmd.at # "slots")
                ELSE Matchups!Missed
      /\ UNCHANGED <<clock, ends, past, archived, sync, current, own, feed>>
  BY DEF Matchups!RereadSnapshot, Matchups!world, MatchupsInv
<1>2. cmd' \in Commands /\ PartsFine(cmd') /\ Underway(cmd') /\ Resolved(cmd', own)
  <2>1. CASE ~Matchups!Usable
    <3>1. \E shown \in {"view", "local", "error"} : cmd' = Matchups!End(cmd, shown)
      <4>1. cmd' = Matchups!Missed BY <1>1, <2>1
      <4>2. \/ Matchups!Missed = Matchups!End(cmd, "view")
            \/ Matchups!Missed = Matchups!End(cmd, "local")
            \/ Matchups!Missed = Matchups!End(cmd, "error")
        BY ONLY TRUE DEF Matchups!Missed
      <4> QED BY <4>1, <4>2
    <3> QED BY <1>1, <3>1, EndKeeps
  <2>2. CASE Matchups!Usable
    <3> DEFINE held == Matchups!Stored
               mark == cmd.at # "slots"
    <3>1. held \in Rows /\ held # None BY <1>1, <2>2, StoredIsRow DEF Matchups!Usable
    <3>2. /\ cmd \in Commands /\ Underway(cmd) /\ cmd.at # "done" /\ Resolved(cmd, own)
      BY <1>1 DEF CommandInv, Matchups!Acquiring
    <3>3. mark \in BOOLEAN OBVIOUS
    <3>4. ASSUME Unmarked([cmd EXCEPT !.stale = mark]), Matchups!Item # "day roster"
          PROVE  Fine(cmd, [week |-> cmd.week, at |-> held.at])
      <4>1. cmd.kind # "r" /\ (cmd.archive => cmd.frozen) /\ (~mark \/ cmd.archive)
        <5>1. /\ [cmd EXCEPT !.stale = mark].archive = cmd.archive
              /\ [cmd EXCEPT !.stale = mark].frozen = cmd.frozen
              /\ [cmd EXCEPT !.stale = mark].kind = cmd.kind
              /\ [cmd EXCEPT !.stale = mark].stale = mark
          BY <3>2 DEF Commands
        <5> HIDE DEF mark
        <5> QED BY <3>4, <5>1 DEF Unmarked
      <4>2. cmd.archive /\ cmd.frozen BY <3>2, <4>1 DEF Underway
      <4> QED BY <1>1, <3>1, <3>4, <4>2, StoredIsFinal DEF Fine
    <3>5. ASSUME cmd.at = "resolve" PROVE Resolved([cmd EXCEPT !.at = "pairing"], own)
      <4>1. /\ [cmd EXCEPT !.at = "pairing"].week = cmd.week
            /\ [cmd EXCEPT !.at = "pairing"].begun = cmd.begun
            /\ [cmd EXCEPT !.at = "pairing"].kind = cmd.kind
        BY <3>2 DEF Commands
      <4> QED BY <1>1, <3>2, <3>5, <4>1 DEF Resolved
    <3>6. cmd' = Matchups!Took(held, mark) BY <1>1, <2>2
    <3> HIDE DEF held, mark
    <3> QED BY <1>1, <3>1, <3>3, <3>4, <3>5, <3>6, TookKeeps
  <2> QED BY <2>1, <2>2
<1> QED BY <1>1, <1>2, CommandStep

\* The database fails, and the command ends.
LEMMA DatabaseFailsInv ==
  ASSUME MatchupsInv, Matchups!DatabaseFails PROVE MatchupsInv'
<1>1. /\ UNCHANGED <<clock, ends, past, archived, sync, current, own, feed>>
      /\ \E shown \in {"view", "local", "error"} : cmd' = Matchups!End(cmd, shown)
  BY DEF Matchups!DatabaseFails, Matchups!world
<1>2. cmd' \in Commands /\ PartsFine(cmd') /\ Underway(cmd') /\ Resolved(cmd', own)
  BY <1>1, EndKeeps DEF MatchupsInv
<1> QED BY <1>1, <1>2, CommandStep

\* The view of the feed: its parts are of one week, young or marked.
LEMMA OverlayKeeps ==
  ASSUME CommandInv, cmd.at \in {"feed", "feed roster"}, NEW w \in 1..Weeks,
         NEW paired \in Nat, NEW rostered \in Nat, NEW marked \in BOOLEAN, NEW stored,
         marked \/ (clock - paired <= Window /\ clock - rostered <= Window)
  PROVE  LET next == Matchups!Overlay([week |-> w, at |-> paired], [week |-> w, at |-> rostered], marked)
         IN next \in Commands /\ PartsFine(next) /\ Underway(next) /\ Resolved(next, stored)
<1> DEFINE pairing == [week |-> w, at |-> paired]
           roster == [week |-> w, at |-> rostered]
           next == Matchups!Overlay(pairing, roster, marked)
<1>1. /\ cmd \in Commands /\ Underway(cmd) /\ cmd.at # "done" /\ cmd.begun = clock
      /\ cmd.kind = "m now" /\ ~cmd.archive
  BY DEF CommandInv, Underway
<1>2. pairing \in Parts /\ roster \in Parts /\ pairing.at = paired /\ roster.at = rostered
  BY DEF Parts
<1> HIDE DEF pairing, roster
<1>3. /\ next \in Commands
      /\ next.kind = cmd.kind /\ next.week = cmd.week /\ next.prefer = cmd.prefer
      /\ next.archive = cmd.archive /\ next.frozen = cmd.frozen /\ next.begun = cmd.begun
      /\ next.at = "overlay" /\ next.stale = marked /\ next.pairing = pairing /\ next.roster = roster
  BY <1>1, <1>2 DEF Commands, Matchups!Overlay
<1> HIDE DEF next
<1>4. PartsFine(next) BY <1>1, <1>2, <1>3 DEF PartsFine, Unmarked, Fine
<1>5. Underway(next) BY <1>1, <1>3 DEF Underway
<1>6. Resolved(next, stored) BY <1>3 DEF Resolved
<1> QED BY <1>3, <1>4, <1>5, <1>6 DEF next, pairing, roster

\* The stored view of the feed has a week, and rows with a time.
LEMMA DefaultRows ==
  ASSUME MatchupsInv, Matchups!StoredMatchupsAssumption, NEW fresh \in BOOLEAN,
         NEW held \in Matchups!DefaultSnapshots(fresh)
  PROVE  /\ feed.pairing # None /\ feed.pairing.week \in 1..Weeks /\ feed.pairing.at \in Nat
         /\ held.at \in Nat
         /\ fresh => clock - feed.pairing.at <= Window /\ clock - held.at <= Window
<1>1. /\ feed.pairing # None /\ (fresh => Matchups!InWindow(feed.pairing.at))
      /\ held \in {own["roster"][feed.pairing.week], feed.roster[feed.pairing.week]}
      /\ held # None /\ (fresh => Matchups!InWindow(held.at))
  BY DEF Matchups!DefaultSnapshots, Matchups!Rosters
<1>2. feed.pairing \in Parts BY DEF MatchupsInv, RowTypes
<1>3. feed.pairing.week \in 1..Weeks /\ feed.pairing.at \in Nat BY <1>1, <1>2 DEF Parts
<1>4. own["roster"][feed.pairing.week] \in Rows \cup {None}
  BY <1>3 DEF MatchupsInv, RowTypes, Matchups!Items
<1>5. feed.roster[feed.pairing.week] \in [at: Nat] \cup {None}
  BY <1>3 DEF MatchupsInv, RowTypes
<1>6. held.at \in Nat BY <1>1, <1>4, <1>5 DEF Rows
<1> QED BY <1>1, <1>3, <1>6 DEF Matchups!InWindow

\* The stored view is shown while it is young, and marked when the feed cannot be had.
LEMMA StoredDefaultInv ==
  ASSUME MatchupsInv, Matchups!StoredMatchupsAssumption,
         Matchups!FreshDefault \/ Matchups!StaleDefault
  PROVE  MatchupsInv'
<1>1. /\ cmd.at = "feed" /\ UNCHANGED <<clock, ends, past, archived, sync, current, own, feed>>
      /\ CommandInv
  BY DEF Matchups!FreshDefault, Matchups!StaleDefault, Matchups!world, MatchupsInv
<1>2. cmd' \in Commands /\ PartsFine(cmd') /\ Underway(cmd') /\ Resolved(cmd', own)
  <2>1. CASE cmd' = [cmd EXCEPT !.phase = "fetch"]
    <3>1. Resolved([cmd EXCEPT !.phase = "fetch"], own)
      BY <1>1 DEF CommandInv, Resolved, Commands
    <3> QED BY <1>1, <2>1, <3>1, PhaseKeeps
  <2>2. CASE cmd' = Matchups!End(cmd, "local") BY <1>1, <2>2, EndKeeps
  <2>3. ASSUME NEW fresh \in BOOLEAN, NEW held \in Matchups!DefaultSnapshots(fresh),
               cmd' = Matchups!ShowDefault(held, ~fresh)
        PROVE  cmd' \in Commands /\ PartsFine(cmd') /\ Underway(cmd') /\ Resolved(cmd', own)
    <3>1. /\ feed.pairing.week \in 1..Weeks /\ feed.pairing.at \in Nat /\ held.at \in Nat
          /\ fresh => clock - feed.pairing.at <= Window /\ clock - held.at <= Window
      BY DefaultRows
    <3>2. cmd' = Matchups!Overlay([week |-> feed.pairing.week, at |-> feed.pairing.at],
                                  [week |-> feed.pairing.week, at |-> held.at], ~fresh)
      BY <2>3 DEF Matchups!ShowDefault
    <3>3. (~fresh) \in BOOLEAN OBVIOUS
    <3> QED BY <1>1, <3>1, <3>2, <3>3, OverlayKeeps
  <2>4. \/ cmd' = [cmd EXCEPT !.phase = "fetch"]
        \/ cmd' = Matchups!End(cmd, "local")
        \/ \E held \in Matchups!DefaultSnapshots(TRUE) : cmd' = Matchups!ShowDefault(held, FALSE)
        \/ \E held \in Matchups!DefaultSnapshots(FALSE) : cmd' = Matchups!ShowDefault(held, TRUE)
    BY DEF Matchups!FreshDefault, Matchups!StaleDefault
  <2>5. CASE \E held \in Matchups!DefaultSnapshots(TRUE) : cmd' = Matchups!ShowDefault(held, FALSE)
    <3>1. PICK held \in Matchups!DefaultSnapshots(TRUE) : cmd' = Matchups!ShowDefault(held, FALSE)
      BY <2>5
    <3>2. TRUE \in BOOLEAN /\ (~TRUE) = FALSE OBVIOUS
    <3> QED BY <2>3, <3>1, <3>2
  <2>6. CASE \E held \in Matchups!DefaultSnapshots(FALSE) : cmd' = Matchups!ShowDefault(held, TRUE)
    <3>1. PICK held \in Matchups!DefaultSnapshots(FALSE) : cmd' = Matchups!ShowDefault(held, TRUE)
      BY <2>6
    <3>2. FALSE \in BOOLEAN /\ (~FALSE) = TRUE OBVIOUS
    <3> QED BY <2>3, <3>1, <3>2
  <2> QED BY <2>1, <2>2, <2>4, <2>5, <2>6
<1> QED BY <1>1, <1>2, CommandStep

\* The feed is stored now: the pairing of the week, then its rosters.
LEMMA FeedInv ==
  ASSUME MatchupsInv, Matchups!StoredMatchupsAssumption,
         Matchups!FetchRedzone \/ Matchups!SaveFeedRoster
  PROVE  MatchupsInv'
<1>1. /\ cmd.at \in {"feed", "feed roster"} /\ CommandInv
      /\ UNCHANGED <<clock, ends, past, archived, sync, current, own>>
  BY DEF Matchups!FetchRedzone, Matchups!SaveFeedRoster, Matchups!world, MatchupsInv
<1>2. /\ cmd \in Commands /\ cmd.week \in 1..Weeks /\ clock \in Nat /\ Window \in Nat
      /\ Underway(cmd) /\ PartsFine(cmd)
      /\ feed \in [pairing: Parts, roster: [1..Weeks -> [at: Nat] \cup {None}]]
  BY DEF MatchupsInv, WorldTypes, RowTypes, CommandInv, Commands, Matchups!StoredMatchupsAssumption
<1> DEFINE piece == [week |-> cmd.week, at |-> clock]
<1>3. piece \in Parts BY <1>2 DEF Parts
<1> HIDE DEF piece
<1>4. CASE cmd' = Matchups!End(cmd, "local") /\ UNCHANGED feed
  <2>1. cmd' \in Commands /\ PartsFine(cmd') /\ Underway(cmd') /\ Resolved(cmd', own)
    BY <1>1, <1>4, EndKeeps
  <2> QED BY <1>1, <1>4, <2>1, CommandStep
<1>5. CASE cmd' = [cmd EXCEPT !.at = "feed roster"] /\ feed' = [feed EXCEPT !.pairing = piece]
  <2>1. feed' \in [pairing: Parts, roster: [1..Weeks -> [at: Nat] \cup {None}]]
    BY <1>2, <1>3, <1>5
  <2>2. /\ cmd' \in Commands
        /\ cmd'.kind = cmd.kind /\ cmd'.week = cmd.week /\ cmd'.prefer = cmd.prefer
        /\ cmd'.archive = cmd.archive /\ cmd'.frozen = cmd.frozen /\ cmd'.begun = cmd.begun
        /\ cmd'.at = "feed roster" /\ cmd'.pairing = cmd.pairing /\ cmd'.roster = cmd.roster
        /\ cmd'.stale = cmd.stale
    BY <1>2, <1>5 DEF Commands
  <2>3. PartsFine(cmd') BY <1>2, <2>2 DEF PartsFine, Unmarked, Fine
  <2>4. Underway(cmd') BY <1>1, <1>2, <2>2 DEF Underway
  <2>5. Resolved(cmd', own) BY <2>2 DEF Resolved
  <2> QED BY <1>1, <2>1, <2>2, <2>3, <2>4, <2>5, CommandStep
<1>6. CASE /\ cmd' = Matchups!Overlay(piece, piece, FALSE)
           /\ feed' = [feed EXCEPT !.roster[cmd.week] = [at |-> clock]]
  <2>1. [at |-> clock] \in [at: Nat] BY <1>2
  <2>2. feed' \in [pairing: Parts, roster: [1..Weeks -> [at: Nat] \cup {None}]]
    BY <1>2, <1>6, <2>1
  <2>3. clock - clock <= Window BY <1>2
  <2>4. cmd' \in Commands /\ PartsFine(cmd') /\ Underway(cmd') /\ Resolved(cmd', own)
    BY <1>1, <1>2, <1>6, <2>3, OverlayKeeps DEF piece
  <2> QED BY <1>1, <2>2, <2>4, CommandStep
<1>7. \/ cmd' = Matchups!End(cmd, "local") /\ UNCHANGED feed
      \/ cmd' = [cmd EXCEPT !.at = "feed roster"] /\ feed' = [feed EXCEPT !.pairing = piece]
      \/ /\ cmd' = Matchups!Overlay(piece, piece, FALSE)
         /\ feed' = [feed EXCEPT !.roster[cmd.week] = [at |-> clock]]
  BY DEF Matchups!FetchRedzone, Matchups!SaveFeedRoster, piece
<1> QED BY <1>4, <1>5, <1>6, <1>7

\* Every step keeps the invariant.
LEMMA MatchupsNextInv ==
  ASSUME MatchupsInv, Matchups!StoredMatchupsAssumption, [Matchups!MatchupsNext]_(Matchups!matchups)
  PROVE  MatchupsInv'
<1>1. CASE UNCHANGED Matchups!matchups
  BY <1>1 DEF Matchups!matchups, MatchupsInv, WorldTypes, RowTypes, WeeksBefore, OverIsFinal, Over,
              CommandInv, PartsFine, Unmarked, Fine, Underway, Resolved, Matchups!IsFinal,
              Matchups!YahooWeek
<1>2. CASE Matchups!MatchupsTick BY <1>2, TickInv
<1>3. CASE Matchups!SelectAnotherLeague \/ Matchups!SyncReadsSettings \/ Matchups!SyncFails
  BY <1>3, SyncBeginsInv
<1>4. CASE Matchups!SyncStores BY <1>4, SyncStoresInv
<1>5. CASE \E kind \in Matchups!Kinds, week \in 1..Weeks : Matchups!BeginCommand(kind, week)
  BY <1>5, BeginCommandInv
<1>6. CASE Matchups!ReadSnapshot BY <1>6, ReadSnapshotInv
<1>7. CASE Matchups!FetchItem BY <1>7, FetchItemInv
<1>8. CASE Matchups!FetchItemFails BY <1>8, FetchItemFailsInv
<1>9. CASE Matchups!RereadSnapshot BY <1>9, RereadSnapshotInv
<1>10. CASE Matchups!FreshDefault \/ Matchups!StaleDefault BY <1>10, StoredDefaultInv
<1>11. CASE Matchups!FetchRedzone \/ Matchups!SaveFeedRoster BY <1>11, FeedInv
<1>12. CASE Matchups!DatabaseFails BY <1>12, DatabaseFailsInv
<1> QED
  BY <1>1, <1>2, <1>3, <1>4, <1>5, <1>6, <1>7, <1>8, <1>9, <1>10, <1>11, <1>12
  DEF Matchups!MatchupsNext

\* A view printed without a mark shows each part as Yahoo had it within the reuse window or
\* after its week was over; under -S of an archived league, every part is final (acquire and
\* the readers of snapshots in internal/app/matchup.go, the history of internal/app/sync.go).
LEMMA UnmarkedShown == Matchups!MatchupsSpec => []Matchups!UnmarkedIsCurrentOrFinal
<1>0. Matchups!StoredMatchupsAssumption BY ServicesAssumption
<1>1. Matchups!MatchupsInit => MatchupsInv BY <1>0, MatchupsInitInv
<1>2. MatchupsInv /\ [Matchups!MatchupsNext]_(Matchups!matchups) => MatchupsInv' BY <1>0, MatchupsNextInv
<1>3. MatchupsInv => Matchups!UnmarkedIsCurrentOrFinal
  BY DEF MatchupsInv, CommandInv, PartsFine, Unmarked, Fine, Matchups!UnmarkedIsCurrentOrFinal
<1> QED BY <1>1, <1>2, <1>3, PTL DEF Matchups!MatchupsSpec

\* What was stored or is shown has a time that has passed.
Passed(item) == item # None => item.at \in 1..clock

\* Every time is between one and now.
Dated ==
  /\ clock \in Matchups!Times /\ commands \in 0..MaxCommands
  /\ \A w \in 1..Len(ends) : 1 <= ends[w]
  /\ sync # None => sync.since \in 1..clock
  /\ \A item \in Matchups!Items, w \in 1..Weeks : Passed(own[item][w])
  /\ Passed(feed.pairing) /\ \A w \in 1..Weeks : Passed(feed.roster[w])
  /\ Passed(cmd.pairing) /\ Passed(cmd.roster)

\* A step within a command, after which what it stores and has is dated.
LEMMA DatedStep ==
  ASSUME Dated, UNCHANGED <<clock, ends, sync, commands>>,
         \A item \in Matchups!Items, w \in 1..Weeks : Passed(own'[item][w]),
         Passed(feed'.pairing), \A w \in 1..Weeks : Passed(feed'.roster[w]),
         Passed(cmd'.pairing), Passed(cmd'.roster)
  PROVE  Dated'
BY DEF Dated, Passed, Matchups!Times

\* A command that goes on with what it takes or with what it has.
LEMMA DatedCommand ==
  ASSUME MatchupsInv, Dated, NEW next,
         \/ \E held \in Rows, marked \in BOOLEAN :
              Matchups!Acquiring /\ held.at \in 1..clock /\ next = Matchups!Took(held, marked)
         \/ \E shown \in {"view", "local", "error"} : next = Matchups!End(cmd, shown)
         \/ \E phase \in {"fetch", "reread"} : next = [cmd EXCEPT !.phase = phase]
         \/ next = [cmd EXCEPT !.at = "feed roster"]
  PROVE  Passed(next.pairing) /\ Passed(next.roster)
<1>1. cmd \in Commands /\ Passed(cmd.pairing) /\ Passed(cmd.roster)
  BY DEF MatchupsInv, CommandInv, Dated
<1>2. ASSUME NEW held \in Rows, NEW marked \in BOOLEAN,
             Matchups!Acquiring, held.at \in 1..clock, next = Matchups!Took(held, marked)
      PROVE  Passed(next.pairing) /\ Passed(next.roster)
  <2> DEFINE piece == [week |-> cmd.week, at |-> held.at]
  <2>1. \/ next.pairing = cmd.pairing /\ next.roster = cmd.roster
        \/ next.pairing = piece /\ next.roster = cmd.roster
        \/ next.pairing = cmd.pairing /\ next.roster = piece
    BY <1>1, <1>2, TookFields
  <2>2. Passed(piece)
    <3>1. piece.at = held.at OBVIOUS
    <3> HIDE DEF piece
    <3> QED BY <1>2, <3>1 DEF Passed
  <2> HIDE DEF piece
  <2>3. Passed(cmd.pairing) /\ Passed(cmd.roster) BY <1>1
  <2> QED BY ONLY <2>1, <2>2, <2>3
<1>3. ASSUME NEW shown, next = Matchups!End(cmd, shown)
      PROVE  next.pairing = cmd.pairing /\ next.roster = cmd.roster
  BY <1>1, <1>3 DEF Matchups!End, Commands
<1>4. ASSUME NEW phase, next = [cmd EXCEPT !.phase = phase]
      PROVE  next.pairing = cmd.pairing /\ next.roster = cmd.roster
  BY <1>1, <1>4 DEF Commands
<1>5. CASE next = [cmd EXCEPT !.at = "feed roster"] BY <1>1, <1>5 DEF Commands
<1> QED BY <1>1, <1>2, <1>3, <1>4, <1>5

\* Time and synchronizations.
LEMMA DatedSync ==
  ASSUME Matchups!StoredMatchupsAssumption, MatchupsInv, Dated,
         \/ Matchups!MatchupsTick \/ Matchups!SelectAnotherLeague
         \/ Matchups!SyncReadsSettings \/ Matchups!SyncStores \/ Matchups!SyncFails
  PROVE  Dated'
<1>1. /\ clock \in Nat /\ clock >= 1 /\ LastClock \in Nat /\ ends \in Seq(Nat) /\ Len(ends) \in Nat
      /\ own \in [Matchups!Items -> [1..Weeks -> Rows \cup {None}]]
  BY DEF Dated, Matchups!Times, MatchupsInv, WorldTypes, RowTypes, Matchups!StoredMatchupsAssumption
<1>2. CASE Matchups!MatchupsTick
  <2>1. /\ clock' = clock + 1 /\ clock < LastClock
        /\ ends' = ends \/ ends' = Append(ends, clock + 1)
        /\ UNCHANGED <<past, archived, sync, current, own, feed, cmd, commands>>
    BY <1>2 DEF Matchups!MatchupsTick
  <2>2. \A item : Passed(item) => Passed(item)' BY <1>1, <2>1 DEF Passed
  <2>3. \A w \in 1..Len(ends') : 1 <= ends'[w]
    <3>1. CASE ends' = ends BY <3>1 DEF Dated
    <3>2. CASE ends' = Append(ends, clock + 1)
      <4>1. Len(ends') = Len(ends) + 1 /\ ends'[Len(ends) + 1] = clock + 1
            /\ \A w \in 1..Len(ends) : ends'[w] = ends[w]
        BY <1>1, <3>2
      <4>2. \A w \in 1..Len(ends) + 1 : w \in 1..Len(ends) \/ w = Len(ends) + 1 BY <1>1
      <4> QED BY <1>1, <4>1, <4>2 DEF Dated
    <3> QED BY <2>1, <3>1, <3>2
  <2>4. clock' \in Matchups!Times BY <1>1, <2>1 DEF Matchups!Times
  <2>5. sync' # None => sync'.since \in 1..clock' BY <1>1, <2>1 DEF Dated
  <2> HIDE <1>2
  <2>6. \A item \in Matchups!Items, w \in 1..Weeks : Passed(own[item][w])' BY <2>1, <2>2 DEF Dated
  <2>7. Passed(feed.pairing)' /\ \A w \in 1..Weeks : Passed(feed.roster[w])' BY <2>1, <2>2 DEF Dated
  <2>8. Passed(cmd.pairing)' /\ Passed(cmd.roster)' BY <2>1, <2>2 DEF Dated
  <2> QED BY <2>1, <2>3, <2>4, <2>5, <2>6, <2>7, <2>8 DEF Dated
<1>3. CASE Matchups!SelectAnotherLeague
  BY <1>3 DEF Matchups!SelectAnotherLeague, Dated, Passed, Matchups!Times
<1>4. CASE Matchups!SyncReadsSettings
  BY <1>1, <1>4 DEF Matchups!SyncReadsSettings, Matchups!world, Dated, Passed, Matchups!Times
<1>5. CASE Matchups!SyncFails
  BY <1>5 DEF Matchups!SyncFails, Matchups!world, Dated, Passed, Matchups!Times
<1>6. CASE Matchups!SyncStores
  <2>1. /\ own' = [i \in Matchups!Items |-> [w \in 1..Weeks |-> Matchups!History(i, w)]]
        /\ sync' = None /\ UNCHANGED <<clock, ends, feed, cmd, commands>>
    BY <1>6 DEF Matchups!SyncStores
  <2>2. ASSUME NEW i \in Matchups!Items, NEW w \in 1..Weeks PROVE Passed(own'[i][w])
    <3>1. own'[i][w] = Matchups!History(i, w) BY <2>1
    <3>2. Passed(own[i][w]) BY DEF Dated
    <3>3. [at |-> clock, stale |-> FALSE, version |-> "v1"].at = clock OBVIOUS
    <3>4. own'[i][w] = own[i][w] \/ own'[i][w].at = clock BY <3>1, <3>3 DEF Matchups!History
    <3> QED BY <1>1, <3>2, <3>4 DEF Passed
  <2> QED BY <2>1, <2>2 DEF Dated, Passed, Matchups!Times
<1> QED BY <1>2, <1>3, <1>4, <1>5, <1>6

\* What a command stores of its item it has just fetched or has marked.
LEMMA DatedStores ==
  ASSUME MatchupsInv, Dated, Matchups!Acquiring,
         NEW held \in Rows, Passed(held), own' = [own EXCEPT ![Matchups!Item][cmd.week] = held]
  PROVE  \A item \in Matchups!Items, w \in 1..Weeks : Passed(own'[item][w])
<1>1. own \in [Matchups!Items -> [1..Weeks -> Rows \cup {None}]] BY DEF MatchupsInv, RowTypes
<1>2. Matchups!Item \in Matchups!Items /\ cmd.week \in 1..Weeks BY StoredIsRow
<1>3. ASSUME NEW item \in Matchups!Items, NEW w \in 1..Weeks
      PROVE  own'[item][w] = held \/ own'[item][w] = own[item][w]
  BY <1>1, <1>2
<1> QED BY <1>3 DEF Dated

\* The items of a command.
LEMMA DatedItem ==
  ASSUME Matchups!StoredMatchupsAssumption, MatchupsInv, Dated,
         \/ Matchups!ReadSnapshot \/ Matchups!FetchItem \/ Matchups!FetchItemFails
         \/ Matchups!RereadSnapshot \/ Matchups!DatabaseFails
  PROVE  Dated'
<1>1. /\ clock \in Nat /\ clock >= 1 /\ (\A item \in Matchups!Items, w \in 1..Weeks : Passed(own[item][w]))
      /\ Passed(feed.pairing) /\ (\A w \in 1..Weeks : Passed(feed.roster[w]))
  BY DEF Dated, Matchups!Times, MatchupsInv, WorldTypes
<1> DEFINE held == Matchups!Stored
<1>2. Matchups!Acquiring => held \in Rows \cup {None} /\ Passed(held)
  BY <1>1, StoredIsRow DEF Matchups!Stored
<1>3. CASE Matchups!ReadSnapshot
  <2>1. /\ Matchups!Acquiring
        /\ \/ Matchups!Usable /\ cmd' = Matchups!Took(held, held.stale)
           \/ cmd' = [cmd EXCEPT !.phase = "fetch"]
        /\ UNCHANGED <<clock, ends, sync, own, feed, commands>>
    BY <1>3 DEF Matchups!ReadSnapshot, Matchups!world, Matchups!ReusedOrPreferred
  <2>2. Matchups!Usable => held \in Rows /\ held.stale \in BOOLEAN /\ held.at \in 1..clock
    BY <1>2, <2>1 DEF Matchups!Usable, Rows, Passed
  <2> HIDE DEF held
  <2>3. Passed(cmd'.pairing) /\ Passed(cmd'.roster) BY <1>2, <2>1, <2>2, DatedCommand
  <2> QED BY <1>1, <2>1, <2>3, DatedStep
<1>4. CASE Matchups!FetchItem
  <2> DEFINE fetched == [at |-> clock, stale |-> FALSE, version |-> Matchups!Version(Matchups!Item)]
  <2>1. /\ Matchups!Acquiring /\ cmd' = Matchups!Took(fetched, FALSE)
        /\ own' = [own EXCEPT ![Matchups!Item][cmd.week] = fetched]
        /\ UNCHANGED <<clock, ends, sync, feed, commands>>
    BY <1>4 DEF Matchups!FetchItem, Matchups!world
  <2>2. fetched \in Rows /\ fetched.at \in 1..clock /\ Passed(fetched) BY <1>1 DEF Rows, Passed, Matchups!Version
  <2> HIDE DEF fetched
  <2>3. Passed(cmd'.pairing) /\ Passed(cmd'.roster) BY <2>1, <2>2, DatedCommand
  <2>4. \A item \in Matchups!Items, w \in 1..Weeks : Passed(own'[item][w]) BY <2>1, <2>2, DatedStores
  <2> QED BY <1>1, <2>1, <2>3, <2>4, DatedStep
<1>5. CASE Matchups!FetchItemFails
  <2>1. /\ Matchups!Acquiring /\ cmd' = [cmd EXCEPT !.phase = "reread"]
        /\ \/ own' = own
           \/ held # None /\ own' = [own EXCEPT ![Matchups!Item][cmd.week].stale = TRUE]
        /\ UNCHANGED <<clock, ends, sync, feed, commands>>
    BY <1>5 DEF Matchups!FetchItemFails, Matchups!world, Matchups!Stored
  <2>2. Passed(cmd'.pairing) /\ Passed(cmd'.roster) BY <2>1, DatedCommand
  <2>3. \A item \in Matchups!Items, w \in 1..Weeks : Passed(own'[item][w])
    <3>1. CASE held # None /\ own' = [own EXCEPT ![Matchups!Item][cmd.week].stale = TRUE]
      <4> DEFINE marked == [held EXCEPT !.stale = TRUE]
      <4>1. held \in Rows /\ Passed(held) BY <1>2, <2>1, <3>1
      <4>2. own' = [own EXCEPT ![Matchups!Item][cmd.week] = marked]
        <5>1. /\ own \in [Matchups!Items -> [1..Weeks -> Rows \cup {None}]]
              /\ Matchups!Item \in Matchups!Items /\ cmd.week \in 1..Weeks
          BY <2>1, StoredIsRow DEF MatchupsInv, RowTypes
        <5> QED BY <3>1, <5>1 DEF Matchups!Stored
      <4> HIDE DEF held
      <4>3. marked \in Rows /\ Passed(marked) BY <3>1, <4>1 DEF Rows, Passed
      <4> HIDE DEF marked
      <4> QED BY <2>1, <4>2, <4>3, DatedStores
    <3> QED BY <1>1, <2>1, <3>1
  <2> QED BY <1>1, <2>1, <2>2, <2>3, DatedStep
<1>6. CASE Matchups!RereadSnapshot \/ Matchups!DatabaseFails
  <2>1. /\ \/ Matchups!Acquiring /\ Matchups!Usable /\ \E marked \in BOOLEAN : cmd' = Matchups!Took(held, marked)
           \/ \E shown \in {"view", "local", "error"} : cmd' = Matchups!End(cmd, shown)
        /\ UNCHANGED <<clock, ends, sync, own, feed, commands>>
    BY <1>6 DEF Matchups!RereadSnapshot, Matchups!DatabaseFails, Matchups!Missed, Matchups!world
  <2>2. Matchups!Acquiring /\ Matchups!Usable => held \in Rows /\ held.at \in 1..clock
    BY <1>2 DEF Matchups!Usable, Passed
  <2> HIDE DEF held
  <2>3. Passed(cmd'.pairing) /\ Passed(cmd'.roster) BY <1>2, <2>1, <2>2, DatedCommand
  <2> QED BY <1>1, <2>1, <2>3, DatedStep
<1> QED BY <1>3, <1>4, <1>5, <1>6

\* A command begins, and the feed of today.
LEMMA DatedFeed ==
  ASSUME Matchups!StoredMatchupsAssumption, MatchupsInv, Dated,
         \/ \E kind \in Matchups!Kinds, week \in 1..Weeks : Matchups!BeginCommand(kind, week)
         \/ Matchups!FreshDefault \/ Matchups!FetchRedzone \/ Matchups!SaveFeedRoster
         \/ Matchups!StaleDefault
  PROVE  Dated'
<1>1. /\ clock \in Nat /\ clock >= 1 /\ (\A item \in Matchups!Items, w \in 1..Weeks : Passed(own[item][w]))
      /\ Passed(feed.pairing) /\ (\A w \in 1..Weeks : Passed(feed.roster[w]))
      /\ feed \in [pairing: Parts, roster: [1..Weeks -> [at: Nat] \cup {None}]]
      /\ own \in [Matchups!Items -> [1..Weeks -> Rows \cup {None}]]
      /\ cmd \in Commands /\ cmd.week \in 1..Weeks
  <2>1. MatchupsInv /\ WorldTypes /\ RowTypes /\ cmd \in Commands BY DEF MatchupsInv, CommandInv
  <2>2. clock \in Nat BY <2>1 DEF WorldTypes
  <2>3. clock >= 1 BY <2>2 DEF Dated, Matchups!Times
  <2>4. cmd.week \in 1..Weeks BY <2>1 DEF Commands
  <2> QED BY <2>1, <2>2, <2>3, <2>4 DEF RowTypes, Dated
<1>2. ASSUME NEW kind \in Matchups!Kinds, NEW week \in 1..Weeks, Matchups!BeginCommand(kind, week)
      PROVE  Dated'
  <2>1. cmd'.pairing = None /\ cmd'.roster = None
    BY <1>2 DEF Matchups!BeginCommand, Matchups!NoCommand
  <2>2. commands < MaxCommands /\ commands' = commands + 1 /\ UNCHANGED <<clock, ends, sync, own, feed>>
    BY <1>2 DEF Matchups!BeginCommand, Matchups!world
  <2>3. commands' \in 0..MaxCommands BY <2>2 DEF Dated, Matchups!StoredMatchupsAssumption
  <2> QED BY <1>1, <2>1, <2>2, <2>3 DEF Dated, Passed, Matchups!Times
<1>3. ASSUME NEW paired, NEW rostered, NEW marked,
             cmd' = Matchups!Overlay([week |-> paired.week, at |-> paired.at],
                                     [week |-> rostered.week, at |-> rostered.at], marked)
      PROVE  cmd'.pairing.at = paired.at /\ cmd'.roster.at = rostered.at
  BY <1>1, <1>3 DEF Matchups!Overlay, Commands
<1>4. CASE Matchups!FreshDefault \/ Matchups!StaleDefault
  <2>1. /\ \/ cmd' = [cmd EXCEPT !.phase = "fetch"]
           \/ cmd' = Matchups!End(cmd, "local")
           \/ \E fresh, marked \in BOOLEAN : \E held \in Matchups!DefaultSnapshots(fresh) :
                cmd' = Matchups!ShowDefault(held, marked)
        /\ UNCHANGED <<clock, ends, sync, own, feed, commands>>
    BY <1>4 DEF Matchups!FreshDefault, Matchups!StaleDefault, Matchups!world
  <2>2. ASSUME NEW fresh \in BOOLEAN, NEW marked \in BOOLEAN, NEW held \in Matchups!DefaultSnapshots(fresh),
               cmd' = Matchups!ShowDefault(held, marked)
        PROVE  Passed(cmd'.pairing) /\ Passed(cmd'.roster)
    <3>1. /\ feed.pairing # None /\ feed.pairing.week \in 1..Weeks /\ held # None
          /\ held \in {own["roster"][feed.pairing.week], feed.roster[feed.pairing.week]}
      BY <2>2, DefaultRows DEF Matchups!DefaultSnapshots, Matchups!Rosters
    <3>2. "roster" \in Matchups!Items BY DEF Matchups!Items
    <3>3. Passed(held) BY <1>1, <3>1, <3>2
    <3>4. cmd'.pairing.at = feed.pairing.at /\ cmd'.roster.at = held.at
      BY <1>1, <2>2 DEF Matchups!ShowDefault, Matchups!Overlay, Commands
    <3> QED BY <1>1, <3>1, <3>3, <3>4 DEF Passed
  <2>3. Passed(cmd'.pairing) /\ Passed(cmd'.roster) BY <2>1, <2>2, DatedCommand
  <2> QED BY <1>1, <2>1, <2>3, DatedStep
<1>5. CASE Matchups!FetchRedzone
  <2>1. /\ \/ /\ feed' = [feed EXCEPT !.pairing = [week |-> cmd.week, at |-> clock]]
              /\ cmd' = [cmd EXCEPT !.at = "feed roster"]
           \/ cmd' = Matchups!End(cmd, "local") /\ feed' = feed
        /\ UNCHANGED <<clock, ends, sync, own, commands>>
    BY <1>5 DEF Matchups!FetchRedzone, Matchups!world
  <2>2. Passed(cmd'.pairing) /\ Passed(cmd'.roster) BY <2>1, DatedCommand
  <2>3. feed'.roster = feed.roster /\ (feed'.pairing = feed.pairing \/ feed'.pairing.at = clock)
    <3> DEFINE piece == [week |-> cmd.week, at |-> clock]
    <3>1. piece.at = clock OBVIOUS
    <3>2. feed' = [feed EXCEPT !.pairing = piece] \/ feed' = feed BY <2>1
    <3>3. feed \in [pairing: Parts, roster: [1..Weeks -> [at: Nat] \cup {None}]] BY <1>1
    <3> HIDE DEF piece
    <3>4. feed' = [feed EXCEPT !.pairing = piece] => feed'.roster = feed.roster /\ feed'.pairing = piece
      BY ONLY <3>3
    <3> QED BY <3>1, <3>2, <3>4
  <2>4. Passed(feed'.pairing) /\ \A w \in 1..Weeks : Passed(feed'.roster[w])
    BY <1>1, <2>3 DEF Passed
  <2> QED BY <1>1, <2>1, <2>2, <2>4, DatedStep
<1>6. CASE Matchups!SaveFeedRoster
  <2> DEFINE piece == [week |-> cmd.week, at |-> clock]
  <2>1. /\ feed' = [feed EXCEPT !.roster[cmd.week] = [at |-> clock]]
        /\ cmd' = Matchups!Overlay(piece, piece, FALSE)
        /\ UNCHANGED <<clock, ends, sync, own, commands>>
    BY <1>6 DEF Matchups!SaveFeedRoster, Matchups!world
  <2>2. cmd'.pairing.at = clock /\ cmd'.roster.at = clock
    BY <1>1, <2>1 DEF Matchups!Overlay, Commands
  <2>3. /\ feed'.pairing = feed.pairing
        /\ \A w \in 1..Weeks : feed'.roster[w] = feed.roster[w] \/ feed'.roster[w].at = clock
    BY <1>1, <2>1
  <2>4. Passed(feed'.pairing) /\ \A w \in 1..Weeks : Passed(feed'.roster[w])
    BY <1>1, <2>3 DEF Passed
  <2>5. Passed(cmd'.pairing) /\ Passed(cmd'.roster) BY <1>1, <2>2 DEF Passed
  <2> QED BY <1>1, <2>1, <2>4, <2>5, DatedStep
<1> QED BY <1>2, <1>4, <1>5, <1>6

\* The variables of the stored matchups have their types.
LEMMA MatchupsTypes == Matchups!MatchupsSpec => []Matchups!MatchupsTypeOK
<1>0. Matchups!StoredMatchupsAssumption BY ServicesAssumption
<1>1. Matchups!MatchupsInit => MatchupsInv BY <1>0, MatchupsInitInv
<1>2. MatchupsInv /\ [Matchups!MatchupsNext]_(Matchups!matchups) => MatchupsInv' BY <1>0, MatchupsNextInv
<1>3. Matchups!MatchupsInit => Dated
  BY <1>0 DEF Matchups!MatchupsInit, Matchups!NoCommand, Matchups!StoredMatchupsAssumption,
              Matchups!Times, Dated, Passed
<1>4. MatchupsInv /\ Dated /\ [Matchups!MatchupsNext]_(Matchups!matchups) => Dated'
  <2> SUFFICES ASSUME MatchupsInv, Dated, [Matchups!MatchupsNext]_(Matchups!matchups) PROVE Dated'
    OBVIOUS
  <2>1. CASE UNCHANGED Matchups!matchups
    BY <2>1 DEF Matchups!matchups, Dated, Passed, Matchups!Times
  <2> QED BY <1>0, <2>1, DatedSync, DatedItem, DatedFeed DEF Matchups!MatchupsNext
<1>5. MatchupsInv /\ Dated => Matchups!MatchupsTypeOK
  <2> SUFFICES ASSUME MatchupsInv, Dated PROVE Matchups!MatchupsTypeOK
    OBVIOUS
  <2>1. clock \in Matchups!Times /\ clock \in Nat /\ LastClock \in Nat /\ clock <= LastClock
    BY <1>0 DEF Dated, MatchupsInv, WorldTypes, Matchups!Times, Matchups!StoredMatchupsAssumption
  <2>2. \A at \in 1..clock : at \in Matchups!Times BY <2>1 DEF Matchups!Times
  <2>3. \A w \in 1..Len(ends) : ends[w] \in Matchups!Times
    <3>1. \A w \in 1..Len(ends) : ends[w] \in Nat /\ 1 <= ends[w] /\ ends[w] <= clock
      BY DEF MatchupsInv, WorldTypes, Dated
    <3> QED BY <2>1, <3>1 DEF Matchups!Times
  <2>4. sync \in [week: 1..Weeks, since: Matchups!Times] \cup {None}
    BY <2>2 DEF MatchupsInv, WorldTypes, Dated
  <2>5. ASSUME NEW piece \in Parts, Passed(piece) PROVE piece \in Matchups!Parts
    BY <2>2, <2>5 DEF Parts, Matchups!Parts, Passed
  <2>6. ASSUME NEW item \in Matchups!Items, NEW w \in 1..Weeks
        PROVE  own[item][w] \in [at: Matchups!Times, stale: BOOLEAN, version: {"v1", "v2"}] \cup {None}
    <3>1. own[item][w] \in Rows \cup {None} /\ Passed(own[item][w]) BY DEF MatchupsInv, RowTypes, Dated
    <3> QED BY <2>2, <3>1 DEF Rows, Passed
  <2>7. ASSUME NEW w \in 1..Weeks PROVE feed.roster[w] \in [at: Matchups!Times] \cup {None}
    <3>1. feed.roster[w] \in [at: Nat] \cup {None} /\ Passed(feed.roster[w])
      BY DEF MatchupsInv, RowTypes, Dated
    <3> QED BY <2>2, <3>1 DEF Passed
  <2>8. feed.pairing \in Matchups!Parts /\ cmd.pairing \in Matchups!Parts /\ cmd.roster \in Matchups!Parts
    BY <2>5 DEF MatchupsInv, RowTypes, CommandInv, Commands, Dated
  <2>9. /\ own \in [Matchups!Items -> [1..Weeks ->
                     [at: Matchups!Times, stale: BOOLEAN, version: {"v1", "v2"}] \cup {None}]]
        /\ feed.roster \in [1..Weeks -> [at: Matchups!Times] \cup {None}]
    BY <2>6, <2>7 DEF MatchupsInv, RowTypes
  <2>10. cmd.result \in {"none", "view", "local", "error"} BY DEF MatchupsInv, CommandInv, Commands
  <2> QED BY <2>1, <2>3, <2>4, <2>8, <2>9, <2>10 DEF Matchups!MatchupsTypeOK, MatchupsInv, WorldTypes, Dated
<1> QED BY <1>1, <1>2, <1>3, <1>4, <1>5, PTL DEF Matchups!MatchupsSpec

(***************************************************************************)
(* The migration. A database is a supported one, in the schema of the      *)
(* version it names, or not skout's at all; a transaction works towards    *)
(* the current schema, from the version it read or from the current one,   *)
(* if another process was first.                                           *)
(***************************************************************************)

Versions == 1..7
BuiltFor(d, v) == \E base \in SUBSET Mig!Optional : d.features = Mig!SchemaOf(v, base)
Versioned(d, v) == d.rows = <<v>> /\ BuiltFor(d, v)
UpToDate(d) == Versioned(d, 7)
Empty(d) == d.rows = None /\ d.features = {} /\ d.dashboard = Blank
Older(d) == \E v \in 1..6 : Versioned(d, v) /\ (v < 3 => d.dashboard = Blank)
Foreign(d) == d.features = {"foreign"} /\ d.rows \in {None, <<>>, <<8>>, <<7, 7>>}

DatabaseInv ==
  db \in Mig!Database /\ (UpToDate(db) \/ Empty(db) \/ Older(db) \/ Foreign(db))

Openings ==
  [pc: {"closed", "tables", "version_table", "rows", "version", "wal", "begin",
        "create", "step", "commit", "open"},
   pass: {1, 2}, tables: BOOLEAN, version: 0..7]

\* What an opener has learnt of database d, which others may meanwhile have upgraded.
Learnt(o, d) ==
  /\ o.pc \in {"tables", "version_table", "rows", "version"} => o.version = 0
  /\ o.pc = "version_table" /\ ~o.tables => ~Foreign(d)
  /\ o.pc \in {"rows", "version"} => d.rows # None
  /\ o.pc = "version" => Len(d.rows) = 1
  /\ o.pc = "begin" => /\ ~Foreign(d)
                       /\ o.version = 0 => d.rows = None \/ UpToDate(d)
                       /\ o.version # 0 => o.version < 7 /\ (d.rows = <<o.version>> \/ UpToDate(d))
  /\ o.pc = "open" => UpToDate(d)

\* What its transaction has made of it.
Worked(o, d, w) ==
  o.pc \in Mig!Transacting =>
    /\ w \in Mig!Database /\ w.dashboard = d.dashboard /\ ~Foreign(d)
    /\ o.pc = "create" => w = d /\ (d.rows = None \/ UpToDate(d))
    /\ o.pc = "step" =>
         /\ o.version \in 1..6
         /\ \/ Versioned(w, o.version) /\ (o.version < 3 => w.dashboard = Blank)
            \/ UpToDate(d) /\ BuiltFor(w, 7)
    /\ o.pc = "commit" => UpToDate(w)

OpenersInv ==
  /\ opener \in [Openers -> Openings]
  /\ \A p \in Openers : Learnt(opener[p], db) /\ Worked(opener[p], db, work)
  /\ \A p, q \in Openers :
       opener[p].pc \in Mig!Transacting /\ opener[q].pc \in Mig!Transacting => p = q

MigrationInv == DatabaseInv /\ (work = None \/ work \in Mig!Database) /\ OpenersInv

\* A step of the migration makes the next version of its own, and nothing of the current one
\* unless it fails on it.
LEMMA StepBuilds ==
  ASSUME Mig!MigrationAssumption, NEW d \in Mig!Database, NEW v \in 1..6, ~Mig!StepFails(d, v)
  PROVE  LET next == Mig!Migrated(d, v)
         IN /\ next \in Mig!Database
            /\ next.rows = <<v + 1>> /\ (v # 2 => next.dashboard = d.dashboard)
            /\ v = 2 => next.dashboard = Blank
            /\ BuiltFor(d, v) => BuiltFor(next, v + 1)
            /\ BuiltFor(d, 7) => BuiltFor(next, 7) /\ v > 2
<1> DEFINE next == Mig!Migrated(d, v)
           built == (d.features \ Mig!StepDrops(v)) \union Mig!StepAdds(d, v)
           dashboardRow == Mig!StepDashboard(d, v)
<1>1. /\ next.rows = <<v + 1>> /\ next.features = built /\ next.dashboard = dashboardRow
      /\ next = [rows |-> <<v + 1>>, features |-> built, dashboard |-> dashboardRow]
  BY DEF Mig!Migrated
<1>2. dashboardRow = IF v = 2 THEN Blank ELSE d.dashboard BY DEF Mig!StepDashboard
<1>3. /\ d.rows \in {None} \union Seq(Nat) /\ d.features \in SUBSET Mig!Features
      /\ d.dashboard \in Values
  BY DEF Mig!Database
<1>4. ASSUME NEW base \in SUBSET Mig!Optional, d.features = Mig!SchemaOf(v, base)
      PROVE  built = Mig!SchemaOf(v + 1, base)
  <2>1. base \subseteq {"statcast", "leagues"} BY DEF Mig!Optional
  <2>2. CASE v = 1
    BY <1>4, <2>1, <2>2 DEF Mig!SchemaOf, Mig!StepAdds, Mig!StepDrops
  <2>3. CASE v = 2
    BY <1>4, <2>1, <2>3 DEF Mig!SchemaOf, Mig!StepAdds, Mig!StepDrops
  <2>4. CASE v = 3
    BY <1>4, <2>1, <2>4 DEF Mig!SchemaOf, Mig!StepAdds, Mig!StepDrops
  <2>5. CASE v = 4
    BY <1>4, <2>1, <2>5 DEF Mig!SchemaOf, Mig!StepAdds, Mig!StepDrops
  <2>6. CASE v = 5
    BY <1>4, <2>1, <2>6 DEF Mig!SchemaOf, Mig!StepAdds, Mig!StepDrops
  <2>7. CASE v = 6
    BY <1>4, <2>1, <2>7 DEF Mig!SchemaOf, Mig!StepAdds, Mig!StepDrops
  <2> QED BY <2>2, <2>3, <2>4, <2>5, <2>6, <2>7
<1>5. ASSUME NEW base \in SUBSET Mig!Optional, d.features = Mig!SchemaOf(7, base)
      PROVE  built = Mig!SchemaOf(7, base) /\ v > 2
  <2>1. base \subseteq {"statcast", "leagues"} BY DEF Mig!Optional
  <2>2. v # 1 /\ v # 2 BY <1>5 DEF Mig!StepFails, Mig!SchemaOf
  <2>3. CASE v = 3
    <3>1. "statcast" \notin d.features BY <1>5, <2>1, <2>3 DEF Mig!StepFails, Mig!SchemaOf
    <3> QED BY <1>5, <2>1, <2>3, <3>1 DEF Mig!SchemaOf, Mig!StepAdds, Mig!StepDrops
  <2>4. CASE v = 4
    BY <1>5, <2>1, <2>4 DEF Mig!SchemaOf, Mig!StepAdds, Mig!StepDrops
  <2>5. CASE v = 5
    BY <1>5, <2>1, <2>5 DEF Mig!SchemaOf, Mig!StepAdds, Mig!StepDrops
  <2>6. CASE v = 6
    BY <1>5, <2>1, <2>6 DEF Mig!SchemaOf, Mig!StepAdds, Mig!StepDrops
  <2> QED BY <2>2, <2>3, <2>4, <2>5, <2>6
<1>6. built \in SUBSET Mig!Features
  BY <1>3 DEF Mig!StepAdds, Mig!Features, Mig!Optional
<1>7. next \in Mig!Database
  <2>1. dashboardRow \in Values /\ <<v + 1>> \in Seq(Nat)
    BY <1>2, <1>3 DEF Mig!MigrationAssumption
  <2> QED BY <1>1, <1>6, <2>1 DEF Mig!Database
<1> QED BY <1>1, <1>2, <1>4, <1>5, <1>7 DEF BuiltFor

\* The schema as it is created, over nothing or over the current one.
LEMMA CreatedIsCurrent ==
  ASSUME NEW d \in Mig!Database, d.features = {} \/ BuiltFor(d, 7)
  PROVE  LET next == Mig!Created(d)
         IN next \in Mig!Database /\ UpToDate(next) /\ next.dashboard = d.dashboard
<1> DEFINE next == Mig!Created(d)
<1>1. /\ next = [rows |-> <<7>>, features |-> next.features, dashboard |-> d.dashboard]
      /\ next.rows = <<7>> /\ next.dashboard = d.dashboard
      /\ next.features = d.features \union Mig!SchemaOf(7, Mig!Optional)
  BY DEF Mig!Created, Mig!CurrentSchemaVersion
<1>2. next.features = Mig!SchemaOf(7, Mig!Optional)
  BY <1>1 DEF BuiltFor, Mig!SchemaOf, Mig!Optional
<1>3. next.features \in SUBSET Mig!Features
  BY <1>2 DEF Mig!SchemaOf, Mig!Features, Mig!Optional
<1>4. d.dashboard \in Values BY DEF Mig!Database
<1>5. <<7>> \in Seq(Nat) OBVIOUS
<1>6. next \in Mig!Database BY <1>1, <1>3, <1>4, <1>5 DEF Mig!Database
<1>7. UpToDate(next) BY <1>1, <1>2 DEF UpToDate, Versioned, BuiltFor
<1> QED BY <1>1, <1>6, <1>7

\* The kinds of database exclude one another.
LEMMA KindsDiffer ==
  ASSUME NEW d \in Mig!Database, Mig!MigrationAssumption
  PROVE  /\ UpToDate(d) => ~Foreign(d) /\ d.rows # None /\ Len(d.rows) = 1 /\ d.rows[1] = 7
         /\ Older(d) => ~Foreign(d) /\ d.rows # None
         /\ Empty(d) => ~Foreign(d)
         /\ d.rows = <<7>> => ~Older(d) /\ ~Empty(d) /\ ~Foreign(d)
<1>1. None \notin Seq(Nat) /\ \A v \in Nat : <<v>> \in Seq(Nat)
  <2>1. \A v \in Nat : <<v>> \in Seq(Nat) OBVIOUS
  <2> QED BY <2>1 DEF Mig!MigrationAssumption
<1>2. ASSUME NEW v \in Versions, Versioned(d, v)
      PROVE  d.rows # None /\ Len(d.rows) = 1 /\ d.rows[1] = v /\ ~Foreign(d)
  <2>1. d.rows = <<v>> /\ v \in Nat BY <1>2 DEF Versioned, Versions
  <2>2. d.rows # None /\ Len(d.rows) = 1 /\ d.rows[1] = v
    <3>1. <<v>> \in Seq(Nat) /\ Len(<<v>>) = 1 /\ <<v>>[1] = v BY <2>1
    <3> QED BY <1>1, <2>1, <3>1
  <2>3. d.rows # <<>> /\ d.rows # <<7, 7>> /\ d.rows # <<8>>
    <3>1. Len(<<>>) = 0 /\ Len(<<7, 7>>) = 2 /\ <<8>>[1] = 8
      <4>1. Len(<<>>) = 0 OBVIOUS
      <4>2. Len(<<7, 7>>) = 2 OBVIOUS
      <4>3. <<8>>[1] = 8 OBVIOUS
      <4> QED BY <4>1, <4>2, <4>3
    <3>2. v # 8 BY DEF Versions
    <3> QED BY <2>2, <3>1, <3>2
  <2> QED BY <2>2, <2>3 DEF Foreign
<1>3. ~Foreign(d) \/ d.features # {} BY DEF Foreign
<1>4. d.rows = <<7>> => ~Older(d) /\ ~Empty(d) /\ ~Foreign(d)
  <2> HAVE d.rows = <<7>>
  <2>1. ~Older(d) BY <1>2 DEF Older, Versioned, Versions
  <2>2. ~Empty(d) BY <1>1 DEF Empty
  <2>3. ~Foreign(d)
    <3>1. Len(<<>>) = 0 /\ Len(<<7, 7>>) = 2 /\ <<8>>[1] = 8
      <4>1. Len(<<>>) = 0 OBVIOUS
      <4>2. Len(<<7, 7>>) = 2 OBVIOUS
      <4>3. <<8>>[1] = 8 OBVIOUS
      <4> QED BY <4>1, <4>2, <4>3
    <3>2. Len(d.rows) = 1 /\ d.rows[1] = 7
      <4>1. Len(<<7>>) = 1 /\ <<7>>[1] = 7 OBVIOUS
      <4> QED BY <4>1
    <3>3. d.rows # None
      <4>1. <<7>> \in Seq(Nat) OBVIOUS
      <4> QED BY <1>1, <4>1
    <3> QED BY <3>1, <3>2, <3>3 DEF Foreign
  <2> QED BY <2>1, <2>2, <2>3
<1> QED BY <1>2, <1>3, <1>4 DEF UpToDate, Older, Empty, Versions

\* Nothing has been read at first, of a database of any release, of another program or of none.
LEMMA MigrationInitInv == Mig!MigrationAssumption /\ Mig!MigrationInit => MigrationInv
<1> SUFFICES ASSUME Mig!MigrationAssumption, Mig!MigrationInit PROVE MigrationInv
  OBVIOUS
<1>1. /\ db \in {d \in Mig!Old : "dashboard" \notin d.features => d.dashboard = Blank}
               \union Mig!Unsupported \union {Mig!Empty}
      /\ work = None
      /\ opener = [p \in Openers |-> [pc |-> "closed", pass |-> 1, tables |-> FALSE, version |-> 0]]
  BY DEF Mig!MigrationInit
<1>2. ASSUME db = Mig!Empty PROVE DatabaseInv
  <2>1. db.rows = None /\ db.features = {} /\ db.dashboard = Blank BY <1>2 DEF Mig!Empty
  <2>2. db \in Mig!Database BY <1>2 DEF Mig!Empty, Mig!Database, Mig!MigrationAssumption
  <2> QED BY <2>1, <2>2 DEF DatabaseInv, Empty
<1>3. ASSUME db \in Mig!Unsupported PROVE DatabaseInv
  <2>1. PICK r \in {None, <<>>, <<8>>, <<7, 7>>} :
          db = [rows |-> r, features |-> {"foreign"}, dashboard |-> Blank]
    BY <1>3 DEF Mig!Unsupported
  <2>2. r \in {None} \union Seq(Nat)
    <3>1. <<>> \in Seq(Nat) OBVIOUS
    <3>2. <<8>> \in Seq(Nat) OBVIOUS
    <3>3. <<7, 7>> \in Seq(Nat) OBVIOUS
    <3> QED BY <3>1, <3>2, <3>3
  <2>3. {"foreign"} \in SUBSET Mig!Features BY DEF Mig!Features
  <2>4. db \in Mig!Database BY <2>1, <2>2, <2>3 DEF Mig!Database, Mig!MigrationAssumption
  <2>5. db.features = {"foreign"} /\ db.rows = r BY <2>1
  <2> QED BY <2>4, <2>5 DEF DatabaseInv, Foreign
<1>4. ASSUME db \in {d \in Mig!Old : "dashboard" \notin d.features => d.dashboard = Blank}
      PROVE  DatabaseInv
  <2>1. /\ "dashboard" \notin db.features => db.dashboard = Blank
        /\ \E v \in 1..7, base \in SUBSET Mig!Optional, value \in Values :
             db = [rows |-> <<v>>, features |-> Mig!SchemaOf(v, base), dashboard |-> value]
    BY <1>4 DEF Mig!Old, Mig!CurrentSchemaVersion
  <2>2. PICK v \in 1..7, base \in SUBSET Mig!Optional, value \in Values :
          db = [rows |-> <<v>>, features |-> Mig!SchemaOf(v, base), dashboard |-> value]
    BY <2>1
  <2>3. /\ db.rows = <<v>> /\ db.features = Mig!SchemaOf(v, base) /\ db.dashboard = value
    BY <2>2
  <2>4. Mig!SchemaOf(v, base) \in SUBSET Mig!Features
    BY DEF Mig!SchemaOf, Mig!Features, Mig!Optional
  <2>5. <<v>> \in Seq(Nat) OBVIOUS
  <2>6. db \in Mig!Database BY <2>2, <2>4, <2>5 DEF Mig!Database
  <2>7. Versioned(db, v) BY <2>3 DEF Versioned, BuiltFor
  <2>8. v < 3 => db.dashboard = Blank
    BY <2>1, <2>3 DEF Mig!SchemaOf, Mig!Optional
  <2>9. UpToDate(db) \/ Older(db) BY <2>7, <2>8 DEF UpToDate, Older
  <2> QED BY <2>6, <2>9 DEF DatabaseInv
<1>5. DatabaseInv BY <1>1, <1>2, <1>3, <1>4
<1>6. OpenersInv
  BY <1>1 DEF OpenersInv, Openings, Learnt, Worked, Mig!Transacting
<1> QED BY <1>1, <1>5, <1>6 DEF MigrationInv

\* One opener moves while the database stays as it is.
LEMMA OpenerMoves ==
  ASSUME MigrationInv, NEW p \in Openers, NEW o \in Openings, UNCHANGED db,
         opener' = [opener EXCEPT ![p] = o], Learnt(o, db), Worked(o, db, work'),
         work' = None \/ work' \in Mig!Database,
         \/ UNCHANGED work /\ o.pc \notin Mig!Transacting
         \/ \A q \in Openers \ {p} : opener[q].pc \notin Mig!Transacting
  PROVE  MigrationInv'
<1>1. /\ opener \in [Openers -> Openings]
      /\ \A q \in Openers : Learnt(opener[q], db) /\ Worked(opener[q], db, work)
      /\ \A q, r \in Openers :
           opener[q].pc \in Mig!Transacting /\ opener[r].pc \in Mig!Transacting => q = r
  BY DEF MigrationInv, OpenersInv
<1>2. DatabaseInv' BY DEF MigrationInv, DatabaseInv, UpToDate, Versioned, BuiltFor, Empty, Older, Foreign
<1>3. opener' \in [Openers -> Openings] BY <1>1
<1>4. \A q \in Openers : opener'[q] = IF q = p THEN o ELSE opener[q] BY <1>1
<1>5. ASSUME NEW q \in Openers
      PROVE  Learnt(opener'[q], db) /\ Worked(opener'[q], db, work')
  <2>1. CASE q = p BY <1>4, <2>1
  <2>2. CASE q # p
    <3>1. opener'[q] = opener[q] BY <1>4, <2>2
    <3>2. UNCHANGED work \/ opener[q].pc \notin Mig!Transacting BY <2>2
    <3>3. Worked(opener[q], db, work') BY <1>1, <3>2 DEF Worked
    <3> QED BY <1>1, <3>1, <3>3
  <2> QED BY <2>1, <2>2
<1>6. \A q, r \in Openers :
        opener'[q].pc \in Mig!Transacting /\ opener'[r].pc \in Mig!Transacting => q = r
  BY <1>1, <1>4
<1>7. OpenersInv'
  <2>1. \A q \in Openers : Learnt(opener[q], db)' /\ Worked(opener[q], db, work)'
    BY <1>5 DEF Learnt, Worked, UpToDate, Versioned, BuiltFor, Foreign
  <2> QED BY <1>3, <1>6, <2>1 DEF OpenersInv
<1> QED BY <1>2, <1>7 DEF MigrationInv

\* Only the place of an opener changes.
LEMMA Goes ==
  ASSUME opener \in [Openers -> Openings], NEW p \in Openers, NEW pc, Mig!Go(p, pc)
  PROVE  opener' = [opener EXCEPT ![p] = [pc |-> pc, pass |-> opener[p].pass,
                                          tables |-> opener[p].tables, version |-> opener[p].version]]
<1> DEFINE o == [pc |-> pc, pass |-> opener[p].pass,
                 tables |-> opener[p].tables, version |-> opener[p].version]
<1>1. opener[p] \in Openings OBVIOUS
<1>2. [opener[p] EXCEPT !.pc = pc] = o BY <1>1 DEF Openings
<1>3. opener' = [opener EXCEPT ![p] = [opener[p] EXCEPT !.pc = pc]] BY DEF Mig!Go
<1> QED BY <1>2, <1>3

\* An opener goes on outside a transaction, or its transaction is rolled back.
LEMMA OpenerGoes ==
  ASSUME MigrationInv, NEW p \in Openers,
         NEW pc \in {"closed", "version_table", "rows", "wal", "begin", "version"},
         Mig!Go(p, pc), UNCHANGED db,
         LET o == [pc |-> pc, pass |-> opener[p].pass,
                   tables |-> opener[p].tables, version |-> opener[p].version]
         IN Learnt(o, db),
         UNCHANGED work \/ (work' = None /\ opener[p].pc \in Mig!Transacting)
  PROVE  MigrationInv'
<1> DEFINE o == [pc |-> pc, pass |-> opener[p].pass,
                 tables |-> opener[p].tables, version |-> opener[p].version]
<1>1. opener \in [Openers -> Openings] BY DEF MigrationInv, OpenersInv
<1>2. opener' = [opener EXCEPT ![p] = o] BY <1>1, Goes
<1>3. o \in Openings /\ o.pc \notin Mig!Transacting
  <2>1. opener[p] \in Openings BY <1>1
  <2> QED BY <2>1 DEF Openings, Mig!Transacting
<1>4. Worked(o, db, work') BY <1>3 DEF Worked
<1>5. Learnt(o, db) OBVIOUS
<1>6. work' = None \/ work' \in Mig!Database BY DEF MigrationInv
<1>7. \/ UNCHANGED work /\ o.pc \notin Mig!Transacting
      \/ \A q \in Openers \ {p} : opener[q].pc \notin Mig!Transacting
  BY <1>3 DEF MigrationInv, OpenersInv
<1> HIDE DEF o
<1> QED BY <1>2, <1>3, <1>4, <1>5, <1>6, <1>7, OpenerMoves

\* The one row of a version that skout knows names the schema.
LEMMA VersionIsRead ==
  ASSUME Mig!MigrationAssumption, DatabaseInv, db.rows # None, Len(db.rows) = 1, db.rows[1] \in 1..7
  PROVE  /\ ~Foreign(db) /\ db.rows = <<db.rows[1]>>
         /\ db.rows[1] = 7 => UpToDate(db)
<1>1. CASE UpToDate(db) BY <1>1, KindsDiffer DEF DatabaseInv, UpToDate, Versioned
<1>2. CASE Empty(db) BY <1>2 DEF Empty
<1>3. CASE Older(db)
  <2>1. PICK v \in 1..6 : db.rows = <<v>> BY <1>3 DEF Older, Versioned
  <2>2. <<v>>[1] = v /\ v # 7 OBVIOUS
  <2> QED BY <1>3, <2>1, <2>2, KindsDiffer DEF DatabaseInv
<1>4. CASE Foreign(db)
  <2>1. Len(<<>>) = 0 OBVIOUS
  <2>2. Len(<<7, 7>>) = 2 OBVIOUS
  <2>3. <<8>>[1] = 8 OBVIOUS
  <2> QED BY <1>4, <2>1, <2>2, <2>3 DEF Foreign
<1> QED BY <1>1, <1>2, <1>3, <1>4 DEF DatabaseInv

\* The inspection, twice, and the journal mode in between.
LEMMA InspectionInv ==
  ASSUME MigrationInv, Mig!MigrationAssumption, NEW p \in Openers,
         \/ Mig!Open(p) \/ Mig!CountTables(p) \/ Mig!FindVersionTable(p) \/ Mig!CountRows(p)
         \/ Mig!ReadVersion(p) \/ Mig!SetJournalMode(p)
  PROVE  MigrationInv'
<1>1. /\ UNCHANGED <<db, work>> /\ opener \in [Openers -> Openings] /\ opener[p] \in Openings
      /\ Learnt(opener[p], db) /\ DatabaseInv /\ (work = None \/ work \in Mig!Database)
  BY DEF Mig!Open, Mig!CountTables, Mig!FindVersionTable, Mig!CountRows, Mig!ReadVersion,
         Mig!SetJournalMode, MigrationInv, OpenersInv
<1>2. ASSUME NEW o \in Openings, o.pc \in {"tables", "version_table", "wal", "begin", "open"},
             opener' = [opener EXCEPT ![p] = o], Learnt(o, db)
      PROVE  MigrationInv'
  <2>1. o.pc \notin Mig!Transacting BY <1>2 DEF Mig!Transacting
  <2>2. Worked(o, db, work') BY <2>1 DEF Worked
  <2> QED BY <1>1, <1>2, <2>1, <2>2, OpenerMoves
<1>3. ASSUME NEW pc \in {"closed", "version_table", "rows", "wal", "begin", "version"},
             Mig!Go(p, pc),
             Learnt([pc |-> pc, pass |-> opener[p].pass,
                     tables |-> opener[p].tables, version |-> opener[p].version], db)
      PROVE  MigrationInv'
  BY <1>1, <1>3, OpenerGoes
<1>4. ASSUME Mig!Go(p, "closed") PROVE MigrationInv' BY <1>3, <1>4 DEF Learnt
<1>5. CASE Mig!Open(p) \/ Mig!SetJournalMode(p)
  <2>1. PICK pass \in {1, 2} :
          opener' = [opener EXCEPT ![p] = [pc |-> "tables", pass |-> pass, tables |-> FALSE, version |-> 0]]
    BY <1>5 DEF Mig!Open, Mig!SetJournalMode
  <2> DEFINE o == [pc |-> "tables", pass |-> pass, tables |-> FALSE, version |-> 0]
  <2>2. o \in Openings /\ Learnt(o, db) /\ o.pc = "tables" BY DEF Openings, Learnt
  <2> HIDE DEF o
  <2> QED BY <1>2, <2>1, <2>2 DEF o
<1>6. CASE Mig!CountTables(p)
  <2> DEFINE tables == db.features # {}
             o == [opener[p] EXCEPT !.pc = "version_table", !.tables = tables]
  <2>1. tables \in BOOLEAN /\ (~tables => ~Foreign(db)) BY DEF Foreign
  <2>2. /\ opener[p].pc = "tables"
        /\ opener' = [opener EXCEPT ![p] = o]
    BY <1>1, <1>6 DEF Mig!CountTables, Mig!At
  <2> HIDE DEF tables
  <2>3. /\ o \in Openings /\ o.pc = "version_table" /\ o.tables = tables
        /\ o.version = opener[p].version
    BY <1>1, <2>1 DEF Openings
  <2> HIDE DEF o
  <2>4. Learnt(o, db) BY <1>1, <2>1, <2>2, <2>3 DEF Learnt
  <2> QED BY <1>2, <2>2, <2>3, <2>4
<1>7. CASE Mig!FindVersionTable(p)
  <2>1. /\ opener[p].pc = "version_table" /\ opener[p].version = 0
        /\ ~opener[p].tables => ~Foreign(db)
    BY <1>1, <1>7 DEF Mig!FindVersionTable, Mig!At, Learnt
  <2>2. \/ db.rows # None /\ Mig!Go(p, "rows")
        \/ Mig!Go(p, "closed")
        \/ db.rows = None /\ ~opener[p].tables /\ (Mig!Go(p, "wal") \/ Mig!Go(p, "begin"))
    BY <1>7 DEF Mig!FindVersionTable, Mig!Fail, Mig!GoNext
  <2>3. ASSUME NEW pc \in {"rows", "wal", "begin"}, Mig!Go(p, pc),
               pc = "rows" => db.rows # None,
               pc # "rows" => db.rows = None /\ ~opener[p].tables
        PROVE  MigrationInv'
    <3>1. Learnt([pc |-> pc, pass |-> opener[p].pass,
                  tables |-> opener[p].tables, version |-> opener[p].version], db)
      BY <2>1, <2>3 DEF Learnt
    <3> QED BY <1>3, <2>3, <3>1
  <2> QED BY <1>4, <2>2, <2>3
<1>8. CASE Mig!CountRows(p)
  <2>1. /\ opener[p].pc = "rows" /\ opener[p].version = 0 /\ db.rows # None
        /\ (Len(db.rows) = 1 /\ Mig!Go(p, "version")) \/ Mig!Go(p, "closed")
    BY <1>1, <1>8 DEF Mig!CountRows, Mig!At, Mig!Fail, Learnt
  <2>2. Len(db.rows) = 1 =>
          Learnt([pc |-> "version", pass |-> opener[p].pass,
                  tables |-> opener[p].tables, version |-> opener[p].version], db)
    BY <2>1 DEF Learnt
  <2> QED BY <1>3, <1>4, <2>1, <2>2
<1>9. CASE Mig!ReadVersion(p)
  <2> DEFINE v == db.rows[1]
             pc == IF opener[p].pass = 1 THEN "wal" ELSE IF v = 7 THEN "open" ELSE "begin"
             o == [opener[p] EXCEPT !.pc = pc, !.version = v]
  <2>1. /\ opener[p].pc = "version"
        /\ \/ Mig!Go(p, "closed")
           \/ v \in 1..7 /\ opener' = [opener EXCEPT ![p] = o]
    BY <1>1, <1>9 DEF Mig!ReadVersion, Mig!At, Mig!Fail, Mig!CurrentSchemaVersion
  <2>2. db.rows # None /\ Len(db.rows) = 1 BY <1>1, <2>1 DEF Learnt
  <2>3. ASSUME v \in 1..7, opener' = [opener EXCEPT ![p] = o]
        PROVE  MigrationInv'
    <3>1. ~Foreign(db) /\ db.rows = <<v>> /\ (v = 7 => UpToDate(db))
      BY <1>1, <2>2, <2>3, VersionIsRead
    <3>2. pc \in {"wal", "open", "begin"} /\ (pc = "open" => v = 7) /\ (pc = "begin" => v # 7)
      OBVIOUS
    <3>3. v \in 1..7 /\ v \in 0..7 BY <2>3
    <3> HIDE DEF v, pc
    <3>4. o \in Openings /\ o.pc = pc /\ o.version = v
      <4>1. opener[p] \in Openings /\ v \in 0..7 /\ pc \in {"wal", "open", "begin"}
        BY <1>1, <3>2, <3>3
      <4> QED BY ONLY <4>1 DEF Openings
    <3> HIDE DEF o
    <3>5. Learnt(o, db) BY <3>1, <3>2, <3>3, <3>4 DEF Learnt
    <3> QED BY <1>2, <2>3, <3>2, <3>4, <3>5
  <2> QED BY <1>4, <2>1, <2>3
<1> QED BY <1>5, <1>6, <1>7, <1>8, <1>9

\* The transaction up to its commit.
LEMMA TransactionInv ==
  ASSUME MigrationInv, Mig!MigrationAssumption, NEW p \in Openers,
         Mig!Begin(p) \/ Mig!Create(p) \/ Mig!Step(p)
  PROVE  MigrationInv'
<1>1. /\ UNCHANGED db /\ opener \in [Openers -> Openings] /\ opener[p] \in Openings
      /\ Learnt(opener[p], db) /\ Worked(opener[p], db, work) /\ DatabaseInv
      /\ db \in Mig!Database /\ None \notin Mig!Database
  BY DEF Mig!Begin, Mig!Create, Mig!Step, MigrationInv, OpenersInv, DatabaseInv, Mig!MigrationAssumption
<1>2. \A q \in Openers \ {p} : opener[q].pc \notin Mig!Transacting
  <2>1. CASE Mig!Begin(p)
    <3>1. work = None BY <2>1 DEF Mig!Begin
    <3> QED BY <1>1, <3>1 DEF MigrationInv, OpenersInv, Worked
  <2>2. CASE Mig!Create(p) \/ Mig!Step(p)
    <3>1. opener[p].pc \in Mig!Transacting BY <2>2 DEF Mig!Create, Mig!Step, Mig!At, Mig!Transacting
    <3> QED BY <3>1 DEF MigrationInv, OpenersInv
  <2> QED BY <2>1, <2>2
<1>3. ASSUME NEW o \in Openings, opener' = [opener EXCEPT ![p] = o],
             o.pc \in {"create", "step", "commit"}, Worked(o, db, work')
      PROVE  MigrationInv'
  <2>1. Learnt(o, db) BY <1>3 DEF Learnt
  <2>2. work' \in Mig!Database BY <1>3 DEF Worked, Mig!Transacting
  <2> QED BY <1>1, <1>2, <1>3, <2>1, <2>2, OpenerMoves
<1> DEFINE Placed(pc) == [pc |-> pc, pass |-> opener[p].pass, tables |-> opener[p].tables,
                          version |-> opener[p].version]
<1>4. CASE Mig!Begin(p)
  <2> DEFINE pc == IF opener[p].version = 0 THEN "create" ELSE "step"
  <2>1. /\ opener[p].pc = "begin" /\ work' = db /\ Mig!Go(p, pc)
    BY <1>4 DEF Mig!Begin, Mig!At
  <2>2. /\ ~Foreign(db)
        /\ opener[p].version = 0 => db.rows = None \/ UpToDate(db)
        /\ opener[p].version # 0 =>
             opener[p].version < 7 /\ (db.rows = <<opener[p].version>> \/ UpToDate(db))
        /\ opener[p].version \in 0..7
    BY <1>1, <2>1 DEF Learnt, Openings
  <2>3. opener' = [opener EXCEPT ![p] = Placed(pc)] BY <1>1, <2>1, Goes
  <2>4. Placed(pc) \in Openings BY <1>1 DEF Openings
  <2>5. ASSUME opener[p].version # 0
        PROVE  /\ opener[p].version \in 1..6
               /\ \/ Versioned(db, opener[p].version) /\ (opener[p].version < 3 => db.dashboard = Blank)
                  \/ UpToDate(db) /\ BuiltFor(db, 7)
    <3>1. opener[p].version \in 1..6 BY <2>2, <2>5
    <3>2. CASE UpToDate(db) BY <3>1, <3>2 DEF UpToDate, Versioned
    <3>3. CASE ~UpToDate(db)
      <4>1. db.rows = <<opener[p].version>> BY <2>2, <2>5, <3>3
      <4>2. db.rows # None
        <5>1. <<opener[p].version>> \in Seq(Nat) BY <3>1
        <5> QED BY <4>1, <5>1 DEF Mig!MigrationAssumption
      <4>3. Older(db) BY <1>1, <2>2, <3>3, <4>2 DEF DatabaseInv, Empty
      <4>4. PICK w \in 1..6 : Versioned(db, w) /\ (w < 3 => db.dashboard = Blank) BY <4>3 DEF Older
      <4>5. w = opener[p].version BY <3>1, <4>1, <4>4 DEF Versioned
      <4> QED BY <3>1, <4>4, <4>5
    <3> QED BY <3>2, <3>3
  <2>6. Worked(Placed(pc), db, db)
    BY <1>1, <2>2, <2>5 DEF Worked
  <2>7. Placed(pc).pc \in {"create", "step", "commit"} OBVIOUS
  <2> HIDE DEF Placed
  <2> QED BY <1>3, <2>1, <2>3, <2>4, <2>6, <2>7
<1>5. CASE Mig!Create(p)
  <2>1. opener[p].pc = "create" /\ work' = Mig!Created(work) /\ Mig!Go(p, "commit")
    BY <1>5 DEF Mig!Create, Mig!At
  <2>2. /\ work \in Mig!Database /\ work.dashboard = db.dashboard /\ ~Foreign(db)
        /\ work = db /\ (db.rows = None \/ UpToDate(db))
    BY <1>1, <2>1 DEF Worked, Mig!Transacting
  <2>3. work.features = {} \/ BuiltFor(work, 7)
    <3>1. db.rows = None => Empty(db) BY <1>1, <2>2, KindsDiffer DEF DatabaseInv
    <3> QED BY <2>2, <3>1 DEF Empty, UpToDate, Versioned
  <2>4. work' \in Mig!Database /\ UpToDate(Mig!Created(work)) /\ Mig!Created(work).dashboard = db.dashboard
    BY <2>1, <2>2, <2>3, CreatedIsCurrent
  <2>5. Worked(Placed("commit"), db, work') BY <2>1, <2>2, <2>4 DEF Worked
  <2>6. opener' = [opener EXCEPT ![p] = Placed("commit")] BY <1>1, <2>1, Goes
  <2>7. Placed("commit") \in Openings BY <1>1 DEF Openings
  <2>8. Placed("commit").pc \in {"create", "step", "commit"} OBVIOUS
  <2> HIDE DEF Placed
  <2> QED BY <1>3, <2>5, <2>6, <2>7, <2>8
<1>6. CASE Mig!Step(p)
  <2> DEFINE v == opener[p].version
             next == Mig!Migrated(work, v)
             pc == IF v + 1 = 7 THEN "commit" ELSE "step"
             o == [opener[p] EXCEPT !.version = v + 1, !.pc = pc]
  <2>1. /\ opener[p].pc = "step" /\ ~Mig!StepFails(work, v) /\ work' = next
        /\ opener' = [opener EXCEPT ![p] = o]
    BY <1>1, <1>6 DEF Mig!Step, Mig!At, Mig!CurrentSchemaVersion
  <2>2. /\ work \in Mig!Database /\ work.dashboard = db.dashboard /\ ~Foreign(db) /\ v \in 1..6
        /\ \/ Versioned(work, v) /\ (v < 3 => work.dashboard = Blank)
           \/ UpToDate(db) /\ BuiltFor(work, 7)
    BY <1>1, <2>1 DEF Worked, Mig!Transacting
  <2>3. /\ next \in Mig!Database /\ next.rows = <<v + 1>>
        /\ v # 2 => next.dashboard = work.dashboard
        /\ v = 2 => next.dashboard = Blank
        /\ BuiltFor(work, v) => BuiltFor(next, v + 1)
        /\ BuiltFor(work, 7) => BuiltFor(next, 7) /\ v > 2
    BY <2>1, <2>2, StepBuilds
  <2> HIDE DEF v, next
  <2>4. pc \in {"commit", "step"} /\ (pc = "commit" <=> v = 6) BY <2>2
  <2> HIDE DEF pc
  <2>5. v + 1 \in 0..7 BY <2>2
  <2>6. o \in Openings /\ o.pc = pc /\ o.version = v + 1 BY <1>1, <2>4, <2>5 DEF Openings
  <2>7. next.dashboard = db.dashboard /\ (v + 1 < 3 => next.dashboard = Blank \/ UpToDate(db))
    BY <2>2, <2>3
  <2>8. Versioned(next, v + 1) \/ (UpToDate(db) /\ BuiltFor(next, 7))
    BY <2>2, <2>3 DEF Versioned
  <2>9. v = 6 => UpToDate(next) BY <2>3, <2>8 DEF UpToDate, Versioned
  <2> HIDE DEF o
  <2>10. Worked(o, db, next)
    <3>1. v + 1 < 3 /\ Versioned(next, v + 1) =>
            next.dashboard = Blank \/ (UpToDate(db) /\ BuiltFor(next, 7))
      BY <2>2, <2>3
    <3>2. v # 6 => v + 1 \in 1..6 BY <2>2
    <3> QED BY <2>2, <2>3, <2>4, <2>6, <2>7, <2>8, <2>9, <3>1, <3>2 DEF Worked
  <2> QED BY <1>3, <2>1, <2>4, <2>6, <2>10
<1> QED BY <1>4, <1>5, <1>6

\* A statement fails, a transaction is rolled back, a process dies.
LEMMA OpenerEndsInv ==
  ASSUME MigrationInv, Mig!MigrationAssumption, NEW p \in Openers,
         Mig!StatementFails(p) \/ Mig!Rollback(p) \/ Mig!Die(p)
  PROVE  MigrationInv'
<1>1. /\ UNCHANGED db /\ Mig!Go(p, "closed")
      /\ UNCHANGED work \/ (work' = None /\ opener[p].pc \in Mig!Transacting)
  BY DEF Mig!StatementFails, Mig!Rollback, Mig!Die, Mig!Fail, Mig!Transacting
<1>2. Learnt([pc |-> "closed", pass |-> opener[p].pass,
              tables |-> opener[p].tables, version |-> opener[p].version], db)
  BY DEF Learnt
<1> QED BY <1>1, <1>2, OpenerGoes

\* What openers have learnt of an older database holds of the current one.
LEMMA UpgradeIsLearnt ==
  ASSUME Mig!MigrationAssumption, NEW o, NEW d, NEW e \in Mig!Database, Learnt(o, d), UpToDate(e)
  PROVE  Learnt(o, e)
<1>1. ~Foreign(e) /\ e.rows # None /\ Len(e.rows) = 1 BY KindsDiffer
<1> QED BY <1>1 DEF Learnt

\* A commit makes the database the current one; the dashboard row stays.
LEMMA CommitInv ==
  ASSUME MigrationInv, Mig!MigrationAssumption, NEW p \in Openers, Mig!Commit(p)
  PROVE  /\ MigrationInv' /\ UpToDate(db') /\ db'.dashboard = db.dashboard
         /\ UpToDate(db) \/ Older(db) \/ Empty(db)
<1>1. /\ opener \in [Openers -> Openings] /\ opener[p] \in Openings /\ DatabaseInv
      /\ opener[p].pc = "commit" /\ db' = work /\ work' = None /\ Mig!Go(p, "open")
      /\ \A q \in Openers : Learnt(opener[q], db)
      /\ Worked(opener[p], db, work)
  BY DEF Mig!Commit, Mig!At, MigrationInv, OpenersInv
<1>2. /\ db' \in Mig!Database /\ UpToDate(db') /\ db'.dashboard = db.dashboard /\ ~Foreign(db)
  BY <1>1 DEF Worked, Mig!Transacting
<1>3. UpToDate(db)' BY <1>2 DEF UpToDate, Versioned, BuiltFor
<1> DEFINE o == [pc |-> "open", pass |-> opener[p].pass, tables |-> opener[p].tables,
                 version |-> opener[p].version]
<1>4. opener' = [opener EXCEPT ![p] = o] BY <1>1, Goes
<1>5. o \in Openings /\ o.pc = "open" BY <1>1 DEF Openings
<1> HIDE DEF o
<1>6. opener' \in [Openers -> Openings] /\ \A q \in Openers : opener'[q] = IF q = p THEN o ELSE opener[q]
  BY <1>1, <1>4, <1>5
<1>7. \A q \in Openers : Learnt(opener'[q], db')
  <2>1. Learnt(o, db') BY <1>2, <1>5 DEF Learnt
  <2>2. \A q \in Openers : Learnt(opener[q], db') BY <1>1, <1>2, UpgradeIsLearnt
  <2> QED BY <1>6, <2>1, <2>2
<1>8. \A q \in Openers : opener'[q].pc \notin Mig!Transacting
  <2>1. \A q \in Openers \ {p} : opener[q].pc \notin Mig!Transacting
    BY <1>1 DEF MigrationInv, OpenersInv, Mig!Transacting
  <2> QED BY <1>5, <1>6, <2>1 DEF Mig!Transacting
<1>9. \A q \in Openers : Learnt(opener[q], db)'
  BY <1>7 DEF Learnt, Foreign, UpToDate, Versioned, BuiltFor
<1>10. \A q \in Openers : Worked(opener[q], db, work)' BY <1>8 DEF Worked
<1>11. OpenersInv' BY <1>6, <1>8, <1>9, <1>10 DEF OpenersInv
<1>12. DatabaseInv' BY <1>2, <1>3 DEF DatabaseInv
<1> QED BY <1>1, <1>2, <1>11, <1>12 DEF MigrationInv, DatabaseInv

\* An open store writes the dashboard row of the current schema.
LEMMA WriteInv ==
  ASSUME MigrationInv, Mig!MigrationAssumption, NEW p \in Openers, Mig!Write(p)
  PROVE  /\ MigrationInv' /\ UpToDate(db)
         /\ db'.rows = db.rows /\ db'.features = db.features /\ db'.dashboard \in Values \ {Blank}
<1>1. /\ opener[p].pc = "open" /\ work = None /\ UNCHANGED <<work, opener>>
      /\ opener \in [Openers -> Openings] /\ db \in Mig!Database
      /\ \A q \in Openers : Learnt(opener[q], db) /\ Worked(opener[q], db, work)
  BY DEF Mig!Write, Mig!At, MigrationInv, OpenersInv, DatabaseInv
<1>2. PICK value \in Values \ {Blank} : db' = [db EXCEPT !.dashboard = value]
  BY DEF Mig!Write
<1>3. UpToDate(db) BY <1>1 DEF Learnt
<1>4. /\ db' \in Mig!Database /\ db'.rows = db.rows /\ db'.features = db.features
      /\ db'.dashboard = value
  BY <1>1, <1>2 DEF Mig!Database
<1>5. UpToDate(db') BY <1>3, <1>4 DEF UpToDate, Versioned, BuiltFor
<1>6. UpToDate(db)' BY <1>5 DEF UpToDate, Versioned, BuiltFor
<1>7. \A q \in Openers : opener[q].pc \notin Mig!Transacting
  BY <1>1 DEF Worked, Mig!MigrationAssumption
<1>8. \A q \in Openers : Learnt(opener[q], db') BY <1>1, <1>4, <1>5, UpgradeIsLearnt
<1>9. \A q \in Openers : Learnt(opener[q], db)'
  BY <1>1, <1>8 DEF Learnt, Foreign, UpToDate, Versioned, BuiltFor
<1>10. \A q \in Openers : Worked(opener[q], db, work)' BY <1>1, <1>7 DEF Worked
<1>11. OpenersInv' BY <1>1, <1>7, <1>9, <1>10 DEF OpenersInv
<1>12. DatabaseInv' BY <1>4, <1>6 DEF DatabaseInv
<1> QED BY <1>1, <1>2, <1>3, <1>4, <1>11, <1>12 DEF MigrationInv

\* Every step keeps the invariant.
LEMMA MigrationNextInv ==
  ASSUME MigrationInv, Mig!MigrationAssumption, [Mig!MigrationNext]_(Mig!migrationVars)
  PROVE  MigrationInv'
<1>1. CASE UNCHANGED Mig!migrationVars
  BY <1>1 DEF Mig!migrationVars, MigrationInv, DatabaseInv, OpenersInv, Learnt, Worked, UpToDate,
              Versioned, BuiltFor, Empty, Older, Foreign
<1>2. CASE Mig!MigrationNext
  <2>1. PICK p \in Openers : Mig!Open(p) \/ Mig!OpenStep(p) \/ Mig!Die(p) \/ Mig!Write(p)
    BY <1>2 DEF Mig!MigrationNext
  <2>2. CASE \/ Mig!Open(p) \/ Mig!CountTables(p) \/ Mig!FindVersionTable(p) \/ Mig!CountRows(p)
             \/ Mig!ReadVersion(p) \/ Mig!SetJournalMode(p)
    BY <2>2, InspectionInv
  <2>3. CASE Mig!Begin(p) \/ Mig!Create(p) \/ Mig!Step(p) BY <2>3, TransactionInv
  <2>4. CASE Mig!StatementFails(p) \/ Mig!Rollback(p) \/ Mig!Die(p) BY <2>4, OpenerEndsInv
  <2>5. CASE Mig!Commit(p) BY <2>5, CommitInv
  <2>6. CASE Mig!Write(p) BY <2>6, WriteInv
  <2> QED BY <2>1, <2>2, <2>3, <2>4, <2>5, <2>6 DEF Mig!OpenStep
<1> QED BY <1>1, <1>2

\* The variables of the migration have their types.
LEMMA MigrationTypes == Mig!MigrationSpec => []Mig!MigrationTypeOK
<1>0. Mig!MigrationAssumption BY ServicesAssumption
<1>1. Mig!MigrationInit => MigrationInv BY <1>0, MigrationInitInv
<1>2. MigrationInv /\ [Mig!MigrationNext]_(Mig!migrationVars) => MigrationInv' BY <1>0, MigrationNextInv
<1>3. MigrationInv => Mig!MigrationTypeOK
  BY DEF MigrationInv, DatabaseInv, OpenersInv, Openings, Mig!Database, Mig!MigrationTypeOK,
         Mig!CurrentSchemaVersion
<1> QED BY <1>1, <1>2, <1>3, PTL DEF Mig!MigrationSpec

\* What is committed under a version has exactly the features of that version, whoever
\* migrated it and wherever a process died, and a store is open only on the current schema
\* (preflightMigrationSource, migrateWithHook and runMigration in internal/store/store.go).
LEMMA SchemaNamed == Mig!MigrationSpec => []Mig!SchemaIsCurrent
<1>0. Mig!MigrationAssumption BY ServicesAssumption
<1>1. Mig!MigrationInit => MigrationInv BY <1>0, MigrationInitInv
<1>2. MigrationInv /\ [Mig!MigrationNext]_(Mig!migrationVars) => MigrationInv' BY <1>0, MigrationNextInv
<1>3. MigrationInv => Mig!VersionNamesSchema
  <2> SUFFICES ASSUME MigrationInv, NEW v \in 1..7, db.rows = <<v>>, "foreign" \notin db.features
               PROVE  BuiltFor(db, v)
    BY DEF Mig!VersionNamesSchema, Mig!CurrentSchemaVersion, BuiltFor
  <2>1. UpToDate(db) \/ Empty(db) \/ Older(db) BY DEF MigrationInv, DatabaseInv, Foreign
  <2>2. ASSUME NEW w \in 1..7, Versioned(db, w) PROVE BuiltFor(db, v)
    <3>1. w = v BY <2>2 DEF Versioned
    <3> QED BY <2>2, <3>1 DEF Versioned
  <2>3. ~Empty(db)
    <3>1. <<v>> \in Seq(Nat) OBVIOUS
    <3> QED BY <1>0, <3>1 DEF Empty, Mig!MigrationAssumption
  <2> QED BY <2>1, <2>2, <2>3 DEF UpToDate, Older
<1>4. MigrationInv => Mig!OpenedIsCurrent
  BY DEF MigrationInv, OpenersInv, Learnt, UpToDate, Versioned, Mig!OpenedIsCurrent, Mig!At,
         Mig!CurrentSchemaVersion
<1> QED BY <1>1, <1>2, <1>3, <1>4, PTL DEF Mig!MigrationSpec, Mig!SchemaIsCurrent

\* What SchemaUpgrade sees of a database.
SchemaSeen(d) == <<d.rows, IF d.rows = <<7>> THEN {} ELSE d.features>>
SourcesSeen ==
  {<<None, {}>>} \union
    {<<<<v>>, Mig!SchemaOf(v, base)>> : v \in 1..6, base \in SUBSET Mig!Optional}

\* A commit is the one upgrade, or nothing happens to the schema; only a write of an open
\* store changes the dashboard row.
LEMMA UpgradeStep ==
  ASSUME MigrationInv, Mig!MigrationAssumption, [Mig!MigrationNext]_(Mig!migrationVars)
  PROVE  \/ UNCHANGED <<SchemaSeen(db), db.dashboard>>
         \/ /\ SchemaSeen(db) \in SourcesSeen \ {<<<<7>>, {}>>}
            /\ SchemaSeen(db)' = <<<<7>>, {}>> /\ UNCHANGED db.dashboard
         \/ /\ SchemaSeen(db) = <<<<7>>, {}>> /\ db'.dashboard \in Values \ {Blank}
            /\ UNCHANGED SchemaSeen(db)
<1>1. CASE UNCHANGED db BY <1>1 DEF SchemaSeen
<1>2. ASSUME NEW p \in Openers, Mig!Commit(p)
      PROVE  \/ UNCHANGED <<SchemaSeen(db), db.dashboard>>
             \/ /\ SchemaSeen(db) \in SourcesSeen \ {<<<<7>>, {}>>}
                /\ SchemaSeen(db)' = <<<<7>>, {}>> /\ UNCHANGED db.dashboard
  <2>1. /\ UpToDate(db') /\ db'.dashboard = db.dashboard /\ (UpToDate(db) \/ Older(db) \/ Empty(db))
    BY <1>2, CommitInv
  <2>2. SchemaSeen(db)' = <<<<7>>, {}>> BY <2>1 DEF SchemaSeen, UpToDate, Versioned
  <2>3. CASE UpToDate(db)
    <3>1. SchemaSeen(db) = <<<<7>>, {}>> BY <2>3 DEF SchemaSeen, UpToDate, Versioned
    <3> QED BY <2>1, <2>2, <3>1
  <2>4. CASE Older(db) \/ Empty(db)
    <3>1. db.rows # <<7>> BY <2>4, KindsDiffer DEF MigrationInv, DatabaseInv
    <3>2. SchemaSeen(db) = <<db.rows, db.features>> BY <3>1 DEF SchemaSeen
    <3>3. SchemaSeen(db) \in SourcesSeen
      <4>1. CASE Empty(db) BY <3>2, <4>1 DEF Empty, SourcesSeen
      <4>2. CASE Older(db)
        <5>1. PICK v \in 1..6, base \in SUBSET Mig!Optional :
                db.rows = <<v>> /\ db.features = Mig!SchemaOf(v, base)
          BY <4>2 DEF Older, Versioned, BuiltFor
        <5> QED BY <3>2, <5>1 DEF SourcesSeen
      <4> QED BY <2>4, <4>1, <4>2
    <3>4. SchemaSeen(db) # <<<<7>>, {}>> BY <3>1, <3>2
    <3> QED BY <2>1, <2>2, <3>3, <3>4
  <2> QED BY <2>1, <2>3, <2>4
<1>3. ASSUME NEW p \in Openers, Mig!Write(p)
      PROVE  /\ SchemaSeen(db) = <<<<7>>, {}>> /\ db'.dashboard \in Values \ {Blank}
             /\ UNCHANGED SchemaSeen(db)
  <2>1. /\ UpToDate(db) /\ db'.rows = db.rows /\ db'.features = db.features
        /\ db'.dashboard \in Values \ {Blank}
    BY <1>3, WriteInv
  <2> QED BY <2>1 DEF SchemaSeen, UpToDate, Versioned
<1>4. UNCHANGED db \/ \E p \in Openers : Mig!Commit(p) \/ Mig!Write(p)
  BY DEF Mig!migrationVars, Mig!MigrationNext, Mig!OpenStep, Mig!Open, Mig!CountTables,
         Mig!FindVersionTable, Mig!CountRows, Mig!ReadVersion, Mig!SetJournalMode,
         Mig!StatementFails, Mig!Begin, Mig!Create, Mig!Step, Mig!Rollback, Mig!Die
<1> QED BY <1>1, <1>2, <1>3, <1>4

\* However many processes open an old database, die and retry, it is upgraded in one step,
\* its dashboard row outlives that, and what is not skout's is left alone (OpenAtWithClock
\* and runMigration in internal/store/store.go).
LEMMA UpgradeImplemented == Mig!MigrationSpec => Mig!ImplementsSchemaUpgrade
<1>0. Mig!MigrationAssumption BY ServicesAssumption
<1>1. Mig!MigrationInit => MigrationInv BY <1>0, MigrationInitInv
<1>2. MigrationInv /\ [Mig!MigrationNext]_(Mig!migrationVars) => MigrationInv' BY <1>0, MigrationNextInv
<1>3. MigrationInv /\ [Mig!MigrationNext]_(Mig!migrationVars)
        => [Mig!Upgrade!Next]_<<<<db.rows, IF db.rows = <<7>> THEN {} ELSE db.features>>, db.dashboard>>
  BY <1>0, UpgradeStep
  DEF SchemaSeen, SourcesSeen, Mig!Upgrade!Next, Mig!Upgrade!Upgrade, Mig!Upgrade!Use,
      Mig!CurrentSchemaVersion
<1> QED
  BY <1>1, <1>2, <1>3, PTL
  DEF Mig!MigrationSpec, Mig!ImplementsSchemaUpgrade, Mig!Upgrade!Spec, Mig!CurrentSchemaVersion

(***************************************************************************)
(* Identities. After a reconciliation no two Yahoo rows of one role claim  *)
(* one person: the weaker of two old claims is released, nothing is given  *)
(* that a row holds, and of rows with one candidate only the first gets    *)
(* it.                                                                     *)
(***************************************************************************)

IdentInv ==
  /\ players \in Seq(Ident!PlayerRows)
  /\ reconciling = None \/ reconciling \in [group: Ident!Groups, rows: SUBSET Persons]

\* The instances count as FiniteSets does.
LEMMA SameFiniteSets ==
  \A S : /\ Ident!IsFiniteSet(S) <=> IsFiniteSet(S)
         /\ Ident!Cardinality(S) = Cardinality(S) /\ Ident!Ext!Cardinality(S) = Cardinality(S)
BY DEF Cardinality, IsFiniteSet, Ident!Cardinality, Ident!IsFiniteSet,
       Ident!Ext!Cardinality, Ident!Ext!IsFiniteSet

\* A finite set has a sequence of its elements, and SetToSeq is one.
LEMMA SetHasSeq ==
  ASSUME NEW S, IsFiniteSet(S)
  PROVE  Ident!Ext!SetToSeq(S) \in Seq(S)
<1> DEFINE n == Cardinality(S)
<1>1. n \in Nat BY FS_CardinalityType
<1>2. IsFiniteSet(1..n) /\ Cardinality(1..n) = n BY <1>1, FS_Interval
<1>3. ExistsBijection(1..n, S) BY <1>2, FS_SameCardinalityBij
<1>4. PICK f : f \in [1..n -> S] /\ \A a, b \in DOMAIN f : f[a] = f[b] => a = b
  BY <1>3 DEF ExistsBijection, Bijection, Injection, IsInjective
<1>5. \E g \in [1..n -> S] : Ident!Ext!IsInjective(g) BY <1>4 DEF Ident!Ext!IsInjective
<1>6. (CHOOSE g \in [1..n -> S] : Ident!Ext!IsInjective(g)) \in [1..n -> S] BY <1>5
<1>7. Ident!Ext!SetToSeq(S) \in [1..n -> S] BY <1>6, SameFiniteSets DEF Ident!Ext!SetToSeq
<1> HIDE DEF n
<1> QED BY <1>1, <1>7

\* There is nobody at first, or what an older release left behind.
LEMMA IdentInitInv == Ident!IdentitiesAssumption /\ Ident!IdentitiesInit => IdentInv
<1> SUFFICES ASSUME Ident!IdentitiesAssumption, Ident!IdentitiesInit PROVE IdentInv
  OBVIOUS
<1>1. (players = <<>> \/ players \in Legacy) /\ reconciling = None BY DEF Ident!IdentitiesInit
<1>2. <<>> \in Seq(Ident!PlayerRows) OBVIOUS
<1> QED BY <1>1, <1>2 DEF IdentInv, Ident!IdentitiesAssumption

\* Rows are appended for persons who had none.
LEMMA RowsAreAppended ==
  ASSUME IdentInv, NEW queue \in Seq(Persons), NEW role \in Ident!AnyRole,
         NEW source \in {"seed", "40man"}
  PROVE  Ident!WithRows(queue, role, source) \in Seq(Ident!PlayerRows)
<1> DEFINE added == [i \in DOMAIN queue |-> Ident!Row(None, PersonName[queue[i]], role, queue[i], source)]
<1>1. Len(queue) \in Nat /\ DOMAIN queue = 1..Len(queue) /\ \A i \in 1..Len(queue) : queue[i] \in Persons
  OBVIOUS
<1>2. ASSUME NEW i \in 1..Len(queue)
      PROVE  Ident!Row(None, PersonName[queue[i]], role, queue[i], source) \in Ident!PlayerRows
  <2>1. PersonName[queue[i]] \in Ident!PlayerNames BY <1>1 DEF Ident!PlayerNames
  <2> QED BY <1>1, <2>1 DEF Ident!Row, Ident!PlayerRows
<1>3. added \in [1..Len(queue) -> Ident!PlayerRows] BY <1>1, <1>2
<1>4. added \in Seq(Ident!PlayerRows) BY <1>1, <1>3
<1> HIDE DEF added
<1>5. players \o added \in Seq(Ident!PlayerRows) BY <1>4 DEF IdentInv
<1> QED BY <1>5 DEF Ident!WithRows, added

\* Yahoo's players are updated in place, and new ones appended.
LEMMA UpsertInv ==
  ASSUME IdentInv, Ident!IdentitiesAssumption, Ident!UpsertYahoo
  PROVE  /\ IdentInv' /\ Ident!Ids \subseteq DOMAIN players'
         /\ \A id \in Ident!Ids :
              /\ players'[id].yahoo = players[id].yahoo /\ players'[id].mlbam = players[id].mlbam
              /\ ~moved' => players'[id].role = players[id].role
<1>1. PICK present \in SUBSET Entities :
        LET queue == Ident!Ext!SetToSeq(present \ {players[id].yahoo : id \in Ident!Ids})
            named == {id \in Ident!Ids : players[id].yahoo \in present}
        IN /\ moved' = (moved \/ {id \in named : players[id].role # EntityRole[players[id].yahoo]} # {})
           /\ players' =
             [id \in Ident!Ids |->
                IF id \in named THEN [players[id] EXCEPT !.name = EntityName[players[id].yahoo],
                                                       !.role = EntityRole[players[id].yahoo]]
                ELSE players[id]]
             \o [i \in DOMAIN queue |-> Ident!Row(queue[i], EntityName[queue[i]], EntityRole[queue[i]], None, None)]
  BY DEF Ident!UpsertYahoo
<1> DEFINE fresh == present \ {players[id].yahoo : id \in Ident!Ids}
           queue == Ident!Ext!SetToSeq(fresh)
           named == {id \in Ident!Ids : players[id].yahoo \in present}
           kept == [id \in Ident!Ids |->
                      IF id \in named THEN [players[id] EXCEPT !.name = EntityName[players[id].yahoo],
                                                             !.role = EntityRole[players[id].yahoo]]
                      ELSE players[id]]
           added == [i \in DOMAIN queue |-> Ident!Row(queue[i], EntityName[queue[i]], EntityRole[queue[i]], None, None)]
<1>2. /\ players' = kept \o added /\ UNCHANGED reconciling
      /\ moved' = (moved \/ {id \in named : players[id].role # EntityRole[players[id].yahoo]} # {})
  BY <1>1 DEF Ident!UpsertYahoo
<1>3. fresh \in SUBSET Entities /\ IsFiniteSet(Entities)
  BY SameFiniteSets DEF Ident!IdentitiesAssumption
<1>4. queue \in Seq(Entities)
  <2>1. IsFiniteSet(fresh) BY <1>3, FS_Subset
  <2> HIDE DEF fresh
  <2>2. queue \in Seq(fresh) BY <2>1, SetHasSeq
  <2> QED BY <1>3, <2>2
<1>5. ASSUME NEW y \in Entities
      PROVE  EntityName[y] \in Ident!PlayerNames /\ EntityRole[y] \in Ident!AnyRole
  BY DEF Ident!PlayerNames, Ident!IdentitiesAssumption, Ident!AnyRole
<1>6. added \in Seq(Ident!PlayerRows)
  <2> HIDE DEF queue
  <2>1. DOMAIN queue = 1..Len(queue) /\ Len(queue) \in Nat /\ \A i \in 1..Len(queue) : queue[i] \in Entities
    BY <1>4
  <2>2. ASSUME NEW i \in 1..Len(queue)
        PROVE  Ident!Row(queue[i], EntityName[queue[i]], EntityRole[queue[i]], None, None) \in Ident!PlayerRows
    BY <1>5, <2>1 DEF Ident!Row, Ident!PlayerRows
  <2>3. added \in [1..Len(queue) -> Ident!PlayerRows] BY <2>1, <2>2
  <2> QED BY <2>1, <2>3
<1>7. kept \in Seq(Ident!PlayerRows)
  <2>1. /\ Ident!Ids = 1..Len(players) /\ Len(players) \in Nat
        /\ \A id \in 1..Len(players) : players[id] \in Ident!PlayerRows
    BY DEF IdentInv, Ident!Ids
  <2>2. ASSUME NEW id \in 1..Len(players), players[id].yahoo \in Entities
        PROVE  [players[id] EXCEPT !.name = EntityName[players[id].yahoo],
                                   !.role = EntityRole[players[id].yahoo]] \in Ident!PlayerRows
    <3>1. players[id] \in Ident!PlayerRows BY <2>1
    <3>2. EntityName[players[id].yahoo] \in Ident!PlayerNames /\ EntityRole[players[id].yahoo] \in Ident!AnyRole
      BY <1>5, <2>2
    <3> QED BY <3>1, <3>2 DEF Ident!PlayerRows
  <2>3. ASSUME NEW id \in 1..Len(players), id \in named PROVE players[id].yahoo \in Entities
    BY <2>3
  <2>4. ASSUME NEW id \in 1..Len(players) PROVE kept[id] \in Ident!PlayerRows
    <3>1. CASE id \in named BY <2>1, <2>2, <2>3, <3>1
    <3>2. CASE id \notin named BY <2>1, <3>2
    <3> QED BY <3>1, <3>2
  <2>5. DOMAIN kept = 1..Len(players) BY <2>1
  <2>6. kept = [id \in 1..Len(players) |-> kept[id]] BY <2>1
  <2> HIDE DEF kept
  <2>7. kept \in [1..Len(players) -> Ident!PlayerRows] BY <2>4, <2>6
  <2> QED BY <2>1, <2>7
<1>8. Ident!Ids = 1..Len(players) /\ Len(players) \in Nat BY DEF IdentInv, Ident!Ids
<1>9. DOMAIN kept = Ident!Ids /\ Len(kept) = Len(players)
  <2>1. DOMAIN kept = Ident!Ids OBVIOUS
  <2> HIDE DEF kept
  <2>2. kept \in [1..Len(players) -> Ident!PlayerRows] BY <1>7, <1>8, <2>1
  <2> QED BY <1>8, <2>1, <2>2
<1>10. ASSUME NEW id \in Ident!Ids
       PROVE  /\ kept[id].yahoo = players[id].yahoo /\ kept[id].mlbam = players[id].mlbam
              /\ kept[id].role = IF id \in named THEN EntityRole[players[id].yahoo] ELSE players[id].role
  <2>1. players[id] \in Ident!PlayerRows BY <1>8 DEF IdentInv
  <2>2. CASE id \in named
    <3>1. kept[id] = [players[id] EXCEPT !.name = EntityName[players[id].yahoo],
                                         !.role = EntityRole[players[id].yahoo]]
      BY <2>2
    <3> HIDE DEF kept, named
    <3> QED BY <2>1, <2>2, <3>1 DEF Ident!PlayerRows
  <2>3. CASE id \notin named
    <3>1. kept[id] = players[id] BY <2>3
    <3> HIDE DEF kept, named
    <3> QED BY <2>3, <3>1
  <2> QED BY <2>2, <2>3
<1>11. ASSUME NEW id \in named, ~moved' PROVE players[id].role = EntityRole[players[id].yahoo]
  BY <1>2, <1>11
<1>12. \A id \in named : id \in Ident!Ids OBVIOUS
<1> HIDE DEF kept, added, named
<1>13. IdentInv' BY <1>2, <1>6, <1>7 DEF IdentInv
<1>14. /\ Ident!Ids \subseteq DOMAIN players'
       /\ \A id \in Ident!Ids : players'[id] = kept[id]
  BY <1>2, <1>6, <1>7, <1>8, <1>9
<1>15. \A id \in Ident!Ids : ~moved' => kept[id].role = players[id].role
  BY <1>10, <1>11
<1> QED BY <1>10, <1>13, <1>14, <1>15

\* Statistics and rosters append rows.
LEMMA AppendingInv ==
  ASSUME IdentInv, Ident!IdentitiesAssumption,
         (\E group \in Ident!Groups : Ident!ReplaceStats(group)) \/ Ident!ReplaceRoster
  PROVE  IdentInv'
<1>1. CASE Ident!ReplaceRoster
  <2>1. PICK role \in {"H", "P"}, m \in Persons : players' = Ident!WithRows(<<m>>, role, "40man")
    BY <1>1 DEF Ident!ReplaceRoster, Ident!Playing
  <2>2. <<m>> \in Seq(Persons) OBVIOUS
  <2>3. role \in Ident!AnyRole BY DEF Ident!AnyRole
  <2>4. UNCHANGED reconciling BY <1>1 DEF Ident!ReplaceRoster
  <2> QED BY <2>1, <2>2, <2>3, <2>4, RowsAreAppended DEF IdentInv
<1>2. ASSUME NEW group \in Ident!Groups, Ident!ReplaceStats(group) PROVE IdentInv'
  <2>1. PICK acquired \in SUBSET Persons :
          /\ players' = Ident!WithRows(Ident!Ext!SetToSeq({m \in acquired : Ident!StatsRow(m, group) = None}),
                                       Ident!RoleOf(group), "seed")
          /\ reconciling' = [group |-> group, rows |-> acquired]
    BY <1>2 DEF Ident!ReplaceStats, Ident!Playing
  <2> DEFINE fresh == {m \in acquired : Ident!StatsRow(m, group) = None}
             queue == Ident!Ext!SetToSeq(fresh)
  <2>2. fresh \in SUBSET Persons /\ IsFiniteSet(Persons)
    BY SameFiniteSets DEF Ident!IdentitiesAssumption
  <2>3. IsFiniteSet(fresh) BY <2>2, FS_Subset
  <2>4. queue \in Seq(Persons)
    <3> HIDE DEF fresh
    <3>1. queue \in Seq(fresh) BY <2>3, SetHasSeq
    <3> QED BY <2>2, <3>1
  <2>5. Ident!RoleOf(group) \in Ident!AnyRole BY DEF Ident!RoleOf, Ident!AnyRole
  <2>6. players' = Ident!WithRows(queue, Ident!RoleOf(group), "seed") BY <2>1
  <2> HIDE DEF queue
  <2>7. players' \in Seq(Ident!PlayerRows) BY <2>4, <2>5, <2>6, RowsAreAppended
  <2> QED BY <2>1, <2>7 DEF IdentInv
<1> QED BY <1>1, <1>2

\* A row named alone has one candidate, which is the one it is given.
LEMMA OneCandidate ==
  ASSUME Ident!IdentitiesAssumption, NEW id, NEW acquired \in SUBSET Persons,
         Ident!NamedAlone(id, acquired)
  PROVE  \E m \in Persons : /\ Ident!Candidates(id, acquired) = {m}
                            /\ (CHOOSE n \in Ident!Candidates(id, acquired) : TRUE) = m
<1> DEFINE named == Ident!Candidates(id, acquired)
<1>1. named \in SUBSET Persons /\ IsFiniteSet(Persons)
  BY SameFiniteSets DEF Ident!Candidates, Ident!IdentitiesAssumption
<1>2. IsFiniteSet(named) BY <1>1, FS_Subset
<1>3. Cardinality(named) = 1 BY SameFiniteSets DEF Ident!NamedAlone
<1> HIDE DEF named
<1>4. PICK m : named = {m} BY <1>2, <1>3, FS_Singleton
<1>5. m \in Persons /\ (CHOOSE n \in named : TRUE) = m BY <1>1, <1>4
<1> QED BY <1>4, <1>5 DEF named

\* What a reconciliation of the role with the persons acquired makes of a row.
BecomesOf(id, role, acquired, new) ==
  /\ new \in Ident!PlayerRows /\ new.yahoo = players[id].yahoo /\ new.role = players[id].role
  /\ \/ Ident!Assigned(id, role, acquired) /\ Ident!Candidates(id, acquired) = {new.mlbam}
     \/ Ident!Released(id) /\ new.mlbam = None
     \/ ~Ident!Released(id) /\ new.mlbam = players[id].mlbam

\* A reconciliation goes over all rows.
LEMMA Reconciliation ==
  ASSUME IdentInv, Ident!IdentitiesAssumption, Ident!Reconcile
  PROVE  /\ DOMAIN players' = Ident!Ids /\ players' \in Seq(Ident!PlayerRows)
         /\ \E role, acquired : \A id \in Ident!Ids : BecomesOf(id, role, acquired, players'[id])
<1>1. reconciling \in [group: Ident!Groups, rows: SUBSET Persons]
  BY DEF IdentInv, Ident!Reconcile
<1> DEFINE role == IF reconciling.group = "hitting" THEN "B" ELSE "P"
           acquired == reconciling.rows
<1>0. acquired \in SUBSET Persons BY <1>1
<1>2. players' = [id \in Ident!Ids |->
        IF Ident!Assigned(id, role, acquired)
          THEN [players[id] EXCEPT !.mlbam = CHOOSE m \in Ident!Candidates(id, acquired) : TRUE,
                                   !.source = "name+team+pos"]
        ELSE IF Ident!Released(id) THEN [players[id] EXCEPT !.mlbam = None, !.source = None]
        ELSE players[id]]
  BY DEF Ident!Reconcile
<1> HIDE DEF role, acquired
<1>3. /\ Ident!Ids = 1..Len(players) /\ Len(players) \in Nat
      /\ \A id \in Ident!Ids : players[id] \in Ident!PlayerRows
  BY DEF IdentInv, Ident!Ids
<1>4. ASSUME NEW id \in Ident!Ids PROVE BecomesOf(id, role, acquired, players'[id])
  <2>1. players[id] \in Ident!PlayerRows BY <1>3
  <2>2. CASE Ident!Assigned(id, role, acquired)
    <3>1. players'[id] = [players[id] EXCEPT !.mlbam = CHOOSE m \in Ident!Candidates(id, acquired) : TRUE,
                                             !.source = "name+team+pos"]
      BY <1>2, <2>2
    <3>2. PICK m \in Persons : /\ Ident!Candidates(id, acquired) = {m}
                               /\ (CHOOSE n \in Ident!Candidates(id, acquired) : TRUE) = m
      BY <1>0, <2>2, OneCandidate DEF Ident!Assigned
    <3>3. players'[id] = [players[id] EXCEPT !.mlbam = m, !.source = "name+team+pos"]
      BY <3>1, <3>2
    <3>4. /\ players'[id] \in Ident!PlayerRows /\ players'[id].mlbam = m
          /\ players'[id].yahoo = players[id].yahoo /\ players'[id].role = players[id].role
      BY <2>1, <3>3 DEF Ident!PlayerRows
    <3> QED BY <2>2, <3>2, <3>4 DEF BecomesOf
  <2>3. CASE ~Ident!Assigned(id, role, acquired) /\ Ident!Released(id)
    <3>1. players'[id] = [players[id] EXCEPT !.mlbam = None, !.source = None] BY <1>2, <2>3
    <3>2. /\ players'[id] \in Ident!PlayerRows /\ players'[id].mlbam = None
          /\ players'[id].yahoo = players[id].yahoo /\ players'[id].role = players[id].role
      BY <2>1, <3>1 DEF Ident!PlayerRows
    <3> QED BY <2>3, <3>2 DEF BecomesOf
  <2>4. CASE ~Ident!Assigned(id, role, acquired) /\ ~Ident!Released(id)
    <3>1. players'[id] = players[id] BY <1>2, <2>4
    <3> QED BY <2>1, <2>4, <3>1 DEF BecomesOf
  <2> QED BY <2>2, <2>3, <2>4
<1>5. DOMAIN players' = Ident!Ids BY <1>2
<1>6. players' = [id \in 1..Len(players) |-> players'[id]]
  <2> DEFINE becomes(id) ==
          IF Ident!Assigned(id, role, acquired)
            THEN [players[id] EXCEPT !.mlbam = CHOOSE m \in Ident!Candidates(id, acquired) : TRUE,
                                     !.source = "name+team+pos"]
          ELSE IF Ident!Released(id) THEN [players[id] EXCEPT !.mlbam = None, !.source = None]
          ELSE players[id]
  <2>1. players' = [id \in 1..Len(players) |-> becomes(id)] BY <1>2, <1>3
  <2> HIDE DEF becomes
  <2> QED BY ONLY <2>1
<1>7. \A id \in 1..Len(players) : players'[id] \in Ident!PlayerRows BY <1>3, <1>4 DEF BecomesOf
<1>8. players' \in [1..Len(players) -> Ident!PlayerRows] BY ONLY <1>6, <1>7
<1>9. players' \in Seq(Ident!PlayerRows) BY <1>3, <1>8
<1> QED BY <1>4, <1>5, <1>9

\* Of two claims on one person the weaker is released.
LEMMA WeakerIsReleased ==
  ASSUME IdentInv, NEW i \in Ident!Ids, NEW j \in Ident!Ids, Ident!SameClaim(i, j)
  PROVE  Ident!Released(i) \/ Ident!Released(j)
<1>1. Ident!ClaimStrength(i) \in 0..3 /\ Ident!ClaimStrength(j) \in 0..3
  BY DEF Ident!ClaimStrength
<1>2. i \in Nat /\ j \in Nat /\ i # j BY DEF IdentInv, Ident!Ids, Ident!SameClaim
<1>3. Ident!SameClaim(j, i) BY DEF Ident!SameClaim
<1>4. \/ Ident!ClaimStrength(i) < Ident!ClaimStrength(j)
      \/ Ident!ClaimStrength(j) < Ident!ClaimStrength(i)
      \/ Ident!ClaimStrength(i) = Ident!ClaimStrength(j) /\ (i < j \/ j < i)
  BY <1>1, <1>2
<1> QED BY <1>3, <1>4 DEF Ident!Released

\* Nobody is given a person whom a row of the role keeps.
LEMMA GivenIsFree ==
  ASSUME IdentInv, NEW i \in Ident!Ids, NEW j \in Ident!Ids, NEW role, NEW acquired, NEW m,
         Ident!Assigned(i, role, acquired), Ident!Candidates(i, acquired) = {m}
  PROVE  ~(/\ ~Ident!Released(j) /\ players[j].mlbam = m
           /\ Ident!IsYahoo(j) /\ players[j].role = players[i].role)
BY DEF Ident!Assigned, Ident!Unmatched, Ident!Held

\* Of two rows with one candidate only the first is given it.
LEMMA GivenOnce ==
  ASSUME IdentInv, NEW i \in Ident!Ids, NEW j \in Ident!Ids, i # j, NEW role, NEW acquired, NEW m,
         Ident!Assigned(i, role, acquired), Ident!Candidates(i, acquired) = {m},
         Ident!Assigned(j, role, acquired), Ident!Candidates(j, acquired) = {m}
  PROVE  FALSE
<1>1. i \in Nat /\ j \in Nat /\ (i < j \/ j < i) BY DEF IdentInv, Ident!Ids
<1> QED BY <1>1 DEF Ident!Assigned

\* After a reconciliation no two rows claim one person.
LEMMA ReconciledClaims ==
  ASSUME IdentInv, Ident!IdentitiesAssumption, Ident!Reconcile
  PROVE  ~(\E i, j \in DOMAIN players : Ident!SameClaim(i, j))'
<1>1. PICK role, acquired : \A id \in Ident!Ids : BecomesOf(id, role, acquired, players'[id])
  BY Reconciliation
<1>2. DOMAIN players' = Ident!Ids BY Reconciliation
<1>3. SUFFICES ASSUME NEW i \in Ident!Ids, NEW j \in Ident!Ids, Ident!SameClaim(i, j)'
               PROVE  FALSE
  BY <1>2
<1>4. /\ i # j /\ players'[i].yahoo # None /\ players'[j].yahoo # None
      /\ players'[i].mlbam # None /\ players'[i].mlbam = players'[j].mlbam
      /\ players'[i].role = players'[j].role
  BY <1>3 DEF Ident!SameClaim, Ident!IsYahoo
<1>5. /\ BecomesOf(i, role, acquired, players'[i]) /\ BecomesOf(j, role, acquired, players'[j])
  BY <1>1
<1>6. /\ players[i].yahoo # None /\ players[j].yahoo # None /\ players[i].role = players[j].role
  BY <1>4, <1>5 DEF BecomesOf
<1> DEFINE given(id) == Ident!Assigned(id, role, acquired) /\ Ident!Candidates(id, acquired) = {players'[id].mlbam}
           held(id) == ~Ident!Released(id) /\ players'[id].mlbam = players[id].mlbam
<1>7. (given(i) \/ held(i)) /\ (given(j) \/ held(j)) BY <1>4, <1>5 DEF BecomesOf
<1>8. CASE given(i) /\ given(j)
  <2>1. Ident!Candidates(i, acquired) = Ident!Candidates(j, acquired) BY <1>4, <1>8
  <2> QED BY <1>4, <1>8, <2>1, GivenOnce
<1>9. CASE given(i) /\ held(j) BY <1>4, <1>6, <1>9, GivenIsFree DEF Ident!IsYahoo
<1>10. CASE held(i) /\ given(j) BY <1>4, <1>6, <1>10, GivenIsFree DEF Ident!IsYahoo
<1>11. CASE held(i) /\ held(j)
  <2>1. Ident!SameClaim(i, j) BY <1>4, <1>6, <1>11 DEF Ident!SameClaim, Ident!IsYahoo
  <2> QED BY <1>11, <2>1, WeakerIsReleased
<1> QED BY <1>7, <1>8, <1>9, <1>10, <1>11

\* Every step keeps the rows what they are.
LEMMA IdentNextInv ==
  Ident!IdentitiesAssumption /\ IdentInv /\ [Ident!IdentitiesNext]_(Ident!identityVars) => IdentInv'
<1> SUFFICES ASSUME Ident!IdentitiesAssumption, IdentInv, [Ident!IdentitiesNext]_(Ident!identityVars)
             PROVE  IdentInv'
  OBVIOUS
<1>1. CASE Ident!UpsertYahoo BY <1>1, UpsertInv
<1>2. CASE (\E group \in Ident!Groups : Ident!ReplaceStats(group)) \/ Ident!ReplaceRoster
  BY <1>2, AppendingInv
<1>3. CASE Ident!Reconcile
  <2>1. reconciling' = None BY <1>3 DEF Ident!Reconcile
  <2> QED BY <1>3, <2>1, Reconciliation DEF IdentInv
<1>4. CASE Ident!SkipReconcile BY <1>4 DEF Ident!SkipReconcile, IdentInv
<1>5. CASE Ident!ReplaceEnrichment BY <1>5 DEF Ident!ReplaceEnrichment, IdentInv
<1>6. CASE UNCHANGED Ident!identityVars BY <1>6 DEF Ident!identityVars, IdentInv
<1> QED BY <1>1, <1>2, <1>3, <1>4, <1>5, <1>6 DEF Ident!IdentitiesNext

\* A step after which two Yahoo rows of one role claim one person is no reconciliation,
\* for every population and every database an older release may have left.
LEMMA ClaimsApart == Ident!IdentitiesSpec => Ident!OneClaimPerRole
<1>0. Ident!IdentitiesAssumption BY ServicesAssumption
<1>1. Ident!IdentitiesInit => IdentInv BY <1>0, IdentInitInv
<1>2. IdentInv /\ [Ident!IdentitiesNext]_(Ident!identityVars) => IdentInv' BY <1>0, IdentNextInv
<1>3. IdentInv /\ [Ident!IdentitiesNext]_(Ident!identityVars)
        => [(\E i, j \in DOMAIN players : Ident!SameClaim(i, j))' => ~Ident!Reconcile]_(Ident!identityVars)
  BY <1>0, ReconciledClaims
<1> QED BY <1>1, <1>2, <1>3, PTL DEF Ident!IdentitiesSpec, Ident!OneClaimPerRole

(***************************************************************************)
(* What the rows show. A table that was replaced holds at most one record  *)
(* of a person, on a row of that person; rows that come later have none,   *)
(* and as long as no row loses its identity or role each record stays on   *)
(* a row from which the readers take it.                                   *)
(***************************************************************************)

\* The records are of the persons of their rows, unless a row was moved.
Owned ==
  \A id \in DOMAIN records :
    /\ id \in Ident!Ids /\ records[id] \in [of: Persons, qs: {0, 1}]
    /\ \A j \in DOMAIN records : records[j].of = records[id].of => j = id
    /\ ~moved => players[id].mlbam = records[id].of

\* A row of the person and role, before which the person has only rows of Yahoo's.
FirstButYahoo(table, role, id, m) ==
  /\ table[id].mlbam = m /\ table[id].role = role
  /\ \A j \in DOMAIN table : j < id /\ table[j].mlbam = m /\ table[j].role = role => table[j].yahoo # None

\* Statistics are on such rows.
Stored ==
  watched \in Ident!Groups /\ ~moved =>
    \A m \in written : \E id \in DOMAIN records :
      FirstButYahoo(players, Ident!RoleOf(watched), id, m)

ShownInv == IdentInv /\ Owned /\ Stored /\ moved \in BOOLEAN /\ watched \in Ident!Tables

\* Some numbers have a least.
LEMMA LeastNumber ==
  ASSUME NEW T \in SUBSET Nat, T # {} PROVE \E x \in T : \A y \in T : x <= y
<1>1. IsWellFoundedOn(OpToRel(<, Nat), Nat) BY NatLessThanWellFounded
<1>2. PICK x \in T : \A y \in T : ~(<<y, x>> \in OpToRel(<, Nat)) BY <1>1, WFMin
<1>3. \A y \in T : x <= y
  <2> TAKE y \in T
  <2>1. ~(y < x) /\ x \in Nat /\ y \in Nat BY <1>2 DEF OpToRel
  <2> QED BY <2>1
<1> QED BY <1>2, <1>3

\* Some numbers with keys have a least, by key and then by number.
LEMMA LeastExists ==
  ASSUME NEW ids \in SUBSET Nat, ids # {}, NEW key \in [ids -> Nat]
  PROVE  \E i \in ids : \A j \in ids \ {i} : key[i] < key[j] \/ (key[i] = key[j] /\ i < j)
<1> DEFINE keys == {key[i] : i \in ids}
<1>1. keys \subseteq Nat /\ keys # {} OBVIOUS
<1> HIDE DEF keys
<1>2. PICK k \in keys : \A l \in keys : k <= l BY <1>1, LeastNumber
<1> DEFINE first == {i \in ids : key[i] = k}
<1>3. first \subseteq Nat /\ first # {} BY DEF keys
<1> HIDE DEF first
<1>6. PICK i \in first : \A j \in first : i <= j BY <1>3, LeastNumber
<1>8. i \in ids /\ key[i] = k BY <1>6 DEF first
<1>9. ASSUME NEW j \in ids, j # i PROVE key[i] < key[j] \/ (key[i] = key[j] /\ i < j)
  <2>1. key[j] \in keys /\ key[j] \in Nat /\ key[i] \in Nat /\ i \in Nat /\ j \in Nat
    BY <1>8 DEF keys
  <2>2. ~(key[j] < key[i]) BY <1>2, <1>8, <2>1
  <2>3. key[j] = key[i] => ~(j < i) BY <1>6, <1>8, <2>1 DEF first
  <2> QED BY <1>9, <2>1, <2>2, <2>3
<1> QED BY <1>8, <1>9

\* The sequence of a finite set has all of its elements, each of them once.
LEMMA SeqCovers ==
  ASSUME NEW S, IsFiniteSet(S)
  PROVE  /\ \A x \in S : \E i \in DOMAIN Ident!Ext!SetToSeq(S) : Ident!Ext!SetToSeq(S)[i] = x
         /\ \A i, j \in DOMAIN Ident!Ext!SetToSeq(S) :
              Ident!Ext!SetToSeq(S)[i] = Ident!Ext!SetToSeq(S)[j] => i = j
<1> DEFINE n == Cardinality(S)
           f == Ident!Ext!SetToSeq(S)
<1>1. n \in Nat BY FS_CardinalityType
<1>2. IsFiniteSet(1..n) /\ Cardinality(1..n) = n BY <1>1, FS_Interval
<1>3. ExistsBijection(1..n, S) BY <1>2, FS_SameCardinalityBij
<1>4. PICK g : g \in [1..n -> S] /\ \A a, b \in DOMAIN g : g[a] = g[b] => a = b
  BY <1>3 DEF ExistsBijection, Bijection, Injection, IsInjective
<1>5. \E h \in [1..n -> S] : Ident!Ext!IsInjective(h) BY <1>4 DEF Ident!Ext!IsInjective
<1>6. f = CHOOSE h \in [1..n -> S] : Ident!Ext!IsInjective(h)
  BY SameFiniteSets DEF Ident!Ext!SetToSeq
<1>7. f \in [1..n -> S] /\ Ident!Ext!IsInjective(f) BY <1>5, <1>6
<1> HIDE DEF f, n
<1>8. f \in Injection(1..n, S) BY <1>7 DEF Injection, IsInjective, Ident!Ext!IsInjective
<1>9. f \in Surjection(1..n, S) BY <1>2, <1>8, FS_Injection DEF n
<1>10. \A x \in S : \E i \in 1..n : f[i] = x BY <1>9 DEF Surjection
<1>11. DOMAIN f = 1..n /\ \A i, j \in DOMAIN f : f[i] = f[j] => i = j
  BY <1>7 DEF Ident!Ext!IsInjective
<1> QED BY <1>10, <1>11 DEF f

\* The rows of a person are numbers.
LEMMA HoldersAreRows ==
  ASSUME IdentInv, NEW m, NEW roles
  PROVE  Ident!Holders(m, roles) \in SUBSET Nat /\ Ident!Holders(m, roles) \subseteq Ident!Ids
BY DEF Ident!Holders, Ident!Ids, IdentInv

\* The writers write to a row of the person, if there is any.
LEMMA WritersRows ==
  ASSUME IdentInv, None \notin Nat, NEW m, NEW group, NEW table
  PROVE  /\ Ident!StatsRow(m, group) # None =>
              Ident!StatsRow(m, group) \in Ident!Holders(m, {Ident!RoleOf(group)})
         /\ Ident!ProjectionRow(m) # None => Ident!ProjectionRow(m) \in Ident!Holders(m, Ident!AnyRole)
         /\ Ident!StatcastRow(m, table) # None =>
              Ident!StatcastRow(m, table) \in Ident!Holders(m, Ident!AnyRole)
<1>1. ASSUME NEW ids \in SUBSET Nat, ids = Ident!Holders(m, {Ident!RoleOf(group)}), ids # {}
      PROVE  Ident!StatsRow(m, group) \in ids
  <2> DEFINE key == [i \in ids |-> 0]
  <2>1. key \in [ids -> Nat] OBVIOUS
  <2>2. \E i \in ids : \A j \in ids \ {i} : key[i] < key[j] \/ (key[i] = key[j] /\ i < j)
    BY <1>1, <2>1, LeastExists
  <2>3. \E i \in ids : \A j \in ids \ {i} : 0 < 0 \/ (0 = 0 /\ i < j) BY <2>2
  <2> QED BY <1>1, <2>3 DEF Ident!StatsRow, Ident!Least
<1>2. ASSUME NEW ids \in SUBSET Nat, ids = Ident!Holders(m, Ident!AnyRole), ids # {}
      PROVE  Ident!ProjectionRow(m) \in ids
  <2> DEFINE key == [i \in ids |-> Ident!Bit(Ident!Seeded(i))]
  <2>1. key \in [ids -> Nat] BY DEF Ident!Bit
  <2>2. \E i \in ids : \A j \in ids \ {i} : key[i] < key[j] \/ (key[i] = key[j] /\ i < j)
    BY <1>2, <2>1, LeastExists
  <2>3. \E i \in ids : \A j \in ids \ {i} :
          \/ Ident!Bit(Ident!Seeded(i)) < Ident!Bit(Ident!Seeded(j))
          \/ Ident!Bit(Ident!Seeded(i)) = Ident!Bit(Ident!Seeded(j)) /\ i < j
    BY <2>2
  <2> QED BY <1>2, <2>3 DEF Ident!ProjectionRow, Ident!Least
<1>3. ASSUME NEW ids \in SUBSET Nat, ids = Ident!Holders(m, Ident!AnyRole), ids # {}
      PROVE  Ident!StatcastRow(m, table) \in ids
  <2> DEFINE of(id) == 4 * Ident!Bit(players[id].role \notin Ident!Readable(table))
                       + 2 * Ident!Bit(Ident!Seeded(id)) + Ident!Bit(~Ident!IsYahoo(id))
             key == [i \in ids |-> of(i)]
  <2>1. key \in [ids -> Nat] BY DEF Ident!Bit
  <2>2. \E i \in ids : \A j \in ids \ {i} : key[i] < key[j] \/ (key[i] = key[j] /\ i < j)
    BY <1>3, <2>1, LeastExists
  <2> HIDE DEF of
  <2>3. \E i \in ids : \A j \in ids \ {i} : of(i) < of(j) \/ (of(i) = of(j) /\ i < j)
    BY <2>2
  <2> QED BY <1>3, <2>3 DEF Ident!StatcastRow, Ident!Least, of
<1> QED
  BY <1>1, <1>2, <1>3, HoldersAreRows
  DEF Ident!StatsRow, Ident!ProjectionRow, Ident!StatcastRow, Ident!Least

\* Statistics are written to the lowest row of the person and role.
LEMMA LowestOfRole ==
  ASSUME IdentInv, None \notin Nat, NEW m, NEW group, Ident!Holders(m, {Ident!RoleOf(group)}) # {}
  PROVE  /\ Ident!StatsRow(m, group) \in Ident!Holders(m, {Ident!RoleOf(group)})
         /\ \A j \in Ident!Holders(m, {Ident!RoleOf(group)}) : Ident!StatsRow(m, group) <= j
<1> DEFINE ids == Ident!Holders(m, {Ident!RoleOf(group)})
           key == [i \in ids |-> 0]
<1>1. ids \in SUBSET Nat /\ ids # {} BY HoldersAreRows
<1>2. Ident!StatsRow(m, group) = CHOOSE i \in ids : \A j \in ids \ {i} : 0 < 0 \/ (0 = 0 /\ i < j)
  BY DEF Ident!StatsRow, Ident!Least
<1> HIDE DEF ids
<1>3. \E i \in ids : \A j \in ids \ {i} : key[i] < key[j] \/ (key[i] = key[j] /\ i < j)
  <2>1. key \in [ids -> Nat] OBVIOUS
  <2> QED BY <1>1, <2>1, LeastExists
<1>4. \E i \in ids : \A j \in ids \ {i} : 0 < 0 \/ (0 = 0 /\ i < j) BY <1>3
<1> DEFINE pick == Ident!StatsRow(m, group)
<1>5. pick \in ids /\ \A j \in ids \ {pick} : pick < j BY <1>2, <1>4
<1> HIDE DEF pick
<1>6. \A j \in ids : pick <= j
  <2> TAKE j \in ids
  <2>1. pick \in Nat /\ j \in Nat BY <1>1, <1>5
  <2> QED BY <1>5, <2>1
<1> QED BY <1>5, <1>6 DEF ids, pick

\* What the readers pick is a record on one of the person's rows, of statistics whichever
\* has one.
ReadersPick ==
  \A m :
    /\ watched \in Ident!Groups =>
         LET ids == Ident!Holders(m, Ident!Readable(watched)) \intersect DOMAIN records
         IN IF ids = {} THEN Ident!PoolShows(m) = None ELSE \E id \in ids : Ident!PoolShows(m) = records[id]
    /\ watched \notin Ident!Groups =>
         \/ Ident!PoolShows(m) = None
         \/ \E id \in Ident!Holders(m, Ident!Readable(watched)) \intersect DOMAIN records :
              Ident!PoolShows(m) = records[id]
    /\ \/ Ident!RosterShows(m) = None
       \/ \E id \in Ident!Holders(m, Ident!AnyRole) \intersect DOMAIN records : Ident!RosterShows(m) = records[id]
    /\ \/ Ident!ProjectionShown(m) = None
       \/ \E id \in Ident!Holders(m, Ident!AnyRole) \intersect DOMAIN records : Ident!ProjectionShown(m) = records[id]

\* A row that is picked is one of those to pick from; there is none without them.
LEMMA ReadersPickRows == ShownInv /\ None \notin Nat => ReadersPick
<1> SUFFICES ASSUME ShownInv, None \notin Nat PROVE ReadersPick
  OBVIOUS
<1>1. IdentInv /\ Owned BY DEF ShownInv
<1>2. Ident!Record(None) = None
  <2>1. None \notin DOMAIN records BY <1>1 DEF Owned, IdentInv, Ident!Ids
  <2> QED BY <2>1 DEF Ident!Record
<1>3. ASSUME NEW ids \in SUBSET Nat, ids # {}, NEW m, watched \in Ident!Groups,
             ids = Ident!Holders(m, Ident!Readable(watched)) \intersect DOMAIN records
      PROVE  \E id \in ids : Ident!PoolShows(m) = records[id]
  <2> DEFINE of(id) == 2 * Ident!Bit(Ident!Seeded(id))
                       + Ident!Bit(watched \notin Ident!Groups /\ ~Ident!IsYahoo(id))
             key == [i \in ids |-> of(i)]
             picked == CHOOSE i \in ids : \A j \in ids \ {i} : of(i) < of(j) \/ (of(i) = of(j) /\ i < j)
  <2>1. key \in [ids -> Nat] BY DEF Ident!Bit
  <2>2. \E i \in ids : \A j \in ids \ {i} : key[i] < key[j] \/ (key[i] = key[j] /\ i < j)
    BY <1>3, <2>1, LeastExists
  <2> HIDE DEF of
  <2>3. \E i \in ids : \A j \in ids \ {i} : of(i) < of(j) \/ (of(i) = of(j) /\ i < j)
    BY <2>2
  <2>4. picked \in ids BY <2>3
  <2>5. Ident!PoolShows(m) = Ident!Record(picked)
    BY <1>3 DEF Ident!PoolShows, Ident!Least, of
  <2> HIDE DEF picked
  <2> QED BY <1>3, <2>4, <2>5 DEF Ident!Record
<1>4. ASSUME NEW ids \in SUBSET Nat, ids # {}, NEW m, watched \notin Ident!Groups,
             ids = Ident!Holders(m, Ident!Readable(watched))
      PROVE  \E id \in ids : Ident!PoolShows(m) = Ident!Record(id)
  <2> DEFINE of(id) == 2 * Ident!Bit(Ident!Seeded(id))
                       + Ident!Bit(watched \notin Ident!Groups /\ ~Ident!IsYahoo(id))
             key == [i \in ids |-> of(i)]
             picked == CHOOSE i \in ids : \A j \in ids \ {i} : of(i) < of(j) \/ (of(i) = of(j) /\ i < j)
  <2>1. key \in [ids -> Nat] BY DEF Ident!Bit
  <2>2. \E i \in ids : \A j \in ids \ {i} : key[i] < key[j] \/ (key[i] = key[j] /\ i < j)
    BY <1>4, <2>1, LeastExists
  <2> HIDE DEF of
  <2>3. \E i \in ids : \A j \in ids \ {i} : of(i) < of(j) \/ (of(i) = of(j) /\ i < j)
    BY <2>2
  <2>4. picked \in ids BY <2>3
  <2>5. Ident!PoolShows(m) = Ident!Record(picked)
    BY <1>4 DEF Ident!PoolShows, Ident!Least, of
  <2> HIDE DEF picked
  <2> QED BY <2>4, <2>5
<1>5. ASSUME NEW ids \in SUBSET Nat, ids # {}, NEW m, ids = Ident!Holders(m, Ident!AnyRole)
      PROVE  \E id \in ids : Ident!RosterShows(m) = Ident!Record(id)
  <2> DEFINE of(id) == Ident!Bit(~Ident!Seeded(id))
             key == [i \in ids |-> of(i)]
             picked == CHOOSE i \in ids : \A j \in ids \ {i} : of(i) < of(j) \/ (of(i) = of(j) /\ i < j)
  <2>1. key \in [ids -> Nat] BY DEF Ident!Bit
  <2>2. \E i \in ids : \A j \in ids \ {i} : key[i] < key[j] \/ (key[i] = key[j] /\ i < j)
    BY <1>5, <2>1, LeastExists
  <2> HIDE DEF of
  <2>3. \E i \in ids : \A j \in ids \ {i} : of(i) < of(j) \/ (of(i) = of(j) /\ i < j)
    BY <2>2
  <2>4. picked \in ids BY <2>3
  <2>5. Ident!RosterShows(m) = Ident!Record(picked)
    BY <1>5 DEF Ident!RosterShows, Ident!RosterJoin, Ident!Least, of
  <2> HIDE DEF picked
  <2> QED BY <2>4, <2>5
<1>6. ASSUME NEW m, NEW ids, NEW shown, \E id \in ids : shown = Ident!Record(id)
      PROVE  shown = None \/ \E id \in ids \intersect DOMAIN records : shown = records[id]
  BY <1>6 DEF Ident!Record
<1>7. ASSUME NEW m, watched \in Ident!Groups,
             Ident!Holders(m, Ident!Readable(watched)) \intersect DOMAIN records = {}
      PROVE  Ident!PoolShows(m) = None
  BY <1>2, <1>7 DEF Ident!PoolShows, Ident!Least
<1>8. ASSUME NEW m, watched \notin Ident!Groups PROVE
        \/ Ident!PoolShows(m) = None
        \/ \E id \in Ident!Holders(m, Ident!Readable(watched)) \intersect DOMAIN records :
              Ident!PoolShows(m) = records[id]
  <2>1. CASE Ident!Holders(m, Ident!Readable(watched)) = {}
    BY <1>2, <1>8, <2>1 DEF Ident!PoolShows, Ident!Least
  <2>2. CASE Ident!Holders(m, Ident!Readable(watched)) # {}
    BY <1>1, <1>4, <1>6, <1>8, <2>2, HoldersAreRows
  <2> QED BY <2>1, <2>2
<1>9. ASSUME NEW m PROVE
        \/ Ident!RosterShows(m) = None
        \/ \E id \in Ident!Holders(m, Ident!AnyRole) \intersect DOMAIN records : Ident!RosterShows(m) = records[id]
  <2>1. CASE Ident!Holders(m, Ident!AnyRole) = {}
    BY <1>2, <2>1 DEF Ident!RosterShows, Ident!RosterJoin, Ident!Least
  <2>2. CASE Ident!Holders(m, Ident!AnyRole) # {}
    BY <1>1, <1>5, <1>6, <2>2, HoldersAreRows
  <2> QED BY <2>1, <2>2
<1>10. ASSUME NEW m PROVE
        \/ Ident!ProjectionShown(m) = None
        \/ \E id \in Ident!Holders(m, Ident!AnyRole) \intersect DOMAIN records :
             Ident!ProjectionShown(m) = records[id]
  <2>1. CASE Ident!ProjectionRow(m) = None BY <1>2, <2>1 DEF Ident!ProjectionShown
  <2>2. CASE Ident!ProjectionRow(m) # None
    <3>1. Ident!ProjectionRow(m) \in Ident!Holders(m, Ident!AnyRole) BY <1>1, <2>2, WritersRows
    <3> QED BY <1>6, <3>1 DEF Ident!ProjectionShown
  <2> QED BY <2>1, <2>2
<1>11. ASSUME NEW m, watched \in Ident!Groups,
              Ident!Holders(m, Ident!Readable(watched)) \intersect DOMAIN records # {}
       PROVE  \E id \in Ident!Holders(m, Ident!Readable(watched)) \intersect DOMAIN records :
                Ident!PoolShows(m) = records[id]
  BY <1>1, <1>3, <1>11, HoldersAreRows
<1> QED BY <1>7, <1>8, <1>9, <1>10, <1>11 DEF ReadersPick

\* So what is shown is the person's own.
LEMMA PickedIsOwn ==
  ShownInv /\ Ident!IdentitiesAssumption => Ident!PlayersShowTheirOwn
<1> SUFFICES ASSUME ShownInv, Ident!IdentitiesAssumption PROVE Ident!PlayersShowTheirOwn
  OBVIOUS
<1>1. ReadersPick /\ Owned BY ReadersPickRows DEF Ident!IdentitiesAssumption, ShownInv
<1>2. ASSUME NEW m, NEW roles, ~moved, NEW id \in Ident!Holders(m, roles) \intersect DOMAIN records
      PROVE  records[id] # None /\ records[id].of = m
  BY <1>1, <1>2 DEF Owned, Ident!Holders, Ident!IdentitiesAssumption
<1>3. Ident!PoolShowsStored
  <2> SUFFICES ASSUME watched \in Ident!Groups, ~moved, NEW m \in written
               PROVE  Ident!PoolShows(m) # None /\ Ident!PoolShows(m).of = m
    BY DEF Ident!PoolShowsStored
  <2> DEFINE ids == Ident!Holders(m, Ident!Readable(watched)) \intersect DOMAIN records
  <2>1. PICK id \in DOMAIN records : players[id].mlbam = m /\ players[id].role \in Ident!Readable(watched)
    <3>1. Ident!RoleOf(watched) \in Ident!Readable(watched)
      BY DEF Ident!RoleOf, Ident!Readable, Ident!Groups, Ident!BatterRoles
    <3> QED BY <3>1 DEF ShownInv, Stored, FirstButYahoo
  <2>2. id \in ids BY <1>1, <2>1 DEF Ident!Holders, Owned
  <2>3. PICK j \in ids : Ident!PoolShows(m) = records[j] BY <1>1, <2>2 DEF ReadersPick
  <2> QED BY <1>2, <2>3
<1>4. Ident!ShownIsOwn
  <2> SUFFICES ASSUME ~moved, NEW m \in Persons
               PROVE  /\ Ident!PoolShows(m) = None \/ Ident!PoolShows(m).of = m
                      /\ Ident!RosterShows(m) = None \/ Ident!RosterShows(m).of = m
                      /\ Ident!ProjectionShown(m) = None \/ Ident!ProjectionShown(m).of = m
    BY DEF Ident!ShownIsOwn
  <2>1. Ident!PoolShows(m) = None \/ Ident!PoolShows(m).of = m
    <3>1. \/ Ident!PoolShows(m) = None
          \/ \E id \in Ident!Holders(m, Ident!Readable(watched)) \intersect DOMAIN records :
               Ident!PoolShows(m) = records[id]
      BY <1>1 DEF ReadersPick
    <3> QED BY <1>2, <3>1
  <2>2. Ident!RosterShows(m) = None \/ Ident!RosterShows(m).of = m BY <1>1, <1>2 DEF ReadersPick
  <2>3. Ident!ProjectionShown(m) = None \/ Ident!ProjectionShown(m).of = m
    BY <1>1, <1>2 DEF ReadersPick
  <2> QED BY <2>1, <2>2, <2>3
<1>5. Ident!RosterShowsStored
  <2> SUFFICES ASSUME watched \in Ident!Groups, ~moved, NEW m \in written, NEW id, id = Ident!RosterJoin(m),
                      id # None, id = Ident!StatsRow(m, watched), ~Ident!IsYahoo(id)
               PROVE  Ident!RosterShows(m) # None
    BY DEF Ident!RosterShowsStored
  <2> DEFINE role == Ident!RoleOf(watched)
             ids == Ident!Holders(m, {role})
  <2>1. PICK at \in DOMAIN records : FirstButYahoo(players, role, at, m) BY DEF ShownInv, Stored
  <2>2. IdentInv /\ None \notin Nat BY DEF ShownInv, Ident!IdentitiesAssumption
  <2>3. at \in ids BY <1>1, <2>1 DEF Ident!Holders, Owned, FirstButYahoo
  <2>4. id \in ids /\ id <= at BY <2>2, <2>3, LowestOfRole
  <2>5. id \in Nat /\ at \in Nat /\ id \in DOMAIN players /\ players[id].mlbam = m /\ players[id].role = role
    BY <2>2, <2>3, <2>4, HoldersAreRows DEF Ident!Holders, Ident!Ids
  <2>6. ~(id < at) BY <2>1, <2>5 DEF FirstButYahoo, Ident!IsYahoo
  <2>7. id = at BY <2>4, <2>5, <2>6
  <2>8. records[at] # None BY <1>2, <2>3
  <2> QED BY <2>1, <2>7, <2>8 DEF Ident!RosterShows, Ident!Record
<1> QED BY <1>3, <1>4, <1>5 DEF Ident!PlayersShowTheirOwn

\* A step that replaces no record: rows stay, and while none is moved they keep their roles
\* and the identities they have; only rows of Yahoo's are given one.
Follows ==
  /\ UNCHANGED <<watched, records, written>> /\ Ident!Ids \subseteq DOMAIN players'
  /\ moved' \in BOOLEAN
  /\ ~moved' =>
       /\ ~moved
       /\ \A id \in Ident!Ids :
            /\ players'[id].role = players[id].role /\ players'[id].yahoo = players[id].yahoo
            /\ players[id].mlbam # None \/ players[id].yahoo = None =>
                 players'[id].mlbam = players[id].mlbam

\* It leaves the records where they are shown.
LEMMA FollowsInv ==
  ASSUME ShownInv, IdentInv', Follows, Ident!IdentitiesAssumption
  PROVE  ShownInv'
<1>1. Owned' /\ Stored'
  <2>1. ASSUME ~moved', NEW id \in DOMAIN records
        PROVE  players'[id].mlbam = players[id].mlbam /\ players'[id].role = players[id].role
    <3>1. id \in Ident!Ids /\ players[id].mlbam \in Persons BY <2>1 DEF ShownInv, Owned, Follows
    <3> QED BY <2>1, <3>1 DEF Follows, Ident!IdentitiesAssumption
  <2>2. Owned' BY <2>1 DEF Follows, ShownInv, Owned, Ident!Ids
  <2>3. Stored'
    <3> SUFFICES ASSUME watched' \in Ident!Groups, ~moved', NEW m \in written'
                 PROVE  \E id \in DOMAIN records' : FirstButYahoo(players', Ident!RoleOf(watched'), id, m)
      BY DEF Stored, Ident!Groups, Ident!RoleOf
    <3>1. UNCHANGED <<watched, records, written>> /\ ~moved BY DEF Follows
    <3>2. PICK id \in DOMAIN records : FirstButYahoo(players, Ident!RoleOf(watched), id, m)
      BY <3>1 DEF ShownInv, Stored
    <3>3. players'[id].mlbam = m /\ players'[id].role = Ident!RoleOf(watched)
      BY <2>1, <3>2 DEF FirstButYahoo
    <3>4. ASSUME NEW j \in DOMAIN players', j < id, players'[j].mlbam = m,
                 players'[j].role = Ident!RoleOf(watched)
          PROVE  players'[j].yahoo # None
      <4>1. j \in Nat /\ j >= 1 /\ id \in 1..Len(players) /\ Ident!Ids = 1..Len(players) /\ Len(players) \in Nat
        BY DEF ShownInv, IdentInv, Owned, Ident!Ids
      <4>2. j \in Ident!Ids BY <3>4, <4>1
      <4>3. players'[j].role = players[j].role /\ players'[j].yahoo = players[j].yahoo
            /\ (players[j].yahoo = None => players'[j].mlbam = players[j].mlbam)
        BY <4>2 DEF Follows
      <4> QED BY <3>2, <3>4, <4>2, <4>3 DEF FirstButYahoo, Ident!Ids
    <3>5. FirstButYahoo(players', Ident!RoleOf(watched), id, m) BY <3>3, <3>4 DEF FirstButYahoo
    <3> QED BY <3>1, <3>5
  <2> QED BY <2>2, <2>3
<1> QED BY <1>1 DEF ShownInv, Follows

\* Rows that are appended leave the others alone.
LEMMA AppendingFollows ==
  ASSUME IdentInv, NEW queue \in Seq(Persons), NEW role, NEW source,
         players' = Ident!WithRows(queue, role, source)
  PROVE  /\ Ident!Ids \subseteq DOMAIN players' /\ \A id \in Ident!Ids : players'[id] = players[id]
         /\ \A i \in DOMAIN queue :
              Len(players) + i \in DOMAIN players' /\ players'[Len(players) + i].mlbam = queue[i]
              /\ players'[Len(players) + i].role = role
         /\ \A id \in DOMAIN players' \ Ident!Ids : \E i \in DOMAIN queue : id = Len(players) + i
<1> DEFINE added == [i \in DOMAIN queue |-> Ident!Row(None, PersonName[queue[i]], role, queue[i], source)]
<1>1. players' = players \o added BY DEF Ident!WithRows
<1>2. DOMAIN queue = 1..Len(queue) /\ Len(queue) \in Nat OBVIOUS
<1>3. added \in Seq({added[i] : i \in 1..Len(queue)}) /\ Len(added) = Len(queue)
  <2>1. added \in [1..Len(queue) -> {added[i] : i \in 1..Len(queue)}] BY <1>2
  <2> HIDE DEF added
  <2> QED BY <1>2, <2>1
<1>4. \A i \in DOMAIN queue : added[i].mlbam = queue[i] /\ added[i].role = role
  BY DEF Ident!Row
<1> HIDE DEF added
<1>5. Len(players) \in Nat /\ Ident!Ids = 1..Len(players) /\ players \in Seq(Ident!PlayerRows)
  BY DEF IdentInv, Ident!Ids
<1>6. /\ DOMAIN players' = 1..(Len(players) + Len(queue))
      /\ \A i \in 1..Len(players) : players'[i] = players[i]
      /\ \A i \in 1..Len(queue) : players'[Len(players) + i] = added[i]
  <2> DEFINE All == Ident!PlayerRows \union {added[i] : i \in 1..Len(queue)}
  <2>1. players \in Seq(All) /\ added \in Seq(All)
    <3>1. players \in [1..Len(players) -> All]
      <4>1. players \in [1..Len(players) -> Ident!PlayerRows] BY <1>5
      <4> QED BY <4>1
    <3>2. added \in [1..Len(queue) -> All]
      <4>1. added \in [1..Len(queue) -> {added[i] : i \in 1..Len(queue)}] BY <1>3
      <4> QED BY <4>1
    <3> HIDE DEF All
    <3> QED BY <1>2, <1>5, <3>1, <3>2
  <2> HIDE DEF All
  <2>2. /\ Len(players \o added) = Len(players) + Len(added) /\ players \o added \in Seq(All)
        /\ \A i \in 1..Len(players) : (players \o added)[i] = players[i]
        /\ \A i \in 1..Len(added) : (players \o added)[Len(players) + i] = added[i]
    BY <1>5, <2>1
  <2>3. DOMAIN (players \o added) = 1..(Len(players) + Len(added)) BY <2>2
  <2> QED BY <1>1, <1>3, <2>2, <2>3
<1>7. ASSUME NEW i \in DOMAIN queue
      PROVE  /\ Len(players) + i \in 1..(Len(players) + Len(queue))
             /\ players'[Len(players) + i] = added[i]
  BY <1>2, <1>5, <1>6
<1>8. Ident!Ids \subseteq 1..(Len(players) + Len(queue)) BY <1>2, <1>5
<1>9. ASSUME NEW id \in DOMAIN players' \ Ident!Ids PROVE \E i \in DOMAIN queue : id = Len(players) + i
  <2>1. id - Len(players) \in 1..Len(queue) /\ id = Len(players) + (id - Len(players))
    BY <1>2, <1>5, <1>6
  <2> QED BY <1>2, <2>1
<1> QED BY <1>4, <1>5, <1>6, <1>7, <1>8, <1>9

\* Every step but a replacement of the watched table leaves its records alone.
LEMMA QuietSteps ==
  ASSUME ShownInv, Ident!IdentitiesAssumption,
         \/ Ident!UpsertYahoo \/ Ident!Reconcile \/ Ident!SkipReconcile \/ Ident!ReplaceRoster
         \/ \E group \in Ident!Groups : Ident!ReplaceStats(group) /\ watched # group
  PROVE  Follows
<1>1. IdentInv /\ moved \in BOOLEAN BY DEF ShownInv
<1>2. CASE Ident!UpsertYahoo
  <2>1. /\ UNCHANGED <<watched, records, written>> /\ moved' \in BOOLEAN
        /\ ~moved' => ~moved
    BY <1>1, <1>2 DEF Ident!UpsertYahoo
  <2> QED BY <1>1, <1>2, <2>1, UpsertInv DEF Follows
<1>3. CASE Ident!Reconcile
  <2>1. /\ UNCHANGED <<watched, records, written>> /\ moved' \in BOOLEAN
        /\ ~moved' => ~moved /\ \A id \in Ident!Ids : ~Ident!Released(id)
    BY <1>1, <1>3 DEF Ident!Reconcile
  <2>2. PICK role, acquired : \A id \in Ident!Ids : BecomesOf(id, role, acquired, players'[id])
    BY <1>1, <1>3, Reconciliation
  <2>3. Ident!Ids \subseteq DOMAIN players' BY <1>1, <1>3, Reconciliation
  <2>4. ASSUME NEW id \in Ident!Ids, ~moved'
        PROVE  /\ players'[id].role = players[id].role /\ players'[id].yahoo = players[id].yahoo
               /\ players[id].mlbam # None \/ players[id].yahoo = None =>
                    players'[id].mlbam = players[id].mlbam
    <3>1. BecomesOf(id, role, acquired, players'[id]) /\ ~Ident!Released(id) BY <2>1, <2>2, <2>4
    <3> QED BY <3>1 DEF BecomesOf, Ident!Assigned, Ident!Unmatched, Ident!IsYahoo
  <2> QED BY <2>1, <2>3, <2>4 DEF Follows
<1>4. CASE Ident!SkipReconcile BY <1>1, <1>4 DEF Ident!SkipReconcile, Follows, Ident!Ids
<1>5. CASE Ident!ReplaceRoster
  <2>1. PICK role \in {"H", "P"}, m \in Persons : players' = Ident!WithRows(<<m>>, role, "40man")
    BY <1>5 DEF Ident!ReplaceRoster, Ident!Playing
  <2>2. <<m>> \in Seq(Persons) OBVIOUS
  <2>3. UNCHANGED <<watched, records, written, moved>> BY <1>5 DEF Ident!ReplaceRoster
  <2> QED BY <1>1, <2>1, <2>2, <2>3, AppendingFollows DEF Follows
<1>6. ASSUME NEW group \in Ident!Groups, Ident!ReplaceStats(group), watched # group PROVE Follows
  <2>1. PICK acquired \in SUBSET Persons :
          players' = Ident!WithRows(Ident!Ext!SetToSeq({m \in acquired : Ident!StatsRow(m, group) = None}),
                                    Ident!RoleOf(group), "seed")
    BY <1>6 DEF Ident!ReplaceStats, Ident!Playing
  <2> DEFINE fresh == {m \in acquired : Ident!StatsRow(m, group) = None}
             queue == Ident!Ext!SetToSeq(fresh)
  <2>2. fresh \in SUBSET Persons /\ IsFiniteSet(Persons)
    BY SameFiniteSets DEF Ident!IdentitiesAssumption
  <2>3. IsFiniteSet(fresh) BY <2>2, FS_Subset
  <2>4. queue \in Seq(Persons)
    <3> HIDE DEF fresh
    <3>1. queue \in Seq(fresh) BY <2>3, SetHasSeq
    <3> QED BY <2>2, <3>1
  <2>5. UNCHANGED <<watched, records, written, moved>> BY <1>6 DEF Ident!ReplaceStats
  <2>6. players' = Ident!WithRows(queue, Ident!RoleOf(group), "seed") BY <2>1
  <2> HIDE DEF queue
  <2> QED BY <1>1, <2>4, <2>5, <2>6, AppendingFollows DEF Follows
<1> QED BY <1>2, <1>3, <1>4, <1>5, <1>6

\* A replacement: each of the persons acquired has one record, on the row it is written to,
\* which is one of that person, and for statistics the lowest of the role. Quality starts of one
\* of the person's records are not forgotten.
Replaces(target, acquired) ==
  /\ acquired \in SUBSET Persons /\ DOMAIN records' = {target[m] : m \in acquired}
  /\ \A m \in acquired :
       /\ target[m] \in DOMAIN players' /\ players'[target[m]].mlbam = m
       /\ records'[target[m]] \in [of: Persons, qs: {0, 1}] /\ records'[target[m]].of = m
       /\ watched \in Ident!Groups => FirstButYahoo(players', Ident!RoleOf(watched), target[m], m)
       /\ (/\ watched = "pitching"
           /\ \E id \in Ident!Holders(m, Ident!AnyRole) \intersect DOMAIN records : records[id].qs > 0)
            => records'[target[m]].qs > 0
  /\ written' = acquired /\ moved' = FALSE /\ watched' = watched

\* It leaves the records where they are shown.
LEMMA ReplacesInv ==
  ASSUME ShownInv, IdentInv', NEW target, NEW acquired, Replaces(target, acquired)
  PROVE  ShownInv'
<1>1. ASSUME NEW id \in DOMAIN records'
      PROVE  \E m \in acquired : /\ id = target[m] /\ id \in DOMAIN players' /\ players'[id].mlbam = m
                                 /\ records'[id] \in [of: Persons, qs: {0, 1}] /\ records'[id].of = m
  BY DEF Replaces
<1>2. Owned' BY <1>1 DEF Owned, Ident!Ids
<1>3. Stored' BY DEF Replaces, Stored
<1> QED BY <1>2, <1>3 DEF ShownInv, Replaces

\* What is retained of a pitcher's quality starts is one of the numbers his rows have.
LEMMA RetainedStartsAreSome ==
  ASSUME Owned, NEW m
  PROVE  /\ Ident!RetainedStarts(m) \in {0, 1}
         /\ (\E id \in Ident!Holders(m, Ident!AnyRole) \intersect DOMAIN records : records[id].qs > 0)
              => Ident!RetainedStarts(m) > 0
<1> DEFINE had == {records[id].qs : id \in Ident!Holders(m, Ident!AnyRole) \intersect DOMAIN records}
           all == {0} \union had
<1>1. Ident!RetainedStarts(m) = CHOOSE x \in all : \A y \in all : x >= y
  BY DEF Ident!RetainedStarts, Ident!Ext!Max
<1>2. had \subseteq {0, 1} BY DEF Owned
<1>3. (\E id \in Ident!Holders(m, Ident!AnyRole) \intersect DOMAIN records : records[id].qs > 0) => 1 \in had
  BY <1>2
<1> HIDE DEF had
<1>4. \E x \in all : \A y \in all : x >= y
  <2>1. CASE 1 \in had BY <1>2, <2>1
  <2>2. CASE 1 \notin had BY <1>2, <2>2
  <2> QED BY <2>1, <2>2
<1>5. all \subseteq {0, 1} /\ (1 \in had => 1 \in all) BY <1>2
<1> HIDE DEF all
<1>6. Ident!RetainedStarts(m) \in all /\ \A y \in all : Ident!RetainedStarts(m) >= y BY <1>1, <1>4
<1>7. Ident!RetainedStarts(m) \in {0, 1} BY <1>5, <1>6
<1>8. 1 \in had => Ident!RetainedStarts(m) > 0 BY <1>5, <1>6, <1>7
<1> QED BY <1>3, <1>7, <1>8

\* Statistics replace the watched table.
LEMMA StatsReplace ==
  ASSUME ShownInv, Ident!IdentitiesAssumption, NEW group \in Ident!Groups,
         Ident!ReplaceStats(group), watched = group
  PROVE  \E target, acquired : Replaces(target, acquired)
<1>1. PICK acquired \in SUBSET Ident!Playing(Ident!RoleOf(group)) :
        \E quality \in [acquired -> IF group = "pitching" /\ watched = group THEN {0, 1} ELSE {0}] :
          LET queue == Ident!Ext!SetToSeq({m \in acquired : Ident!StatsRow(m, group) = None})
              RowOf(m) == IF Ident!StatsRow(m, group) # None THEN Ident!StatsRow(m, group)
                          ELSE Len(players) + (CHOOSE i \in DOMAIN queue : queue[i] = m)
              Starts(m) == IF quality[m] > 0 \/ group # "pitching" THEN quality[m] ELSE Ident!RetainedStarts(m)
          IN /\ players' = Ident!WithRows(queue, Ident!RoleOf(group), "seed")
             /\ IF watched # group THEN UNCHANGED <<records, written, moved>>
                ELSE Ident!Write([id \in {RowOf(m) : m \in acquired} |->
                                    LET m == CHOOSE m \in acquired : RowOf(m) = id
                                    IN [of |-> m, qs |-> Starts(m)]], acquired)
             /\ reconciling' = [group |-> group, rows |-> acquired]
  BY DEF Ident!ReplaceStats
<1>0. PICK quality \in [acquired -> IF group = "pitching" /\ watched = group THEN {0, 1} ELSE {0}] :
        LET queue == Ident!Ext!SetToSeq({m \in acquired : Ident!StatsRow(m, group) = None})
            RowOf(m) == IF Ident!StatsRow(m, group) # None THEN Ident!StatsRow(m, group)
                        ELSE Len(players) + (CHOOSE i \in DOMAIN queue : queue[i] = m)
            Starts(m) == IF quality[m] > 0 \/ group # "pitching" THEN quality[m] ELSE Ident!RetainedStarts(m)
        IN /\ players' = Ident!WithRows(queue, Ident!RoleOf(group), "seed")
           /\ IF watched # group THEN UNCHANGED <<records, written, moved>>
              ELSE Ident!Write([id \in {RowOf(m) : m \in acquired} |->
                                  LET m == CHOOSE m \in acquired : RowOf(m) = id
                                  IN [of |-> m, qs |-> Starts(m)]], acquired)
           /\ reconciling' = [group |-> group, rows |-> acquired]
  BY <1>1
<1> DEFINE fresh == {m \in acquired : Ident!StatsRow(m, group) = None}
           queue == Ident!Ext!SetToSeq(fresh)
           RowOf(m) == IF Ident!StatsRow(m, group) # None THEN Ident!StatsRow(m, group)
                       ELSE Len(players) + (CHOOSE i \in DOMAIN queue : queue[i] = m)
           Starts(m) == IF quality[m] > 0 \/ group # "pitching" THEN quality[m] ELSE Ident!RetainedStarts(m)
           Of(id) == CHOOSE m \in acquired : RowOf(m) = id
           target == [m \in acquired |-> RowOf(m)]
<1>2. /\ players' = Ident!WithRows(queue, Ident!RoleOf(group), "seed")
      /\ records' = [id \in {RowOf(m) : m \in acquired} |-> [of |-> Of(id), qs |-> Starts(Of(id))]]
      /\ written' = acquired /\ moved' = FALSE /\ watched' = watched
  BY <1>0 DEF Ident!ReplaceStats, Ident!Write
<1>3. fresh \in SUBSET Persons /\ IsFiniteSet(fresh)
  <2>1. fresh \in SUBSET Persons /\ IsFiniteSet(Persons)
    BY SameFiniteSets DEF Ident!IdentitiesAssumption, Ident!Playing
  <2> HIDE DEF fresh
  <2> QED BY <2>1, FS_Subset
<1>4. /\ queue \in Seq(Persons) /\ \A m \in fresh : \E i \in DOMAIN queue : queue[i] = m
      /\ \A i, j \in DOMAIN queue : queue[i] = queue[j] => i = j
  <2> HIDE DEF fresh
  <2>1. queue \in Seq(fresh) BY <1>3, SetHasSeq
  <2>2. /\ \A m \in fresh : \E i \in DOMAIN queue : queue[i] = m
        /\ \A i, j \in DOMAIN queue : queue[i] = queue[j] => i = j
    BY <1>3, SeqCovers
  <2> HIDE DEF queue
  <2> QED BY <1>3, <2>1, <2>2
<1>5. IdentInv /\ Owned /\ None \notin Nat BY DEF ShownInv, Ident!IdentitiesAssumption
<1>6. \A m \in acquired : Ident!StatsRow(m, group) = None => m \in fresh OBVIOUS
<1> HIDE DEF fresh, queue
<1>7. /\ Ident!Ids \subseteq DOMAIN players' /\ \A id \in Ident!Ids : players'[id] = players[id]
      /\ \A i \in DOMAIN queue :
           Len(players) + i \in DOMAIN players' /\ players'[Len(players) + i].mlbam = queue[i]
           /\ players'[Len(players) + i].role = Ident!RoleOf(group)
      /\ \A id \in DOMAIN players' \ Ident!Ids : \E i \in DOMAIN queue : id = Len(players) + i
  BY <1>2, <1>4, <1>5, AppendingFollows
<1>7a. ASSUME NEW m \in acquired, NEW j \in DOMAIN players', j < RowOf(m), players'[j].mlbam = m,
              players'[j].role = Ident!RoleOf(group)
       PROVE  FALSE
  <2> DEFINE ids == Ident!Holders(m, {Ident!RoleOf(group)})
  <2>1. ids \in SUBSET Nat /\ Ident!Ids = 1..Len(players) /\ Len(players) \in Nat
    BY <1>5, HoldersAreRows DEF IdentInv, Ident!Ids
  <2>2. j \in Ident!Ids => j \in ids BY <1>7, <1>7a DEF Ident!Holders
  <2>3. CASE Ident!StatsRow(m, group) # None
    <3>1. ids # {} BY <1>5, <2>3, WritersRows
    <3>2. RowOf(m) \in ids /\ \A i \in ids : RowOf(m) <= i
      <4>1. /\ Ident!StatsRow(m, group) \in ids
            /\ \A i \in ids : Ident!StatsRow(m, group) <= i
        BY <1>5, <3>1, LowestOfRole
      <4>2. RowOf(m) = Ident!StatsRow(m, group) BY <2>3
      <4> HIDE DEF ids, RowOf
      <4> QED BY <4>1, <4>2
    <3>3. j \notin Ident!Ids
      <4> DEFINE pick == RowOf(m)
      <4>1. j < pick /\ pick \in ids /\ \A i \in ids : pick <= i BY <1>7a, <3>2
      <4> HIDE DEF ids, pick
      <4>2. ASSUME j \in Ident!Ids PROVE FALSE
        <5>1. j \in ids BY <2>2, <4>2
        <5>2. j \in Nat /\ pick \in Nat /\ pick <= j BY <2>1, <4>1, <5>1
        <5> QED BY <4>1, <5>2
      <4> QED BY <4>2
    <3>4. PICK i \in DOMAIN queue : j = Len(players) + i BY <1>7, <3>3
    <3>5. RowOf(m) \in 1..Len(players) /\ i \in Nat BY <1>4, <2>1, <3>2 DEF Ident!Holders
    <3> HIDE DEF RowOf
    <3> QED BY <1>7a, <2>1, <3>4, <3>5
  <2>4. CASE Ident!StatsRow(m, group) = None
    <3> DEFINE at == CHOOSE i \in DOMAIN queue : queue[i] = m
    <3>1. at \in DOMAIN queue /\ queue[at] = m /\ RowOf(m) = Len(players) + at BY <1>4, <1>6, <2>4
    <3>2. ids = {} BY <1>5, <2>1, <2>4, LowestOfRole
    <3>3. PICK i \in DOMAIN queue : j = Len(players) + i BY <1>7, <2>2, <3>2
    <3>4. queue[i] = m BY <1>7, <1>7a, <3>3
    <3> HIDE DEF at
    <3>5. i = at BY <1>4, <3>1, <3>4
    <3>6. j = RowOf(m) /\ i \in Nat BY <1>4, <3>1, <3>3, <3>5
    <3> HIDE DEF RowOf
    <3> QED BY <1>7a, <2>1, <3>3, <3>6
  <2> QED BY <2>3, <2>4
<1>8. ASSUME NEW m \in acquired
      PROVE  /\ RowOf(m) \in DOMAIN players' /\ players'[RowOf(m)].mlbam = m
             /\ players'[RowOf(m)].role = Ident!RoleOf(group)
  <2>1. CASE Ident!StatsRow(m, group) # None
    <3>1. Ident!StatsRow(m, group) \in Ident!Holders(m, {Ident!RoleOf(group)})
      BY <1>5, <2>1, WritersRows
    <3> QED BY <1>7, <2>1, <3>1 DEF Ident!Holders
  <2>2. CASE Ident!StatsRow(m, group) = None
    <3> DEFINE at == CHOOSE i \in DOMAIN queue : queue[i] = m
    <3>1. at \in DOMAIN queue /\ queue[at] = m BY <1>4, <1>6, <2>2
    <3>2. RowOf(m) = Len(players) + at BY <2>2
    <3> HIDE DEF at, RowOf
    <3> QED BY <1>7, <3>1, <3>2
  <2> QED BY <2>1, <2>2
<1>9. ASSUME NEW m \in acquired
      PROVE  /\ Starts(m) \in {0, 1}
             /\ (/\ watched = "pitching"
                 /\ \E id \in Ident!Holders(m, Ident!AnyRole) \intersect DOMAIN records : records[id].qs > 0)
                  => Starts(m) > 0
  <2>1. quality[m] \in {0, 1} OBVIOUS
  <2>2. /\ Ident!RetainedStarts(m) \in {0, 1}
        /\ (\E id \in Ident!Holders(m, Ident!AnyRole) \intersect DOMAIN records : records[id].qs > 0)
             => Ident!RetainedStarts(m) > 0
    BY <1>5, RetainedStartsAreSome
  <2> QED BY <2>1, <2>2
<1> HIDE DEF RowOf, Starts
<1>10. ASSUME NEW m \in acquired PROVE Of(RowOf(m)) = m
  <2>1. Of(RowOf(m)) \in acquired /\ RowOf(Of(RowOf(m))) = RowOf(m) OBVIOUS
  <2> HIDE DEF Of
  <2> QED BY <1>8, <2>1
<1> HIDE DEF Of
<1>11. ASSUME NEW m \in acquired PROVE records'[RowOf(m)] = [of |-> m, qs |-> Starts(m)]
  BY <1>2, <1>10
<1>12. DOMAIN records' = {target[m] : m \in acquired} BY <1>2
<1>13. \A m \in acquired : target[m] = RowOf(m) OBVIOUS
<1> HIDE DEF target
<1>15. ASSUME NEW m \in acquired
       PROVE  /\ target[m] \in DOMAIN players' /\ players'[target[m]].mlbam = m
              /\ records'[target[m]] \in [of: Persons, qs: {0, 1}] /\ records'[target[m]].of = m
              /\ FirstButYahoo(players', Ident!RoleOf(watched), target[m], m)
              /\ (/\ watched = "pitching"
                  /\ \E id \in Ident!Holders(m, Ident!AnyRole) \intersect DOMAIN records : records[id].qs > 0)
                   => records'[target[m]].qs > 0
  <2>1. m \in Persons BY DEF Ident!Playing
  <2>2. records'[target[m]] = [of |-> m, qs |-> Starts(m)] /\ Starts(m) \in {0, 1}
    BY <1>9, <1>11, <1>13
  <2>3. /\ target[m] \in DOMAIN players' /\ players'[target[m]].mlbam = m
        /\ FirstButYahoo(players', Ident!RoleOf(watched), target[m], m)
    BY <1>7a, <1>8, <1>13 DEF FirstButYahoo
  <2>4. records'[target[m]].qs = Starts(m) BY <2>2
  <2>5. records'[target[m]] \in [of: Persons, qs: {0, 1}] /\ records'[target[m]].of = m
    BY <2>1, <2>2
  <2> QED BY <1>9, <2>3, <2>4, <2>5
<1>16. acquired \in SUBSET Persons BY DEF Ident!Playing
<1>17. Replaces(target, acquired) BY <1>2, <1>12, <1>15, <1>16 DEF Replaces
<1> QED BY <1>17

\* Statcast and projections replace theirs.
LEMMA EnrichmentReplaces ==
  ASSUME ShownInv, Ident!IdentitiesAssumption, Ident!ReplaceEnrichment
  PROVE  /\ \E target, acquired : Replaces(target, acquired)
         /\ watched # "projections" =>
              \A m \in written' : Ident!StatcastRow(m, watched) \in DOMAIN records'
<1> DEFINE RowOf(m) == IF watched = "projections" THEN Ident!ProjectionRow(m) ELSE Ident!StatcastRow(m, watched)
<1>1. PICK acquired \in SUBSET Persons :
        LET resolved == {m \in acquired : RowOf(m) # None}
        IN /\ records' = [id \in {RowOf(m) : m \in resolved} |->
                            [of |-> CHOOSE m \in resolved : RowOf(m) = id, qs |-> 0]]
           /\ written' = resolved /\ moved' = FALSE
  BY DEF Ident!ReplaceEnrichment, Ident!Write
<1> DEFINE resolved == {m \in acquired : RowOf(m) # None}
           Of(id) == CHOOSE m \in resolved : RowOf(m) = id
           target == [m \in resolved |-> RowOf(m)]
<1>2. /\ records' = [id \in {RowOf(m) : m \in resolved} |-> [of |-> Of(id), qs |-> 0]]
      /\ written' = resolved /\ moved' = FALSE /\ UNCHANGED <<watched, players>>
      /\ watched \notin Ident!Groups
  BY <1>1 DEF Ident!ReplaceEnrichment, Ident!Enrichments, Ident!Groups
<1>3. IdentInv /\ None \notin Nat BY DEF ShownInv, Ident!IdentitiesAssumption
<1>4. ASSUME NEW m \in resolved PROVE RowOf(m) \in Ident!Ids /\ players[RowOf(m)].mlbam = m /\ m \in Persons
  <2>1. RowOf(m) \in Ident!Holders(m, Ident!AnyRole) BY <1>3, WritersRows
  <2> HIDE DEF RowOf
  <2> QED BY <2>1 DEF Ident!Holders
<1>5. watched # "projections" => \A m \in resolved : Ident!StatcastRow(m, watched) = RowOf(m) OBVIOUS
<1> HIDE DEF RowOf, resolved
<1>6. ASSUME NEW m \in resolved PROVE Of(RowOf(m)) = m
  <2>1. Of(RowOf(m)) \in resolved /\ RowOf(Of(RowOf(m))) = RowOf(m) OBVIOUS
  <2> HIDE DEF Of
  <2> QED BY <1>4, <2>1
<1> HIDE DEF Of
<1>7. ASSUME NEW m \in resolved PROVE records'[RowOf(m)] = [of |-> m, qs |-> 0]
  BY <1>2, <1>6
<1>8. DOMAIN records' = {target[m] : m \in resolved} /\ \A m \in resolved : target[m] = RowOf(m)
  BY <1>2
<1> HIDE DEF target
<1>9. resolved \in SUBSET Persons /\ watched # "pitching"
  BY <1>2, <1>4 DEF Ident!Groups
<1>10. ASSUME NEW m \in resolved
       PROVE  /\ target[m] \in DOMAIN players' /\ players'[target[m]].mlbam = m
              /\ records'[target[m]] \in [of: Persons, qs: {0, 1}] /\ records'[target[m]].of = m
  BY <1>2, <1>4, <1>7, <1>8 DEF Ident!Ids
<1>11. Replaces(target, resolved) BY <1>2, <1>8, <1>9, <1>10 DEF Replaces
<1>12. watched # "projections" => \A m \in written' : Ident!StatcastRow(m, watched) \in DOMAIN records'
  BY <1>2, <1>5
<1> QED BY <1>11, <1>12

\* No table holds anything at first.
LEMMA ShownInitInv == Ident!IdentitiesAssumption /\ Ident!IdentitiesInit => ShownInv
<1> SUFFICES ASSUME Ident!IdentitiesAssumption, Ident!IdentitiesInit PROVE ShownInv
  OBVIOUS
<1>1. /\ records = <<>> /\ written = {} /\ moved = FALSE /\ watched \in Ident!Tables
  BY DEF Ident!IdentitiesInit, Ident!IdentitiesAssumption
<1>2. DOMAIN records = {} BY <1>1
<1> QED BY <1>1, <1>2, IdentInitInv DEF ShownInv, Owned, Stored

\* A step leaves the records alone or replaces them.
LEMMA ShownNextInv ==
  Ident!IdentitiesAssumption /\ ShownInv /\ [Ident!IdentitiesNext]_(Ident!identityVars)
    => ShownInv' /\ (Follows \/ \E target, acquired : Replaces(target, acquired))
<1> SUFFICES ASSUME Ident!IdentitiesAssumption, ShownInv, [Ident!IdentitiesNext]_(Ident!identityVars)
             PROVE  ShownInv' /\ (Follows \/ \E target, acquired : Replaces(target, acquired))
  OBVIOUS
<1>1. IdentInv /\ IdentInv' BY IdentNextInv DEF ShownInv
<1>2. Follows \/ \E target, acquired : Replaces(target, acquired)
  <2>1. CASE \/ Ident!UpsertYahoo \/ Ident!Reconcile \/ Ident!SkipReconcile \/ Ident!ReplaceRoster
             \/ \E group \in Ident!Groups : Ident!ReplaceStats(group) /\ watched # group
    BY <2>1, QuietSteps
  <2>2. ASSUME NEW group \in Ident!Groups, Ident!ReplaceStats(group), watched = group
        PROVE  \E target, acquired : Replaces(target, acquired)
    BY <2>2, StatsReplace
  <2>3. CASE Ident!ReplaceEnrichment BY <2>3, EnrichmentReplaces
  <2>4. CASE UNCHANGED Ident!identityVars
    BY <2>4 DEF Ident!identityVars, Follows, ShownInv, Ident!Ids
  <2> QED BY <2>1, <2>2, <2>3, <2>4 DEF Ident!IdentitiesNext
<1> QED BY <1>1, <1>2, FollowsInv, ReplacesInv

\* The pool reads Statcast of the row it is written to: while a row of the role is there,
\* both rules pick the same.
LEMMA StatcastShows ==
  ASSUME ShownInv, ShownInv', Ident!IdentitiesAssumption, Ident!ReplaceEnrichment,
         watched \in {"statcast_batting", "statcast_pitching"}, NEW id \in Ident!Ids,
         players[id].mlbam \in written', players[id].role \in Ident!Readable(watched)
  PROVE  Ident!PoolShows(players[id].mlbam)' # None
<1> DEFINE m == players[id].mlbam
           H == Ident!Holders(m, Ident!Readable(watched))
           A == Ident!Holders(m, Ident!AnyRole)
           least(i) == 2 * Ident!Bit(Ident!Seeded(i)) + Ident!Bit(watched \notin Ident!Groups /\ ~Ident!IsYahoo(i))
           outside(i) == 4 * Ident!Bit(players[i].role \notin Ident!Readable(watched))
           weight(i) == 4 * Ident!Bit(players[i].role \notin Ident!Readable(watched))
                        + 2 * Ident!Bit(Ident!Seeded(i)) + Ident!Bit(~Ident!IsYahoo(i))
           r == CHOOSE i \in A : \A j \in A \ {i} : weight(i) < weight(j) \/ (weight(i) = weight(j) /\ i < j)
           p == CHOOSE i \in H : \A j \in H \ {i} : least(i) < least(j) \/ (least(i) = least(j) /\ i < j)
<1>1. /\ UNCHANGED <<players, watched>> /\ watched \notin Ident!Groups
      /\ Ident!StatcastRow(m, watched) \in DOMAIN records'
  BY EnrichmentReplaces DEF Ident!ReplaceEnrichment, Ident!Enrichments, Ident!Groups
<1>2. IdentInv /\ None \notin Nat BY DEF ShownInv, Ident!IdentitiesAssumption
<1>3. A \in SUBSET Nat /\ H \subseteq A /\ id \in H
  BY <1>2, HoldersAreRows DEF Ident!Holders, Ident!Readable, Ident!AnyRole, Ident!BatterRoles, Ident!Groups
<1>4. Ident!StatcastRow(m, watched) = r
  BY <1>3 DEF Ident!StatcastRow, Ident!Least
<1>5. /\ \A i : least(i) \in 0..3 /\ outside(i) \in {0, 4}
      /\ \A i \in A : outside(i) = 0 <=> i \in H
      /\ \A i : weight(i) = outside(i) + least(i)
  BY <1>1, <1>3 DEF Ident!Bit, Ident!Holders
<1> HIDE DEF m, H, A, least, outside, weight
<1>6. r \in A /\ \A j \in A \ {r} : weight(r) < weight(j) \/ (weight(r) = weight(j) /\ r < j)
  <2> DEFINE key == [i \in A |-> weight(i)]
  <2>1. key \in [A -> Nat] BY <1>5
  <2>2. \E i \in A : \A j \in A \ {i} : key[i] < key[j] \/ (key[i] = key[j] /\ i < j)
    BY <1>3, <2>1, LeastExists
  <2>3. \E i \in A : \A j \in A \ {i} : weight(i) < weight(j) \/ (weight(i) = weight(j) /\ i < j)
    BY <2>2
  <2> QED BY <2>3
<1> HIDE DEF r
<1>7. r \in H BY <1>3, <1>5, <1>6
<1>8. \A j \in H \ {r} : least(r) < least(j) \/ (least(r) = least(j) /\ r < j)
  <2> TAKE j \in H \ {r}
  <2>1. j \in A \ {r} /\ outside(j) = 0 /\ outside(r) = 0 BY <1>3, <1>5, <1>7
  <2> QED BY <1>5, <1>6, <2>1
<1>9. p \in H /\ \A j \in H \ {p} : least(p) < least(j) \/ (least(p) = least(j) /\ p < j)
  BY <1>7, <1>8
<1> HIDE DEF p
<1>10. p = r BY <1>3, <1>5, <1>7, <1>8, <1>9
<1>11. Ident!PoolShows(m)' = IF r \in DOMAIN records' THEN records'[r] ELSE None
  <2>1. H # {} /\ watched' = watched /\ players' = players BY <1>1, <1>7
  <2>2. Ident!PoolShows(m)' = IF p \in DOMAIN records' THEN records'[p] ELSE None
    BY <1>1, <2>1 DEF Ident!PoolShows, Ident!Record, Ident!Least, Ident!Holders, Ident!Seeded, Ident!IsYahoo,
       Ident!Ids, m, H, least, p
  <2> QED BY <1>10, <2>2
<1>12. records'[r] # None BY <1>1, <1>4 DEF ShownInv, Owned, Ident!IdentitiesAssumption
<1> QED BY <1>1, <1>4, <1>11, <1>12 DEF m

\* Quality starts stay while the records do...
LEMMA FollowsKeeps ==
  ASSUME ShownInv, ShownInv', ReadersPick, ReadersPick', Ident!IdentitiesAssumption, Follows,
         watched = "pitching", ~moved', NEW m, Ident!PoolShows(m) # None, Ident!PoolShows(m).qs > 0
  PROVE  Ident!PoolShows(m)'.qs > 0
<1> DEFINE shown == Ident!Holders(m, Ident!Readable(watched)) \intersect DOMAIN records
           next == (Ident!Holders(m, Ident!Readable(watched)) \intersect DOMAIN records)'
<1>1. watched \in Ident!Groups /\ watched' \in Ident!Groups BY DEF Ident!Groups, Follows
<1>2. PICK id \in shown : Ident!PoolShows(m) = records[id] BY <1>1 DEF ReadersPick
<1>3. ~moved /\ UNCHANGED <<watched, records>> BY DEF Follows
<1>4. id \in Ident!Ids /\ players[id].mlbam = m /\ m = records[id].of /\ m # None
      /\ players[id].role \in Ident!Readable(watched)
  BY <1>3 DEF Ident!Holders, ShownInv, Owned, Ident!IdentitiesAssumption
<1>5. id \in DOMAIN players' /\ players'[id].mlbam = m /\ players'[id].role = players[id].role
  BY <1>4 DEF Follows
<1>6. id \in next BY <1>3, <1>4, <1>5 DEF Ident!Holders, Ident!Ids, Ident!Readable
<1>7. PICK j \in next : Ident!PoolShows(m)' = records'[j] BY <1>1, <1>6 DEF ReadersPick
<1>8. records'[j].of = m BY DEF Ident!Holders, ShownInv, Owned
<1>9. j = id BY <1>3, <1>4, <1>6, <1>8 DEF ShownInv, Owned
<1> QED BY <1>2, <1>3, <1>7, <1>9

\* ...and when they are replaced.
LEMMA ReplacesKeeps ==
  ASSUME ShownInv, ShownInv', ReadersPick, ReadersPick', NEW target, NEW acquired,
         Replaces(target, acquired), watched = "pitching",
         NEW m \in written', Ident!PoolShows(m) # None, Ident!PoolShows(m).qs > 0
  PROVE  Ident!PoolShows(m)'.qs > 0
<1> DEFINE shown == Ident!Holders(m, Ident!Readable(watched)) \intersect DOMAIN records
           next == (Ident!Holders(m, Ident!Readable(watched)) \intersect DOMAIN records)'
<1>1. watched \in Ident!Groups /\ watched' = watched BY DEF Ident!Groups, Replaces
<1>2. PICK id \in shown : Ident!PoolShows(m) = records[id] BY <1>1 DEF ReadersPick
<1>3. id \in Ident!Holders(m, Ident!AnyRole) \intersect DOMAIN records
  BY DEF Ident!Holders, Ident!Readable, Ident!AnyRole
<1>4. m \in acquired /\ records'[target[m]].qs > 0 BY <1>2, <1>3 DEF Replaces
<1>5. target[m] \in next
  <2>1. target[m] \in DOMAIN players' /\ players'[target[m]].mlbam = m /\ target[m] \in DOMAIN records'
        /\ players'[target[m]].role \in Ident!Readable(watched)
    BY <1>1, <1>4 DEF Replaces, FirstButYahoo, Ident!RoleOf, Ident!Readable
  <2> QED BY <1>1, <2>1 DEF Ident!Holders, Ident!Ids, Ident!Readable
<1>6. PICK j \in next : Ident!PoolShows(m)' = records'[j] BY <1>1, <1>5 DEF ReadersPick
<1>7. ~moved' BY DEF Replaces
<1>8. records'[j].of = m /\ records'[target[m]].of = m
  BY <1>5, <1>7 DEF Ident!Holders, ShownInv, Owned
<1>9. j = target[m] BY <1>5, <1>8 DEF ShownInv, Owned
<1> QED BY <1>4, <1>6, <1>9

\* While no row loses its identity or role, pools and rosters show the person's own line,
\* where they show one, which pools always do and rosters where they join the row written.
LEMMA PlayersShown == Ident!IdentitiesSpec => []Ident!PlayersShowTheirOwn
<1>0. Ident!IdentitiesAssumption BY ServicesAssumption
<1>1. Ident!IdentitiesInit => ShownInv BY <1>0, ShownInitInv
<1>2. ShownInv /\ [Ident!IdentitiesNext]_(Ident!identityVars) => ShownInv' BY <1>0, ShownNextInv
<1>3. ShownInv => Ident!PlayersShowTheirOwn BY <1>0, PickedIsOwn
<1> QED BY <1>1, <1>2, <1>3, PTL DEF Ident!IdentitiesSpec

\* The variables of the identities have their types; a behaviour follows one table.
LEMMA IdentitiesTypes == Ident!IdentitiesSpec => []Ident!IdentitiesTypeOK
<1>0. Ident!IdentitiesAssumption BY ServicesAssumption
<1>1. Ident!IdentitiesInit => ShownInv BY <1>0, ShownInitInv
<1>2. ShownInv /\ [Ident!IdentitiesNext]_(Ident!identityVars) => ShownInv' BY <1>0, ShownNextInv
<1>3. Ident!IdentitiesInit => watched \in Followed BY DEF Ident!IdentitiesInit
<1>4. watched \in Followed /\ [Ident!IdentitiesNext]_(Ident!identityVars) => (watched \in Followed)'
  BY DEF Ident!IdentitiesNext, Ident!UpsertYahoo, Ident!ReplaceStats, Ident!Reconcile,
         Ident!SkipReconcile, Ident!ReplaceRoster, Ident!ReplaceEnrichment, Ident!identityVars
<1>5. ShownInv /\ watched \in Followed => Ident!IdentitiesTypeOK
  BY DEF ShownInv, IdentInv, Owned, Ident!Ids, Ident!IdentitiesTypeOK
<1> QED BY <1>1, <1>2, <1>3, <1>4, <1>5, PTL DEF Ident!IdentitiesSpec

\* What a Statcast step stores for a player of the pool is shown there, and a pitcher's
\* quality starts, once counted, do not vanish with a later acquisition.
LEMMA EnrichmentShown == Ident!IdentitiesSpec => Ident!EnrichmentKept
<1>0. Ident!IdentitiesAssumption BY ServicesAssumption
<1>1. Ident!IdentitiesInit => ShownInv BY <1>0, ShownInitInv
<1>2. ShownInv /\ [Ident!IdentitiesNext]_(Ident!identityVars) => ShownInv' BY <1>0, ShownNextInv
<1>3. ShownInv => ReadersPick BY <1>0, ReadersPickRows DEF Ident!IdentitiesAssumption
<1>4. ShownInv /\ ShownInv' /\ [Ident!IdentitiesNext]_(Ident!identityVars)
        => [(/\ watched \in {"statcast_batting", "statcast_pitching"} /\ UNCHANGED players
             /\ \E id \in Ident!Ids : LET m == players[id].mlbam
                  IN Ident!IsYahoo(id) /\ m \in written' /\ players[id].role \in Ident!Readable(watched)
                     /\ Ident!PoolShows(m)' = None)
            => ~Ident!ReplaceEnrichment]_(Ident!identityVars)
  BY <1>0, StatcastShows
<1>5. ShownInv /\ ShownInv' /\ ReadersPick /\ ReadersPick' /\ [Ident!IdentitiesNext]_(Ident!identityVars)
        => [(watched = "pitching" /\ ~moved') =>
              \A m \in written \intersect written' :
                (Ident!PoolShows(m) # None /\ Ident!PoolShows(m).qs > 0)
                  => Ident!PoolShows(m)'.qs > 0]_(Ident!identityVars)
  BY <1>0, ShownNextInv, FollowsKeeps, ReplacesKeeps
<1>6. Ident!IdentitiesSpec => Ident!StatcastIsShown
  BY <1>1, <1>2, <1>4, PTL DEF Ident!IdentitiesSpec, Ident!StatcastIsShown
<1>7. Ident!IdentitiesSpec => Ident!QualityStartsKept
  BY <1>1, <1>2, <1>3, <1>5, PTL DEF Ident!IdentitiesSpec, Ident!QualityStartsKept
<1> QED BY <1>6, <1>7 DEF Ident!EnrichmentKept

(***************************************************************************)
(* The signs beside players. A confirmed box shows the order that was      *)
(* announced for its game, and any box the starter that was named for it,  *)
(* so that whatever a command lays over the schedule was announced once.   *)
(***************************************************************************)

BoxOf(g) ==
  \/ box[g] = <<>>
  \/ /\ box[g] \in [order: Orders, starter: Pitchers, confirmed: BOOLEAN]
     /\ box[g].starter = starter[g]
     /\ box[g].confirmed => box[g].order = order[g]

SignsInv == Signs!SignsTypeOK /\ \A g \in Signs!Games : BoxOf(g)

\* Nothing is announced at first.
LEMMA SignsInitInv == Signs!SignsInit => SignsInv
BY DEF Signs!SignsInit, SignsInv, Signs!SignsTypeOK, BoxOf

\* A starter, once named, and an order, once announced, stay what they are.
LEMMA AnnouncedStays ==
  ASSUME Signs!SignsAssumption, SignsInv, NEW g \in Signs!Games,
         Signs!NameStarter(g) \/ Signs!AnnounceOrder(g)
  PROVE  \A h \in Signs!Games : /\ starter[h] # Nobody => starter'[h] = starter[h]
                                /\ order[h] # <<>> => order'[h] = order[h]
BY DEF SignsInv, Signs!SignsTypeOK, Signs!NameStarter, Signs!AnnounceOrder

\* Every step keeps the boxes true.
LEMMA SignsNextInv ==
  Signs!SignsAssumption /\ SignsInv /\ [Signs!SignsNext]_(Signs!signVars) => SignsInv'
<1> SUFFICES ASSUME Signs!SignsAssumption, SignsInv, [Signs!SignsNext]_(Signs!signVars)
             PROVE  SignsInv'
  OBVIOUS
<1>1. \A o \in Orders : o # <<>> BY DEF Signs!SignsAssumption
<1>2. \A p \in Pitchers : p # Nobody BY DEF Signs!SignsAssumption, Signs!Players
<1>3. ASSUME NEW g \in Signs!Games, Signs!NameStarter(g) \/ Signs!AnnounceOrder(g) PROVE SignsInv'
  <2>1. Signs!SignsTypeOK'
    BY <1>3 DEF SignsInv, Signs!SignsTypeOK, Signs!NameStarter, Signs!AnnounceOrder
  <2>2. box' = box BY <1>3 DEF Signs!NameStarter, Signs!AnnounceOrder
  <2>3. ASSUME NEW h \in Signs!Games PROVE BoxOf(h)'
    <3>1. BoxOf(h) BY DEF SignsInv
    <3>2. /\ starter[h] # Nobody => starter'[h] = starter[h]
          /\ order[h] # <<>> => order'[h] = order[h]
      BY <1>3, AnnouncedStays
    <3> QED BY <1>1, <1>2, <2>2, <3>1, <3>2 DEF BoxOf
  <2> QED BY <2>1, <2>3 DEF SignsInv
<1>4. ASSUME NEW g \in Signs!Games, Signs!Publish(g) PROVE SignsInv'
  <2>1. PICK o \in Orders, confirmed \in BOOLEAN :
          /\ confirmed => o = order[g]
          /\ box' = [box EXCEPT ![g] = [order |-> o, starter |-> starter[g], confirmed |-> confirmed]]
    BY <1>4 DEF Signs!Publish
  <2>2. starter[g] \in Pitchers /\ UNCHANGED <<state, starter, order, listed>>
    BY <1>4 DEF Signs!Publish, SignsInv, Signs!SignsTypeOK
  <2>3. \A h \in Signs!Games : box'[h] = box[h] \/ (h = g /\ box'[h] =
           [order |-> o, starter |-> starter[g], confirmed |-> confirmed])
    BY <2>1 DEF SignsInv, Signs!SignsTypeOK
  <2>4. \A h \in Signs!Games : BoxOf(h)' BY <2>1, <2>2, <2>3 DEF SignsInv, BoxOf
  <2>5. Signs!SignsTypeOK' BY <1>4 DEF SignsInv, Signs!SignsTypeOK, Signs!Publish
  <2> QED BY <2>4, <2>5 DEF SignsInv
<1>5. ASSUME NEW g \in Signs!Games, Signs!ListOrder(g) \/ Signs!Play(g) PROVE SignsInv'
  <2>1. UNCHANGED <<starter, order, box>> BY <1>5 DEF Signs!ListOrder, Signs!Play
  <2>2. Signs!SignsTypeOK'
    <3>1. CASE Signs!ListOrder(g) BY <3>1 DEF SignsInv, Signs!SignsTypeOK, Signs!ListOrder
    <3>2. CASE Signs!Play(g) BY <3>2 DEF SignsInv, Signs!SignsTypeOK, Signs!Play
    <3> QED BY <1>5, <3>1, <3>2
  <2> QED BY <2>1, <2>2 DEF SignsInv, BoxOf
<1>6. CASE UNCHANGED Signs!signVars
  BY <1>6 DEF Signs!signVars, SignsInv, Signs!SignsTypeOK, BoxOf
<1> QED BY <1>3, <1>4, <1>5, <1>6 DEF Signs!SignsNext

\* The last of some games is one of them.
LEMMA LastIsOneOfThem ==
  ASSUME Signs!SignsAssumption, NEW games \in SUBSET Signs!Games, games # {}
  PROVE  Signs!LastOf(games) \in games
<1> DEFINE T == {GamesToday - g : g \in games}
<1>1. GamesToday \in Nat /\ \A g \in games : g \in 1..GamesToday
  BY DEF Signs!SignsAssumption, Signs!Games
<1>2. T \subseteq Nat /\ T # {} BY <1>1
<1>3. IsWellFoundedOn(OpToRel(<, Nat), Nat) BY NatLessThanWellFounded
<1> HIDE DEF T
<1>4. PICK t \in T : \A u \in T : ~(<<u, t>> \in OpToRel(<, Nat)) BY <1>2, <1>3, WFMin
<1>5. \A u \in T : ~(u < t) BY <1>2, <1>4 DEF OpToRel
<1>6. PICK m \in games : t = GamesToday - m BY DEF T
<1>7. \A g \in games : m >= g
  <2> TAKE g \in games
  <2>1. GamesToday - g \in T BY DEF T
  <2>2. ~(GamesToday - g < GamesToday - m) BY <1>5, <1>6, <2>1
  <2> QED BY <1>1, <2>2
<1>8. (CHOOSE x \in games : \A y \in games : x >= y) \in games BY <1>7
<1> QED BY <1>8 DEF Signs!LastOf, Signs!Max

\* The order a command sees is one the club announced for one of its games, with nobody in
\* the place of a name that fits no identity.
SeenOf(o, g) ==
  /\ order[g] # <<>> /\ DOMAIN o = DOMAIN order[g]
  /\ \A i \in DOMAIN o : o[i] = IF order[g][i] \in Unknown THEN Nobody ELSE order[g][i]

\* So is an order that fits as many names as it must.
LEMMA MatchedOrder ==
  ASSUME NEW g, order[g] # <<>>, Signs!Matched(order[g]) # <<>>
  PROVE  SeenOf(Signs!Matched(order[g]), g)
<1>1. Signs!Matched(order[g]) =
        [i \in DOMAIN order[g] |-> IF Signs!Resolves(order[g][i]) THEN order[g][i] ELSE Nobody]
  BY DEF Signs!Matched
<1> QED BY <1>1 DEF SeenOf, Signs!Resolves

\* What the page lays over the schedule was announced.
LEMMA OverlaidIsAnnounced ==
  ASSUME Signs!SignsAssumption, SignsInv
  PROVE  /\ Signs!OverlaidOrder # <<>> => \E g \in Signs!Games : SeenOf(Signs!OverlaidOrder, g)
         /\ Signs!OverlaidStarter # Nobody => \E g \in Signs!Games : starter[g] = Signs!OverlaidStarter
<1>1. \A o \in Orders : o # <<>> BY DEF Signs!SignsAssumption
<1>2. ASSUME Signs!OverlaidOrder # <<>>
      PROVE  \E g \in Signs!Games : SeenOf(Signs!OverlaidOrder, g)
  <2> DEFINE boxes == {g \in Signs!Games : Signs!Confirmed(g) /\ Signs!Matched(box[g].order) # <<>>}
             last == Signs!LastOf(boxes)
  <2>1. boxes # {} /\ Signs!OverlaidOrder = Signs!Matched(box[last].order)
    BY <1>2 DEF Signs!OverlaidOrder
  <2>2. last \in boxes BY <2>1, LastIsOneOfThem
  <2>3. BoxOf(last) /\ Signs!Confirmed(last) /\ Signs!Matched(box[last].order) # <<>>
    BY <2>2 DEF SignsInv
  <2> HIDE DEF last
  <2>4. box[last].order = order[last] /\ order[last] # <<>>
    BY <1>1, <2>3 DEF BoxOf, Signs!Confirmed
  <2>5. SeenOf(Signs!Matched(order[last]), last) BY <2>3, <2>4, MatchedOrder
  <2> QED BY <2>1, <2>2, <2>4, <2>5
<1>3. ASSUME Signs!OverlaidStarter # Nobody
      PROVE  \E g \in Signs!Games : starter[g] = Signs!OverlaidStarter
  <2> DEFINE boxes == {g \in Signs!Games : Signs!Confirmed(g) /\ Signs!Resolves(box[g].starter)}
             last == Signs!LastOf(boxes)
  <2>1. boxes # {} /\ Signs!OverlaidStarter = box[last].starter
    BY <1>3 DEF Signs!OverlaidStarter
  <2>2. last \in boxes BY <2>1, LastIsOneOfThem
  <2>3. BoxOf(last) /\ Signs!Confirmed(last) BY <2>2 DEF SignsInv
  <2> HIDE DEF last
  <2>4. box[last].starter = starter[last] BY <2>3 DEF BoxOf, Signs!Confirmed
  <2> QED BY <2>1, <2>2, <2>4
<1> QED BY <1>2, <1>3

\* A mark says of a player what was announced of him.
Announced(p, mark) ==
  /\ mark.mark = "starts" => \E g \in Signs!Games : starter[g] = p
  /\ mark.mark = "bats" =>
       \E g \in Signs!Games : mark.place \in DOMAIN order[g] /\ order[g][mark.place] = p
  /\ mark.mark = "out" =>
       \E g \in Signs!Games : order[g] # <<>> /\ (p \in Signs!Range(order[g]) => p \in Unknown)

\* The mark of a player comes from the order and the starter a command sees.
LEMMA MarkIsAnnounced ==
  ASSUME Signs!SignsAssumption, SignsInv, NEW p \in Signs!Players, NEW page \in BOOLEAN
  PROVE  Announced(p, Signs!Mark(p, Signs!SeenOrder(Signs!First, page), Signs!SeenStarter(Signs!First, page)))
<1> DEFINE o == Signs!SeenOrder(Signs!First, page)
           s == Signs!SeenStarter(Signs!First, page)
<1>1. Signs!First \in Signs!Games /\ p # Nobody
  BY DEF Signs!First, Signs!Games, Signs!SignsAssumption
<1>2. s # Nobody => \E g \in Signs!Games : starter[g] = s
  BY <1>1, OverlaidIsAnnounced DEF Signs!SeenStarter
<1>3. ASSUME o # <<>>
      PROVE  \E g \in Signs!Games : order[g] # <<>> /\ (o = order[g] \/ SeenOf(o, g))
  BY <1>1, <1>3, OverlaidIsAnnounced DEF Signs!SeenOrder, Signs!ScheduleOrder, SeenOf
<1> HIDE DEF o, s
<1> DEFINE shown == Signs!Mark(p, o, s)
<1>0. \A mark, place : Signs!Marked(mark, place).mark = mark /\ Signs!Marked(mark, place).place = place
  BY DEF Signs!Marked
<1>4. CASE p \in Pitchers
  <2>1. (shown = Signs!Marked("starts", 0) /\ s = p) \/ shown = Signs!Marked("none", 0)
    BY <1>4 DEF Signs!Mark, Signs!NoMark
  <2> HIDE DEF shown
  <2>2. (shown.mark = "starts" /\ s = p) \/ shown.mark = "none" BY <1>0, <2>1
  <2>3. Announced(p, shown) BY <1>1, <1>2, <2>2 DEF Announced
  <2> QED BY <2>3 DEF o, s, shown
<1>5. CASE p \notin Pitchers /\ o = <<>>
  <2>1. shown = Signs!Marked("none", 0) BY <1>5 DEF Signs!Mark, Signs!NoMark
  <2> HIDE DEF shown
  <2>2. shown.mark = "none" BY <1>0, <2>1
  <2>3. Announced(p, shown) BY <2>2 DEF Announced
  <2> QED BY <2>3 DEF o, s, shown
<1>6. CASE p \notin Pitchers /\ o # <<>>
  <2>1. PICK g \in Signs!Games : order[g] # <<>> /\ (o = order[g] \/ SeenOf(o, g)) BY <1>3, <1>6
  <2>2. CASE p \in Signs!Range(o)
    <3>1. Signs!PlaceIn(p, o) \in DOMAIN o /\ o[Signs!PlaceIn(p, o)] = p
      BY <2>2 DEF Signs!PlaceIn, Signs!Range
    <3>2. Signs!PlaceIn(p, o) \in DOMAIN order[g] /\ order[g][Signs!PlaceIn(p, o)] = p
      BY <1>1, <2>1, <3>1 DEF SeenOf
    <3>3. shown = Signs!Marked("bats", Signs!PlaceIn(p, o)) BY <1>6, <2>2 DEF Signs!Mark
    <3> HIDE DEF shown
    <3>4. shown.mark = "bats" /\ shown.place = Signs!PlaceIn(p, o) BY <1>0, <3>3
    <3>5. Announced(p, shown) BY <3>2, <3>4 DEF Announced
    <3> QED BY <3>5 DEF o, s, shown
  <2>3. CASE p \notin Signs!Range(o)
    <3>1. p \in Signs!Range(order[g]) => p \in Unknown
      BY <2>1, <2>3 DEF SeenOf, Signs!Range
    <3>2. shown = Signs!Marked("out", 0) BY <1>6, <2>3 DEF Signs!Mark
    <3> HIDE DEF shown
    <3>3. shown.mark = "out" BY <1>0, <3>2
    <3>4. Announced(p, shown) BY <2>1, <3>1, <3>3 DEF Announced
    <3> QED BY <3>4 DEF o, s, shown
  <2> QED BY <2>2, <2>3
<1> HIDE DEF shown
<1> QED BY <1>4, <1>5, <1>6 DEF o, s, shown

\* All signs of all commands.
LEMMA SignsAreAnnounced ==
  Signs!SignsAssumption /\ SignsInv => Signs!MarksWereAnnounced
<1> SUFFICES ASSUME Signs!SignsAssumption, SignsInv, NEW p \in Signs!Players,
                    NEW sign \in Signs!Signs(p)
             PROVE  Announced(p, sign)
  BY DEF Signs!MarksWereAnnounced, Announced
<1>1. ASSUME NEW phase, NEW mark, Announced(p, mark) PROVE Announced(p, Signs!Sign(phase, mark))
  BY <1>1 DEF Announced, Signs!Sign
<1>2. Announced(p, Signs!NoSign) /\ Announced(p, Signs!NoMark)
  BY DEF Announced, Signs!NoSign, Signs!NoMark, Signs!Marked
<1>3. \A page \in BOOLEAN : Announced(p, Signs!Mark(p, Signs!SeenOrder(Signs!First, page), Signs!SeenStarter(Signs!First, page)))
  BY MarkIsAnnounced
<1>4. \A page \in BOOLEAN : Announced(p, Signs!RosterSign(p, page))
  BY <1>1, <1>3 DEF Signs!RosterSign
<1>5. Announced(p, Signs!MatchupSign(p)) BY <1>1, <1>2, <1>3 DEF Signs!MatchupSign
<1>6. Announced(p, Signs!TeamMark(p)) BY <1>2, <1>3 DEF Signs!TeamMark
<1>7. Announced(p, Signs!TeamSign(p)) BY <1>1, <1>6 DEF Signs!TeamSign
<1> QED BY <1>4, <1>5, <1>7 DEF Signs!Signs

\* The commands work a sign out of the same game, order and starter.
LEMMA SignsAgree ==
  Signs!SignsAssumption /\ SignsInv => Signs!CommandsAgree
<1> SUFFICES ASSUME Signs!SignsAssumption, SignsInv, NEW p \in Signs!Players \ Injured
             PROVE  /\ Signs!RosterSign(p, FALSE) = Signs!MatchupSign(p)
                    /\ state[Signs!First] # "postponed" => Signs!TeamSign(p).phase = Signs!MatchupSign(p).phase
                    /\ Signs!TeamSign(p).phase = "scheduled" => Signs!TeamSign(p) = Signs!MatchupSign(p)
  BY DEF Signs!CommandsAgree
<1> DEFINE mark == Signs!Mark(p, Signs!SeenOrder(Signs!First, FALSE), Signs!SeenStarter(Signs!First, FALSE))
<1>1. state[Signs!First] \in {"scheduled", "live", "over", "final", "postponed"}
  BY DEF SignsInv, Signs!SignsTypeOK, Signs!First, Signs!Games, Signs!SignsAssumption
<1>2. Signs!MatchupSign(p) = Signs!Sign(Signs!Phase(Signs!First), mark) BY DEF Signs!MatchupSign
<1>3. Signs!RosterSign(p, FALSE) = Signs!Sign(Signs!Phase(Signs!First), mark) BY DEF Signs!RosterSign
<1>4. Signs!TeamSign(p) = Signs!Sign(Signs!TeamPhase(Signs!First),
        IF Signs!TeamPhase(Signs!First) # "scheduled" THEN Signs!NoMark ELSE mark)
  BY DEF Signs!TeamSign, Signs!TeamMark
<1> HIDE DEF mark
<1>5. state[Signs!First] # "postponed" => Signs!TeamPhase(Signs!First) = Signs!Phase(Signs!First)
  BY <1>1 DEF Signs!TeamPhase, Signs!Phase
<1>6. Signs!TeamPhase(Signs!First) = "scheduled" => Signs!Phase(Signs!First) = "scheduled"
  BY <1>1 DEF Signs!TeamPhase, Signs!Phase
<1>7. Signs!TeamSign(p).phase = Signs!TeamPhase(Signs!First)
      /\ Signs!MatchupSign(p).phase = Signs!Phase(Signs!First)
  BY <1>2, <1>4 DEF Signs!Sign
<1>8. Signs!TeamPhase(Signs!First) = "scheduled" => Signs!TeamSign(p) = Signs!MatchupSign(p)
  BY <1>2, <1>4, <1>6
<1> QED BY <1>2, <1>3, <1>5, <1>7, <1>8

\* Whatever the page, the schedule and the clubs do, a mark in any of the commands was
\* announced, and the commands do not contradict one another.
LEMMA SignsAreTrue ==
  Signs!SignsSpec => [](Signs!SignsTypeOK /\ Signs!MarksWereAnnounced /\ Signs!CommandsAgree)
<1>0. Signs!SignsAssumption BY ServicesAssumption
<1>1. Signs!SignsInit => SignsInv BY <1>0, SignsInitInv
<1>2. SignsInv /\ [Signs!SignsNext]_(Signs!signVars) => SignsInv' BY <1>0, SignsNextInv
<1>3. SignsInv => Signs!SignsTypeOK /\ Signs!MarksWereAnnounced /\ Signs!CommandsAgree
  BY <1>0, SignsAreAnnounced, SignsAgree DEF SignsInv
<1> QED BY <1>1, <1>2, <1>3, PTL DEF Signs!SignsSpec

(***************************************************************************)
(* Quality starts. A batch is the next ids, each once; when the counter is *)
(* at zero, all of its goroutines have returned and every outcome is in    *)
(* its slot. So the result is that of the ids before the start of the      *)
(* batch, which at the end are all of them (QualityInv).                   *)
(***************************************************************************)

\* The batches count as the library does.
LEMMA QualityCounts ==
  \A S : (Quality!IsFiniteSet(S) <=> IsFiniteSet(S)) /\ Quality!Cardinality(S) = Cardinality(S)
BY DEF Cardinality, IsFiniteSet, Quality!Cardinality, Quality!IsFiniteSet

\* An increasing enumeration of some places.
Enumerates(f, places) ==
  /\ f \in [1..Cardinality(places) -> places]
  /\ Quality!Range(f) = places /\ \A i, j \in DOMAIN f : i < j => f[i] < f[j]

\* Some places of a sequence can be enumerated.
LEMMA PlacesEnumerated ==
  ASSUME NEW n \in Nat, NEW places \in SUBSET (1..n)
  PROVE  Cardinality(places) \in Nat /\ IsFiniteSet(places) /\ \E f : Enumerates(f, places)
<1> DEFINE Good(m) == \A P \in SUBSET (1..m) : \E f : Enumerates(f, P)
           bad == {m \in Nat : ~Good(m)}
<1>1. ASSUME NEW m \in Nat, NEW P \in SUBSET (1..m) PROVE IsFiniteSet(P) /\ Cardinality(P) \in Nat
  <2>1. IsFiniteSet(1..m) BY FS_Interval
  <2>2. IsFiniteSet(P) BY <2>1, FS_Subset
  <2> QED BY <2>2, FS_CardinalityType
<1>2. bad = {}
  <2> SUFFICES ASSUME bad # {} PROVE FALSE
    OBVIOUS
  <2>1. PICK m \in bad : \A k \in bad : m <= k
    <3>1. bad \subseteq Nat OBVIOUS
    <3> HIDE DEF bad
    <3> QED BY <3>1, LeastNumber
  <2>2. m \in Nat /\ ~Good(m) BY <2>1
  <2>3. PICK P \in SUBSET (1..m) : ~\E f : Enumerates(f, P) BY <2>2
  <2>4. CASE P = {}
    <3>1. Cardinality(P) = 0 BY <2>4, FS_EmptySet
    <3>2. Enumerates([i \in 1..0 |-> i], P) BY <2>4, <3>1 DEF Enumerates, Quality!Range
    <3> QED BY <2>3, <3>2
  <2>5. CASE P # {}
    <3>1. m > 0 /\ m - 1 \in Nat
      <4>1. PICK q \in P : q \in 1..m BY <2>5
      <4> HIDE DEF bad
      <4> QED BY <2>2, <4>1
    <3>2. Good(m - 1) BY <2>1, <2>2, <3>1
    <3> HIDE DEF bad
    <3> DEFINE Q == P \ {m}
    <3>3. Q \in SUBSET (1..m - 1) BY <2>2
    <3>4. PICK g : Enumerates(g, Q) BY <3>2, <3>3
    <3>5. m \in P
      <4> SUFFICES ASSUME m \notin P PROVE FALSE
        OBVIOUS
      <4>1. Q = P OBVIOUS
      <4> QED BY <2>3, <3>4, <4>1
    <3> DEFINE c == Cardinality(Q)
               f == [i \in 1..c + 1 |-> IF i = c + 1 THEN m ELSE g[i]]
    <3>6. c \in Nat /\ Cardinality(P) = c + 1
      <4>1. IsFiniteSet(Q) /\ c \in Nat BY <1>1, <3>1, <3>3
      <4>2. P = Q \cup {m} /\ m \notin Q BY <3>5
      <4> HIDE DEF Q
      <4> QED BY <4>1, <4>2, FS_AddElement
    <3>7. /\ g \in [1..c -> Q] /\ \A q \in Q : \E i \in 1..c : g[i] = q
          /\ \A i, j \in 1..c : i < j => g[i] < g[j]
      BY <3>4 DEF Enumerates, Quality!Range
    <3>8. P = Q \cup {m} /\ \A q \in Q : q \in Nat /\ q < m BY <2>2, <3>3, <3>5
    <3> HIDE DEF c, Q
    <3>9. DOMAIN f = 1..c + 1 /\ f[c + 1] = m /\ \A i \in 1..c : i \in 1..c + 1 /\ f[i] = g[i] /\ g[i] \in Q
      BY <3>6, <3>7
    <3>10. \A i \in 1..c + 1 : i = c + 1 \/ i \in 1..c BY <3>6
    <3>11. f \in [1..Cardinality(P) -> P]
      <4>1. \A i \in 1..c + 1 : f[i] \in P BY <3>8, <3>9, <3>10
      <4> QED BY <3>6, <4>1
    <3> HIDE DEF f
    <3>12. Quality!Range(f) = P
      <4>1. c + 1 \in 1..c + 1 BY <3>6
      <4>2. ASSUME NEW q \in Q PROVE \E i \in 1..c + 1 : f[i] = q BY <3>7, <3>9
      <4>3. \A q \in P : \E i \in DOMAIN f : f[i] = q BY <3>8, <3>9, <4>1, <4>2
      <4> QED BY <3>6, <3>9, <3>11, <4>3 DEF Quality!Range
    <3>13. ASSUME NEW i \in DOMAIN f, NEW j \in DOMAIN f, i < j PROVE f[i] < f[j]
      <4>1. i \in 1..c BY <3>6, <3>9, <3>13
      <4>2. CASE j = c + 1 BY <3>8, <3>9, <4>1, <4>2
      <4>3. CASE j \in 1..c BY <3>7, <3>9, <3>13, <4>1, <4>3
      <4> QED BY <3>9, <3>10, <4>2, <4>3
    <3>14. Enumerates(f, P) BY <3>11, <3>12, <3>13 DEF Enumerates
    <3> QED BY <2>3, <3>14
  <2> QED BY <2>4, <2>5
<1>3. Good(n) BY <1>2
<1> QED BY <1>1, <1>3

\* What is picked stands at the places, in their order.
LEMMA PickedInOrder ==
  ASSUME NEW seq, NEW n \in Nat, NEW places \in SUBSET (1..n)
  PROVE  \E f : Enumerates(f, places) /\ Cardinality(places) \in Nat
                /\ Quality!Picked(seq, places) = [i \in 1..Cardinality(places) |-> seq[f[i]]]
<1> DEFINE at == CHOOSE f \in [1..Quality!Cardinality(places) -> places] :
                   Quality!Range(f) = places /\ \A i, j \in DOMAIN f : i < j => f[i] < f[j]
<1>1. \E f : Enumerates(f, places) BY PlacesEnumerated
<1>2. Enumerates(at, places)
  <2>1. Quality!Cardinality(places) = Cardinality(places) BY QualityCounts
  <2>2. \E f \in [1..Quality!Cardinality(places) -> places] :
          Quality!Range(f) = places /\ \A i, j \in DOMAIN f : i < j => f[i] < f[j]
    BY <1>1, <2>1 DEF Enumerates
  <2>3. /\ at \in [1..Quality!Cardinality(places) -> places]
        /\ Quality!Range(at) = places /\ \A i, j \in DOMAIN at : i < j => at[i] < at[j]
    BY <2>2
  <2> HIDE DEF at
  <2> QED BY <2>1, <2>3 DEF Enumerates
<1>3. DOMAIN at = 1..Cardinality(places) BY <1>2 DEF Enumerates
<1>4. Quality!Picked(seq, places) = [i \in DOMAIN at |-> seq[at[i]]] BY DEF Quality!Picked
<1> HIDE DEF at
<1>5. Quality!Picked(seq, places) = [i \in 1..Cardinality(places) |-> seq[at[i]]] BY <1>3, <1>4
<1> QED BY <1>2, <1>5, PlacesEnumerated

\* The ids without repetitions: all of those asked for, in the order of their first.
UniqueOK ==
  /\ unique \in Seq(Starters \cup {Invalid}) /\ Len(unique) \in Nat
  /\ \A i, j \in DOMAIN unique : unique[i] = unique[j] => i = j
  /\ Quality!Range(unique) = Quality!Range(asked)
  /\ \A i, j \in DOMAIN unique : i < j =>
       \E k \in DOMAIN asked : asked[k] = unique[i] /\ \A l \in 1..k : asked[l] # unique[j]

LEMMA UniqueAtFirst ==
  ASSUME Quality!QualityInit PROVE UniqueOK
<1>1. PICK n \in Nat : asked \in [1..n -> Starters \cup {Invalid}]
  BY DEF Quality!QualityInit
<1> DEFINE firsts == {i \in DOMAIN asked : \A j \in 1..i - 1 : asked[j] # asked[i]}
           m == Cardinality(firsts)
<1>2. firsts \in SUBSET (1..n) BY <1>1
<1>3. unique = Quality!Picked(asked, firsts) BY DEF Quality!QualityInit, Quality!Deduplicated
<1>4. \A i \in firsts : i \in 1..n /\ \A j \in 1..i - 1 : asked[j] # asked[i] BY <1>1
<1>5. ASSUME NEW p \in Quality!Range(asked) PROVE \E i \in firsts : asked[i] = p
  <2> DEFINE here == {i \in 1..n : asked[i] = p}
  <2>1. here \in SUBSET Nat /\ here # {} BY <1>1 DEF Quality!Range
  <2> HIDE DEF here
  <2>2. PICK i \in here : \A j \in here : i <= j BY <2>1, LeastNumber
  <2>3. i \in 1..n /\ asked[i] = p BY <2>2 DEF here
  <2>4. \A j \in 1..i - 1 : asked[j] # asked[i]
    <3> SUFFICES ASSUME NEW j \in 1..i - 1, asked[j] = asked[i] PROVE FALSE
      OBVIOUS
    <3>1. j \in here /\ j < i BY <1>1, <2>3 DEF here
    <3> QED BY <2>2, <2>3, <3>1
  <2> QED BY <1>1, <2>3, <2>4
<1> HIDE DEF firsts
<1>6. PICK f : Enumerates(f, firsts) /\ m \in Nat /\ unique = [i \in 1..m |-> asked[f[i]]]
  <2>1. \E f : Enumerates(f, firsts) /\ m \in Nat /\ Quality!Picked(asked, firsts) = [i \in 1..m |-> asked[f[i]]]
    BY <1>2, PickedInOrder, Zenon
  <2> HIDE DEF m
  <2> QED BY <1>3, <2>1
<1> HIDE DEF m
<1>7. /\ f \in [1..m -> firsts] /\ \A i, j \in 1..m : i < j => f[i] < f[j]
      /\ \A q \in firsts : \E i \in 1..m : f[i] = q
  BY <1>6 DEF Enumerates, Quality!Range, m
<1>8. \A i \in 1..m : f[i] \in firsts /\ f[i] \in 1..n /\ unique[i] = asked[f[i]]
  BY <1>4, <1>6, <1>7
<1>9. unique \in [1..m -> Starters \cup {Invalid}]
  <2>1. \A i \in 1..m : unique[i] \in Starters \cup {Invalid} BY <1>1, <1>8
  <2> QED BY <1>6, <2>1
<1>10. unique \in Seq(Starters \cup {Invalid}) /\ Len(unique) = m /\ DOMAIN unique = 1..m
  <2> HIDE <1>3
  <2> QED BY <1>6, <1>9
<1>11. ASSUME NEW i \in 1..m, NEW j \in 1..m, i < j
       PROVE  /\ unique[i] # unique[j]
              /\ \E k \in DOMAIN asked : asked[k] = unique[i] /\ \A l \in 1..k : asked[l] # unique[j]
  <2>1. f[i] < f[j] /\ f[i] \in 1..n /\ f[j] \in 1..n BY <1>7, <1>8, <1>11
  <2>2. \A l \in 1..f[j] - 1 : asked[l] # asked[f[j]] BY <1>4, <1>8
  <2>3. \A l \in 1..f[i] : l \in 1..f[j] - 1 BY <2>1
  <2>4. \A l \in 1..f[i] : asked[l] # unique[j] BY <1>8, <2>2, <2>3
  <2>5. f[i] \in DOMAIN asked /\ f[i] \in 1..f[i] BY <1>1, <2>1
  <2> QED BY <1>8, <2>4, <2>5
<1>12. Quality!Range(unique) = Quality!Range(asked)
  <2>1. \A p \in Quality!Range(asked) : \E i \in 1..m : unique[i] = p BY <1>5, <1>7, <1>8
  <2>2. \A i \in 1..m : unique[i] \in Quality!Range(asked) BY <1>1, <1>8 DEF Quality!Range
  <2> QED BY <1>10, <2>1, <2>2 DEF Quality!Range
<1>13. \A i, j \in 1..m : unique[i] = unique[j] => i = j
  <2> SUFFICES ASSUME NEW i \in 1..m, NEW j \in 1..m, unique[i] = unique[j], i # j PROVE FALSE
    OBVIOUS
  <2>1. i < j \/ j < i BY <1>6
  <2> QED BY <1>11, <2>1
<1> QED BY <1>6, <1>10, <1>11, <1>12, <1>13 DEF UniqueOK

\* Those asked about in earlier batches.
Before == {unique[i] : i \in 1..start}

\* Those of this batch that have not returned.
Out == {p \in Quality!Working : worker[p] # "returned"}

\* The batch under way is the one at start, and the counter counts its goroutines.
BatchOK ==
  /\ Quality!Working # {} =>
       status = "collecting" /\ start < Len(unique) /\ Quality!Working = Quality!Range(Quality!Batch)
  /\ IsFiniteSet(Out) /\ pending = Cardinality(Out)
  /\ \A p \in Quality!Working : worker[p] \in {"stored", "returned"} => slot[p] = answer[p]

\* The result is that of the earlier batches.
ResultOK ==
  /\ counts = {p \in Before : answer[p] = "some"}
  /\ issues \in Seq(Starters) /\ Quality!Range(issues) = {p \in Before : answer[p] \in Quality!Failures}
  /\ \A i, j \in DOMAIN issues : i < j =>
       \A k, l \in DOMAIN unique : unique[k] = issues[i] /\ unique[l] = issues[j] => k < l

QualityInv ==
  /\ UniqueOK /\ Quality!QualityTypeOK /\ BatchOK /\ ResultOK
  /\ status = "collecting" => Quality!Range(unique) \subseteq Starters
  /\ status = "returned" => start = Len(unique)

\* A batch is the next ids, at most as many as fit, each once.
LEMMA BatchIsNext ==
  ASSUME Quality!QualityAssumption, UniqueOK, start \in 0..Len(unique)
  PROVE  /\ Len(Quality!Batch) \in 0..BatchSize /\ start + Len(Quality!Batch) \in 0..Len(unique)
         /\ start < Len(unique) => Len(Quality!Batch) > 0
         /\ DOMAIN Quality!Batch = 1..Len(Quality!Batch)
         /\ \A i \in 1..Len(Quality!Batch) : start + i \in DOMAIN unique /\ Quality!Batch[i] = unique[start + i]
         /\ IsFiniteSet(Quality!Range(Quality!Batch))
         /\ Cardinality(Quality!Range(Quality!Batch)) = Len(Quality!Batch)
<1> DEFINE n == Len(unique)
           m == IF start + BatchSize < n THEN start + BatchSize ELSE n
<1>1. unique \in Seq(Starters \cup {Invalid}) /\ n \in Nat /\ DOMAIN unique = 1..n BY DEF UniqueOK
<1>2. BatchSize \in Nat /\ BatchSize > 0 BY DEF Quality!QualityAssumption
<1>3. m \in start..n /\ m - start \in 0..BatchSize /\ (start < n => m > start) BY <1>1, <1>2
<1>4. Quality!Batch = SubSeq(unique, start + 1, m) BY DEF Quality!Batch
<1> HIDE DEF m
<1>5. /\ Len(Quality!Batch) = m - start /\ DOMAIN Quality!Batch = 1..(m - start)
      /\ \A i \in 1..(m - start) : Quality!Batch[i] = unique[start + i]
  <2>1. start + 1 \in 1..n + 1 /\ m \in start..n BY <1>1, <1>3
  <2>2. SubSeq(unique, start + 1, m) = [i \in 1..(m - start) |-> unique[start + i]]
    <3>1. SubSeq(unique, start + 1, m) = [i \in 1..(1 + m - (start + 1)) |-> unique[i + (start + 1) - 1]]
      BY <1>1, <2>1
    <3>2. 1 + m - (start + 1) = m - start BY <1>1, <2>1
    <3>3. \A i \in 1..(m - start) : i + (start + 1) - 1 = start + i BY <1>1, <2>1
    <3> QED BY <3>1, <3>2, <3>3
  <2>3. m - start \in Nat BY <1>1, <1>3
  <2>4. \A i \in 1..(m - start) : start + i \in 1..n BY <1>1, <1>3
  <2> DEFINE k == m - start
  <2>5. k \in Nat /\ Quality!Batch = [i \in 1..k |-> unique[start + i]] /\ \A i \in 1..k : start + i \in 1..n
    BY <1>4, <2>2, <2>3, <2>4
  <2> HIDE DEF k
  <2>6. Quality!Batch \in [1..k -> {unique[i] : i \in 1..n}] BY <2>5
  <2>7. Quality!Batch \in Seq({unique[i] : i \in 1..n}) BY <2>5, <2>6
  <2>8. Len(Quality!Batch) = k /\ DOMAIN Quality!Batch = 1..k BY <2>5, <2>6, <2>7
  <2>9. \A i \in 1..k : Quality!Batch[i] = unique[start + i] BY <2>5
  <2> QED BY <2>8, <2>9 DEF k
<1>6. /\ Len(Quality!Batch) \in 0..BatchSize /\ start + Len(Quality!Batch) \in 0..n
      /\ start < n => Len(Quality!Batch) > 0
      /\ DOMAIN Quality!Batch = 1..Len(Quality!Batch)
  BY <1>1, <1>3, <1>5
<1>7. \A i \in 1..Len(Quality!Batch) : start + i \in DOMAIN unique /\ Quality!Batch[i] = unique[start + i]
  BY <1>1, <1>3, <1>5
<1>8. IsFiniteSet(Quality!Range(Quality!Batch)) /\ Cardinality(Quality!Range(Quality!Batch)) = Len(Quality!Batch)
  <2> DEFINE size == Len(Quality!Batch)
             f == [i \in 1..size |-> Quality!Batch[i]]
  <2>1. size \in Nat /\ IsFiniteSet(1..size) /\ Cardinality(1..size) = size
    <3>1. size \in Nat BY <1>2, <1>6
    <3> HIDE DEF size
    <3>2. IsFiniteSet(1..size) /\ Cardinality(1..size) = size
      <4>1. \A a, b \in Int : IsFiniteSet(a..b) /\ Cardinality(a..b) = IF a > b THEN 0 ELSE b - a + 1
        BY FS_Interval
      <4> QED BY <3>1, <4>1
    <3> QED BY <3>1, <3>2
  <2>2. \A i, j \in 1..size : Quality!Batch[i] = Quality!Batch[j] => i = j
    <3> SUFFICES ASSUME NEW i \in 1..size, NEW j \in 1..size, Quality!Batch[i] = Quality!Batch[j]
                 PROVE  i = j
      OBVIOUS
    <3>1. start + i = start + j BY <1>7 DEF UniqueOK
    <3> QED BY <2>1, <3>1
  <2>3. \A p \in Quality!Range(Quality!Batch) : \E i \in 1..size : Quality!Batch[i] = p
    BY <1>6 DEF Quality!Range
  <2>4. \A i \in 1..size : Quality!Batch[i] \in Quality!Range(Quality!Batch)
    BY <1>6 DEF Quality!Range
  <2> HIDE DEF size
  <2>5. f \in Bijection(1..size, Quality!Range(Quality!Batch))
    BY <2>2, <2>3, <2>4 DEF Bijection, Injection, Surjection, IsInjective
  <2>6. ExistsBijection(1..size, Quality!Range(Quality!Batch)) BY <2>5 DEF ExistsBijection
  <2> QED BY <2>1, <2>6, FS_Bijection DEF size
<1> QED BY <1>6, <1>7, <1>8

\* Nobody of this batch was in an earlier one.
LEMMA BatchIsNew ==
  ASSUME Quality!QualityAssumption, UniqueOK, start \in 0..Len(unique), NEW p \in Quality!Range(Quality!Batch)
  PROVE  p \notin Before
<1>1. PICK i \in 1..Len(Quality!Batch) : p = Quality!Batch[i] BY BatchIsNext DEF Quality!Range
<1>2. start + i \in DOMAIN unique /\ p = unique[start + i] /\ i \in Nat /\ i > 0
  BY <1>1, BatchIsNext
<1> SUFFICES ASSUME NEW k \in 1..start, p = unique[k] PROVE FALSE
  BY DEF Before
<1>3. k \in DOMAIN unique /\ DOMAIN unique = 1..Len(unique) /\ Len(unique) \in Nat BY DEF UniqueOK
<1>4. k = start + i BY <1>2, <1>3 DEF UniqueOK
<1> QED BY <1>2, <1>3, <1>4

\* Nothing is collected at first.
LEMMA QualityInitInv == Quality!QualityAssumption /\ Quality!QualityInit => QualityInv
<1> SUFFICES ASSUME Quality!QualityAssumption, Quality!QualityInit PROVE QualityInv
  OBVIOUS
<1>1. UniqueOK BY UniqueAtFirst
<1>2. Quality!Working = {} /\ Out = {} /\ Before = {}
  BY DEF Quality!QualityInit, Quality!Working, Out, Before, Quality!NoWorkers
<1>3. issues = <<>> /\ counts = {} /\ pending = 0 /\ start = 0 BY DEF Quality!QualityInit
<1>4. issues \in Seq(Starters) /\ DOMAIN issues = {} /\ Quality!Range(issues) = {}
  BY <1>3 DEF Quality!Range
<1>5. BatchOK BY <1>2, <1>3, FS_EmptySet DEF BatchOK
<1>6. ResultOK BY <1>2, <1>3, <1>4 DEF ResultOK
<1>7. Quality!QualityTypeOK
  BY <1>1, <1>3, <1>4
  DEF Quality!QualityTypeOK, Quality!QualityInit, Quality!NoWorkers, Quality!NoOutcomes,
      Quality!Answers, UniqueOK, Quality!QualityAssumption
<1>8. status = "collecting" => Quality!Range(unique) \subseteq Starters
  <2>1. \A p \in Quality!Range(unique) : p \in Starters \cup {Invalid}
    BY <1>1 DEF UniqueOK, Quality!Range
  <2> QED BY <2>1 DEF Quality!QualityInit
<1>9. status # "returned" BY DEF Quality!QualityInit
<1> QED BY <1>1, <1>5, <1>6, <1>7, <1>8, <1>9 DEF QualityInv

\* A goroutine of the batch makes a step that the counter counts.
LEMMA WorkerKeeps ==
  ASSUME Quality!QualityAssumption, QualityInv, NEW p \in Starters, worker[p] # "none",
         NEW next \in {"answered", "stored", "returned"}, worker' = [worker EXCEPT ![p] = next],
         worker[p] # "returned",
         pending' = IF next = "returned" THEN pending - 1 ELSE pending,
         slot' \in [Starters -> Quality!Answers], answer' \in [Starters -> Quality!Answers],
         \A q \in Starters \ {p} : slot'[q] = slot[q] /\ answer'[q] = answer[q],
         next # "answered" => answer' = answer /\ slot'[p] = answer[p],
         UNCHANGED <<asked, unique, start, counts, issues, status>>
  PROVE  QualityInv'
<1>1. worker \in [Starters -> {"none", "fetching", "answered", "stored", "returned"}]
  BY DEF QualityInv, Quality!QualityTypeOK
<1>2. /\ worker'[p] = next /\ \A q \in Starters \ {p} : worker'[q] = worker[q]
      /\ worker' \in [Starters -> {"none", "fetching", "answered", "stored", "returned"}]
  BY <1>1
<1>3. p \in Out /\ p \in Quality!Working BY DEF Quality!Working, Out
<1>4. Quality!Working' = Quality!Working BY <1>2, <1>3 DEF Quality!Working
<1>5. /\ next # "returned" => Out' = Out
      /\ next = "returned" => Out' = Out \ {p}
  BY <1>2, <1>3, <1>4 DEF Out
<1>6. IsFiniteSet(Out) /\ pending = Cardinality(Out) BY DEF QualityInv, BatchOK
<1>7. IsFiniteSet(Out') /\ pending' = Cardinality(Out')
  <2>1. CASE next # "returned" BY <1>5, <1>6, <2>1
  <2>2. CASE next = "returned"
    <3>1. IsFiniteSet(Out \ {p}) /\ Cardinality(Out \ {p}) = Cardinality(Out) - 1
      BY <1>3, <1>6, FS_RemoveElement
    <3> QED BY <1>5, <1>6, <2>2, <3>1
  <2> QED BY <2>1, <2>2
<1>8. pending' \in 0..BatchSize
  <2>1. pending \in 0..BatchSize BY DEF QualityInv, Quality!QualityTypeOK
  <2>2. pending' \in Nat BY <1>7, FS_CardinalityType
  <2> QED BY <2>1, <2>2 DEF Quality!QualityAssumption
<1>9. Quality!Batch' = Quality!Batch /\ UniqueOK' /\ Before' = Before
  BY DEF QualityInv, UniqueOK, Quality!Batch, Before
<1>10. Quality!Working = Quality!Range(Quality!Batch) /\ status = "collecting" /\ start < Len(unique)
  BY <1>3 DEF QualityInv, BatchOK
<1>11. p \notin Before
  <2>1. p \in Quality!Range(Quality!Batch) BY <1>3, <1>10
  <2> QED BY <2>1, BatchIsNew DEF QualityInv, Quality!QualityTypeOK
<1>12. BatchOK'
  <2>1. \A q \in Quality!Working : worker'[q] \in {"stored", "returned"} => slot'[q] = answer'[q]
    BY <1>2, <1>3 DEF QualityInv, BatchOK, Quality!Working
  <2> QED BY <1>4, <1>7, <1>9, <1>10, <2>1 DEF BatchOK
<1>13. Before \subseteq Starters
  BY <1>10 DEF QualityInv, UniqueOK, Quality!QualityTypeOK, Before, Quality!Range
<1>14. \A q \in Before : answer'[q] = answer[q] BY <1>11, <1>13
<1>15. ResultOK' BY <1>9, <1>14 DEF QualityInv, ResultOK
<1>16. Quality!QualityTypeOK' BY <1>2, <1>8 DEF QualityInv, Quality!QualityTypeOK
<1> QED BY <1>9, <1>12, <1>15, <1>16 DEF QualityInv

\* A batch is started with a goroutine for each of its ids.
LEMMA QualityStartBatch ==
  ASSUME Quality!QualityAssumption, QualityInv, Quality!StartBatch PROVE QualityInv'
<1>1. UniqueOK /\ start \in 0..Len(unique) /\ Quality!Range(unique) \subseteq Starters
  BY DEF QualityInv, Quality!QualityTypeOK, Quality!StartBatch
<1>2. Quality!Batch' = Quality!Batch /\ Before' = Before /\ UniqueOK'
  BY <1>1 DEF Quality!StartBatch, Quality!Batch, Before, UniqueOK
<1>3. Quality!Range(Quality!Batch) \subseteq Starters
  <2>1. \A i \in 1..Len(Quality!Batch) : Quality!Batch[i] \in Starters
    BY <1>1, BatchIsNext DEF Quality!Range
  <2> QED BY <1>1, <2>1, BatchIsNext DEF Quality!Range
<1>4. /\ Quality!Working' = Quality!Range(Quality!Batch) /\ Out' = Quality!Range(Quality!Batch)
      /\ \A p \in Quality!Working' : worker'[p] = "fetching"
  BY <1>3 DEF Quality!StartBatch, Quality!Working, Out
<1>5. IsFiniteSet(Out') /\ pending' = Cardinality(Out') /\ pending' \in 0..BatchSize
  BY <1>1, <1>4, BatchIsNext DEF Quality!StartBatch
<1>6. BatchOK' BY <1>2, <1>4, <1>5 DEF Quality!StartBatch, BatchOK
<1>7. ResultOK' BY <1>2 DEF QualityInv, ResultOK, Quality!StartBatch
<1>8. Quality!QualityTypeOK'
  BY <1>5 DEF QualityInv, Quality!QualityTypeOK, Quality!StartBatch, Quality!NoOutcomes, Quality!Answers
<1> QED BY <1>1, <1>2, <1>6, <1>7, <1>8 DEF QualityInv, Quality!StartBatch

\* When the counter is at zero every outcome of the batch is in its slot.
LEMMA AllHaveReturned ==
  ASSUME Quality!QualityAssumption, QualityInv, Quality!Working # {}, pending = 0
  PROVE  Quality!Working = Quality!Range(Quality!Batch) /\ \A p \in Quality!Range(Quality!Batch) : slot[p] = answer[p]
<1>1. Out = {} BY FS_EmptySet DEF QualityInv, BatchOK
<1> QED BY <1>1 DEF QualityInv, BatchOK, Out

\* Wait returns: the results of the batch follow those of the earlier ones.
LEMMA QualityCollect ==
  ASSUME Quality!QualityAssumption, QualityInv, Quality!Collect PROVE QualityInv'
<1> DEFINE n == Len(Quality!Batch)
           places == {i \in DOMAIN Quality!Batch : slot[Quality!Batch[i]] \in Quality!Failures}
           c == Cardinality(places)
<1>1. /\ UniqueOK /\ start \in 0..Len(unique) /\ start \in Nat /\ Len(unique) \in Nat
      /\ Quality!Range(unique) \subseteq Starters /\ DOMAIN unique = 1..Len(unique)
  BY DEF QualityInv, Quality!QualityTypeOK, Quality!Collect, UniqueOK
<1>2. /\ n \in Nat /\ start + n \in 0..Len(unique) /\ DOMAIN Quality!Batch = 1..n
      /\ \A i \in 1..n : start + i \in 1..Len(unique) /\ Quality!Batch[i] = unique[start + i]
  BY <1>1, BatchIsNext DEF Quality!QualityAssumption
<1>3. \A p \in Quality!Range(Quality!Batch) : slot[p] = answer[p] /\ p \in Starters
  <2>1. \A i \in 1..n : Quality!Batch[i] \in Starters BY <1>1, <1>2 DEF Quality!Range
  <2> QED BY <1>2, <2>1, AllHaveReturned DEF Quality!Collect, Quality!Range
<1>4. UniqueOK' BY <1>1 DEF Quality!Collect, UniqueOK
<1>5. start' = start + n BY DEF Quality!Collect
<1>6. Before' = Before \cup Quality!Range(Quality!Batch)
  <2>1. Before' = {unique[i] : i \in 1..start + n} BY <1>5 DEF Quality!Collect, Before
  <2>2. \A i \in 1..start + n : i \in 1..start \/ (i - start \in 1..n /\ i = start + (i - start))
    BY <1>1, <1>2
  <2>3. ASSUME NEW i \in 1..start + n PROVE unique[i] \in Before \cup Quality!Range(Quality!Batch)
    <3>1. CASE i \in 1..start BY <3>1 DEF Before
    <3>2. CASE i - start \in 1..n /\ i = start + (i - start)
      <4>1. Quality!Batch[i - start] = unique[i] BY <1>2, <3>2
      <4> QED BY <1>2, <3>2, <4>1 DEF Quality!Range
    <3> QED BY <2>2, <3>1, <3>2
  <2>4. \A i \in 1..n : start + i \in 1..start + n BY <1>1, <1>2
  <2>5. \A i \in 1..start : i \in 1..start + n BY <1>1, <1>2
  <2>6. Quality!Range(Quality!Batch) \subseteq Before' BY <1>2, <2>1, <2>4 DEF Quality!Range
  <2>7. Before \subseteq Before' BY <2>1, <2>5 DEF Before
  <2> QED BY <2>1, <2>3, <2>6, <2>7
<1>7. answer' = answer /\ unique' = unique BY DEF Quality!Collect
<1>8. counts' = {p \in Before' : answer'[p] = "some"}
  <2>1. counts' = counts \cup {p \in Quality!Range(Quality!Batch) : slot[p] = "some"}
    BY DEF Quality!Collect
  <2>2. counts = {p \in Before : answer[p] = "some"} BY DEF QualityInv, ResultOK
  <2> QED BY <1>3, <1>6, <1>7, <2>1, <2>2
<1>9. places \in SUBSET (1..n) BY <1>2
<1>10. PICK f : Enumerates(f, places) /\ c \in Nat
                /\ Quality!Picked(Quality!Batch, places) = [i \in 1..c |-> Quality!Batch[f[i]]]
  BY <1>2, <1>9, PickedInOrder, Zenon
<1>11. \A i \in places : i \in 1..n /\ slot[Quality!Batch[i]] \in Quality!Failures BY <1>2
<1>12. \A i \in 1..n : slot[Quality!Batch[i]] \in Quality!Failures => i \in places BY <1>2
<1> DEFINE new == Quality!Picked(Quality!Batch, places)
<1>13. issues' = issues \o new BY DEF Quality!Collect
<1> HIDE DEF n, places
<1>14. /\ f \in [1..c -> places] /\ \A i, j \in 1..c : i < j => f[i] < f[j]
       /\ \A q \in places : \E i \in 1..c : f[i] = q
  BY <1>10 DEF Enumerates, Quality!Range
<1>15. new = [i \in 1..c |-> Quality!Batch[f[i]]] /\ c \in Nat BY <1>10
<1> HIDE DEF new, c
<1>16. \A i \in 1..c : f[i] \in 1..n /\ new[i] = Quality!Batch[f[i]] /\ new[i] \in Quality!Range(Quality!Batch)
                      /\ slot[new[i]] \in Quality!Failures
  <2>1. \A i \in 1..c : f[i] \in places /\ new[i] = Quality!Batch[f[i]] BY <1>14, <1>15
  <2> QED BY <1>2, <1>11, <2>1 DEF Quality!Range
<1>17. new \in Seq(Starters) /\ Len(new) = c /\ DOMAIN new = 1..c
  <2>1. new \in [1..c -> Starters]
    <3>1. \A i \in 1..c : new[i] \in Starters BY <1>3, <1>16
    <3> QED BY <1>15, <3>1
  <2>2. new \in Seq(Starters) BY <1>15, <2>1
  <2> QED BY <1>15, <2>1, <2>2
<1>18. issues \in Seq(Starters) BY DEF QualityInv, ResultOK
<1> DEFINE o == Len(issues)
<1>19. /\ issues' \in Seq(Starters) /\ o \in Nat /\ DOMAIN issues' = 1..o + c /\ DOMAIN issues = 1..o
       /\ \A i \in 1..o : issues'[i] = issues[i]
       /\ \A i \in 1..o + c : i \in 1..o \/ (i - o \in 1..c /\ issues'[i] = new[i - o])
       /\ \A i \in 1..c : o + i \in 1..o + c /\ issues'[o + i] = new[i]
  BY <1>13, <1>15, <1>17, <1>18
<1> HIDE DEF o
<1>20. /\ Quality!Range(issues) = {p \in Before : answer[p] \in Quality!Failures}
       /\ \A i \in 1..o : issues[i] \in Before
  BY <1>19 DEF QualityInv, ResultOK, Quality!Range
<1>21. Quality!Range(issues') = {p \in Before' : answer'[p] \in Quality!Failures}
  <2>1. ASSUME NEW i \in 1..o + c
        PROVE  issues'[i] \in Before' /\ answer'[issues'[i]] \in Quality!Failures
    <3>1. CASE i \in 1..o
      <4>1. issues[i] \in Quality!Range(issues) BY <1>19, <3>1 DEF Quality!Range
      <4> QED BY <1>6, <1>7, <1>19, <1>20, <3>1, <4>1
    <3>2. CASE i - o \in 1..c /\ issues'[i] = new[i - o] BY <1>3, <1>6, <1>7, <1>16, <3>2
    <3> QED BY <1>19, <3>1, <3>2
  <2>2. ASSUME NEW p \in Before', answer'[p] \in Quality!Failures
        PROVE  \E i \in 1..o + c : issues'[i] = p
    <3>1. CASE p \in Before
      <4>1. PICK i \in 1..o : issues[i] = p BY <1>7, <1>19, <1>20, <2>2, <3>1 DEF Quality!Range
      <4>2. i \in 1..o + c BY <1>15, <1>19
      <4> QED BY <1>19, <4>1, <4>2
    <3>2. CASE p \in Quality!Range(Quality!Batch)
      <4>1. PICK i \in 1..n : Quality!Batch[i] = p BY <1>2, <3>2 DEF Quality!Range
      <4>2. i \in places BY <1>3, <1>7, <1>12, <2>2, <3>2, <4>1
      <4>3. PICK j \in 1..c : f[j] = i BY <1>14, <4>2
      <4> QED BY <1>16, <1>19, <4>1, <4>3
    <3> QED BY <1>6, <3>1, <3>2
  <2> QED BY <1>19, <2>1, <2>2 DEF Quality!Range
<1>22. \A k \in DOMAIN unique : unique[k] \in Before => k <= start
  <2> SUFFICES ASSUME NEW k \in DOMAIN unique, NEW i \in 1..start, unique[k] = unique[i]
               PROVE  k <= start
    BY DEF Before
  <2>1. i \in DOMAIN unique BY <1>1
  <2>2. k = i BY <1>1, <2>1 DEF UniqueOK
  <2> QED BY <1>1, <2>2
<1>23. \A k \in DOMAIN unique, i \in 1..n : unique[k] = Quality!Batch[i] => k = start + i
  BY <1>1, <1>2 DEF UniqueOK
<1>24. ASSUME NEW i \in 1..o + c, NEW j \in 1..o + c, i < j, NEW k \in DOMAIN unique, NEW l \in DOMAIN unique,
              unique[k] = issues'[i], unique[l] = issues'[j]
       PROVE  k < l
  <2>1. CASE j \in 1..o
    <3>1. i \in 1..o BY <1>24, <1>19, <2>1
    <3> QED BY <1>19, <1>24, <2>1, <3>1 DEF QualityInv, ResultOK
  <2>2. CASE j - o \in 1..c /\ issues'[j] = new[j - o]
    <3>1. f[j - o] \in 1..n /\ l = start + f[j - o] BY <1>16, <1>23, <1>24, <2>2
    <3>2. CASE i \in 1..o
      <4>1. k <= start BY <1>19, <1>20, <1>22, <1>24, <3>2
      <4> QED BY <1>1, <1>2, <3>1, <4>1
    <3>3. CASE i - o \in 1..c /\ issues'[i] = new[i - o]
      <4>1. f[i - o] \in 1..n /\ k = start + f[i - o] BY <1>16, <1>23, <1>24, <3>3
      <4>2. i - o < j - o BY <1>19, <1>24
      <4>3. f[i - o] < f[j - o] BY <1>14, <2>2, <3>3, <4>2
      <4> QED BY <1>1, <1>2, <3>1, <4>1, <4>3
    <3> QED BY <1>19, <3>2, <3>3
  <2> QED BY <1>19, <2>1, <2>2
<1>25. ResultOK' BY <1>7, <1>8, <1>19, <1>21, <1>24 DEF ResultOK
<1>26. Quality!Working' = {} /\ Out' = {} BY DEF Quality!Collect, Quality!NoWorkers, Quality!Working, Out
<1>27. BatchOK' BY <1>26, FS_EmptySet DEF Quality!Collect, BatchOK
<1>28. counts' \subseteq Starters /\ Quality!Range(issues') \subseteq Starters
  <2>1. counts \subseteq Starters BY DEF QualityInv, Quality!QualityTypeOK
  <2>2. counts' \subseteq Starters BY <1>3, <2>1 DEF Quality!Collect
  <2>3. \A i \in DOMAIN issues' : issues'[i] \in Starters
    <3>1. \A s \in Seq(Starters) : \A i \in DOMAIN s : s[i] \in Starters OBVIOUS
    <3>2. issues' \in Seq(Starters) BY <1>19
    <3> QED BY <3>1, <3>2
  <2> QED BY <2>2, <2>3 DEF Quality!Range
<1>29. Quality!QualityTypeOK'
  BY <1>2, <1>5, <1>7, <1>28 DEF QualityInv, Quality!QualityTypeOK, Quality!Collect, Quality!NoWorkers
<1> QED BY <1>1, <1>4, <1>25, <1>27, <1>29 DEF QualityInv, Quality!Collect

\* Every step keeps the invariant.
LEMMA QualityNextInv ==
  ASSUME Quality!QualityAssumption, QualityInv, [Quality!QualityNext]_(Quality!qualityVars)
  PROVE  QualityInv'
<1>1. CASE Quality!StartBatch BY <1>1, QualityStartBatch
<1>2. CASE Quality!Collect BY <1>2, QualityCollect
<1>3. CASE Quality!Return
  <2>1. Quality!Batch' = Quality!Batch /\ Before' = Before /\ Quality!Working' = Quality!Working /\ Out' = Out
    BY <1>3 DEF Quality!Return, Quality!Batch, Before, Quality!Working, Out
  <2> QED BY <1>3, <2>1 DEF Quality!Return, QualityInv, UniqueOK, Quality!QualityTypeOK, BatchOK, ResultOK
<1>4. ASSUME NEW p \in Starters, Quality!Answer(p) \/ Quality!Store(p) \/ Quality!Done(p)
      PROVE  QualityInv'
  <2>1. slot \in [Starters -> Quality!Answers] /\ answer \in [Starters -> Quality!Answers]
    BY DEF QualityInv, Quality!QualityTypeOK
  <2>2. CASE Quality!Answer(p)
    <3>1. PICK a \in Quality!Answers : answer' = [answer EXCEPT ![p] = a] BY <2>2 DEF Quality!Answer
    <3> QED BY <2>1, <2>2, <3>1, WorkerKeeps DEF Quality!Answer
  <2>3. CASE Quality!Store(p)
    <3>1. slot' \in [Starters -> Quality!Answers] /\ slot'[p] = answer[p]
          /\ \A q \in Starters \ {p} : slot'[q] = slot[q]
      BY <2>1, <2>3 DEF Quality!Store
    <3> QED BY <2>1, <2>3, <3>1, WorkerKeeps DEF Quality!Store
  <2>4. CASE Quality!Done(p)
    <3>1. slot[p] = answer[p] BY <2>4 DEF Quality!Done, QualityInv, BatchOK, Quality!Working
    <3> QED BY <2>1, <2>4, <3>1, WorkerKeeps DEF Quality!Done
  <2> QED BY <1>4, <2>2, <2>3, <2>4
<1>5. CASE UNCHANGED Quality!qualityVars
  <2>1. Quality!Batch' = Quality!Batch /\ Before' = Before /\ Quality!Working' = Quality!Working /\ Out' = Out
    BY <1>5 DEF Quality!qualityVars, Quality!Batch, Before, Quality!Working, Out
  <2> QED BY <1>5, <2>1 DEF Quality!qualityVars, QualityInv, UniqueOK, Quality!QualityTypeOK, BatchOK, ResultOK
<1> QED BY <1>1, <1>2, <1>3, <1>4, <1>5 DEF Quality!QualityNext

\* What is returned is what the invariant says of all ids.
LEMMA QualityIsCollected ==
  ASSUME QualityInv PROVE Quality!AnswersAreCollected
<1> SUFFICES ASSUME status = "returned" PROVE Quality!AnswersAreCollected
  BY DEF Quality!AnswersAreCollected
<1>1. start = Len(unique) /\ DOMAIN unique = 1..Len(unique) BY DEF QualityInv, UniqueOK
<1>2. Before = Quality!Range(asked) BY <1>1 DEF QualityInv, UniqueOK, Before, Quality!Range
<1>3. ASSUME NEW i \in DOMAIN issues, NEW j \in DOMAIN issues, i < j
      PROVE  \E k \in DOMAIN asked : asked[k] = issues[i] /\ \A l \in 1..k : asked[l] # issues[j]
  <2>1. issues[i] \in Before /\ issues[j] \in Before BY DEF QualityInv, ResultOK, Quality!Range
  <2>2. PICK k \in DOMAIN unique, l \in DOMAIN unique : unique[k] = issues[i] /\ unique[l] = issues[j]
    BY <1>1, <2>1 DEF Before
  <2>3. k < l BY <1>3, <2>2 DEF QualityInv, ResultOK
  <2> QED BY <2>2, <2>3 DEF QualityInv, UniqueOK
<1> QED BY <1>2, <1>3 DEF QualityInv, ResultOK, Quality!AnswersAreCollected

\* Every answer reaches the result of its own pitcher.
LEMMA QualityCollected ==
  Quality!QualitySpec => [](Quality!QualityTypeOK /\ Quality!AnswersAreCollected)
<1>0. Quality!QualityAssumption BY ServicesAssumption
<1>1. Quality!QualityInit => QualityInv BY <1>0, QualityInitInv
<1>2. QualityInv /\ [Quality!QualityNext]_(Quality!qualityVars) => QualityInv'
  BY <1>0, QualityNextInv
<1>3. QualityInv => Quality!QualityTypeOK /\ Quality!AnswersAreCollected
  BY QualityIsCollected DEF QualityInv
<1> QED BY <1>1, <1>2, <1>3, PTL DEF Quality!QualitySpec

(***************************************************************************)
(* The lines of the slate. Of the games of a day that show a line by their *)
(* turn the n-th has the one with n - 1 quoted before it, so two of them   *)
(* never meet; only a line found by its time is found by another's turn.   *)
(***************************************************************************)

\* The games of the days before that of g, of which there are two.
DayBefore(g) == IF g \in Slate!TodaysGames THEN 0 ELSE Today

\* The instance counts as FiniteSets does, and its games are numbers.
LEMMA SlateCounts ==
  Slate!SlateAssumption =>
    /\ Today \in Nat /\ Tomorrow \in Nat /\ Slate!TodaysGames = 1..Today
    /\ Slate!Games = 1..Today + Tomorrow /\ Slate!TomorrowsGames = Today + 1..Today + Tomorrow
    /\ \A S : Slate!Cardinality(S) = Cardinality(S)
BY DEF Slate!SlateAssumption, Slate!TodaysGames, Slate!TomorrowsGames, Slate!Games,
       Slate!Cardinality, Cardinality, Slate!IsFiniteSet, IsFiniteSet

\* A game has as many of its day before it as its number says.
LEMMA TurnOfGame ==
  ASSUME Slate!SlateAssumption, NEW g \in Slate!Games
  PROVE  Slate!Occurrence(g) = g - 1 - DayBefore(g) /\ DayBefore(g) \in Nat /\ DayBefore(g) < g
<1>1. /\ g \in 1..Today + Tomorrow /\ Today \in Nat /\ Tomorrow \in Nat
      /\ Slate!TodaysGames = 1..Today /\ Slate!Games = 1..Today + Tomorrow
  BY SlateCounts
<1>2. DayBefore(g) \in Nat /\ DayBefore(g) < g BY <1>1 DEF DayBefore
<1>3. {h \in Slate!Games : h < g /\ (h \in Slate!TodaysGames <=> g \in Slate!TodaysGames)}
        = DayBefore(g) + 1..g - 1
  BY <1>1 DEF DayBefore
<1>4. Cardinality(DayBefore(g) + 1..g - 1) = g - 1 - DayBefore(g)
  <2>1. ASSUME NEW n \in Nat, NEW x \in Nat, n < x PROVE Cardinality(n + 1..x - 1) = x - 1 - n
    <3>1. n + 1 \in Int /\ x - 1 \in Int OBVIOUS
    <3>2. Cardinality(n + 1..x - 1) = IF n + 1 > x - 1 THEN 0 ELSE (x - 1) - (n + 1) + 1
      BY <3>1, FS_Interval
    <3> QED BY <2>1, <3>2
  <2>2. g \in Nat BY <1>1
  <2> QED BY <1>2, <2>1, <2>2
<1> QED BY <1>2, <1>3, <1>4, SlateCounts DEF Slate!Occurrence

\* What is found at a turn is quoted, and has that many quoted before it.
LEMMA FoundAtTurn ==
  ASSUME NEW quoted, NEW n, Slate!Nth(quoted, n) # 0
  PROVE  Slate!IsNth(Slate!Nth(quoted, n), quoted, n)
BY DEF Slate!Nth

\* Where all games of a day are quoted, and none of a day before it, the game of a turn is
\* found, and no other.
LEMMA OwnTurn ==
  ASSUME Slate!SlateAssumption, NEW quoted \in SUBSET Slate!Games, NEW lo \in Nat, NEW hi \in Nat,
         \A h \in quoted : h > lo, lo + 1..hi \subseteq quoted, NEW g \in lo + 1..hi
  PROVE  Slate!Nth(quoted, g - 1 - lo) = g
<1>1. quoted \subseteq Nat /\ g \in Nat BY SlateCounts
<1>2. ASSUME NEW x \in lo + 1..hi PROVE Cardinality({h \in quoted : h < x}) = x - 1 - lo
  <2>1. {h \in quoted : h < x} = lo + 1..x - 1
    <3>1. \A h \in lo + 1..x - 1 : h \in quoted /\ h < x BY <1>1, <1>2
    <3>2. \A h \in quoted : h < x => h \in lo + 1..x - 1 BY <1>1, <1>2
    <3> QED BY <3>1, <3>2
  <2>2. Cardinality(lo + 1..x - 1) = x - 1 - lo BY <1>1, <1>2, FS_Interval
  <2> QED BY <2>1, <2>2
<1>3. Slate!IsNth(g, quoted, g - 1 - lo) BY <1>1, <1>2, SlateCounts DEF Slate!IsNth
<1>4. ASSUME NEW x, Slate!IsNth(x, quoted, g - 1 - lo) PROVE x = g
  <2>1. x \in quoted /\ x \in Nat /\ Cardinality({h \in quoted : h < x}) = g - 1 - lo
    BY <1>1, <1>4, SlateCounts DEF Slate!IsNth
  <2>2. CASE x < g
    <3>1. x \in lo + 1..hi BY <1>1, <2>1, <2>2
    <3> QED BY <1>1, <1>2, <2>1, <3>1
  <2>3. CASE x > g
    <3> DEFINE before == {h \in quoted : h < x}
    <3>1. IsFiniteSet(before)
      <4>1. before \subseteq 1..Today + Tomorrow BY SlateCounts
      <4>2. IsFiniteSet(1..Today + Tomorrow) BY SlateCounts, FS_Interval
      <4> QED BY <4>1, <4>2, FS_Subset
    <3>2. lo + 1..g \subseteq before BY <1>1, <2>1, <2>3
    <3>3. Cardinality(lo + 1..g) = g - lo BY <1>1, FS_Interval
    <3> HIDE DEF before
    <3>4. g - lo <= Cardinality(before) BY <3>1, <3>2, <3>3, FS_Subset
    <3> QED BY <1>1, <2>1, <3>4 DEF before
  <2> QED BY <1>1, <2>1, <2>2, <2>3
<1> QED BY <1>3, <1>4 DEF Slate!Nth

\* Two games of a day that take their lines by their turns take different ones.
LEMMA TurnsDiffer ==
  ASSUME Slate!SlateAssumption, NEW quoted, NEW g \in Slate!Games, NEW h \in Slate!Games,
         Slate!SameDay(g, h), Slate!Nth(quoted, Slate!Occurrence(g)) # 0,
         Slate!Nth(quoted, Slate!Occurrence(g)) = Slate!Nth(quoted, Slate!Occurrence(h))
  PROVE  g = h
<1> DEFINE line == Slate!Nth(quoted, Slate!Occurrence(g))
<1>1. Slate!IsNth(line, quoted, Slate!Occurrence(g)) /\ Slate!IsNth(line, quoted, Slate!Occurrence(h))
  BY FoundAtTurn
<1>2. Slate!Occurrence(g) = Slate!Occurrence(h) BY <1>1 DEF Slate!IsNth
<1>3. DayBefore(g) = DayBefore(h) BY DEF Slate!SameDay, DayBefore
<1>4. g \in Nat /\ h \in Nat BY SlateCounts
<1> QED BY <1>2, <1>3, <1>4, TurnOfGame

\* The first of the quoted games is one of today's if any of today's is quoted.
LEMMA FirstIsTodays ==
  ASSUME Slate!SlateAssumption, NEW quoted \in SUBSET Slate!Games,
         quoted \intersect Slate!TodaysGames # {}
  PROVE  Slate!Nth(quoted, 0) \in Slate!TodaysGames
<1>1. /\ quoted \subseteq 1..Today + Tomorrow /\ Today \in Nat /\ Tomorrow \in Nat
      /\ Slate!TodaysGames = 1..Today /\ quoted \subseteq Nat
  BY SlateCounts
<1>2. PICK some \in quoted : some <= Today BY <1>1
<1>3. PICK first \in quoted : \A h \in quoted : first <= h BY <1>1, <1>2, LeastNumber
<1>4. {h \in quoted : h < first} = {}
  <2>1. \A h \in quoted : h \in Nat /\ first \in Nat /\ ~(h < first) BY <1>1, <1>3
  <2> QED BY <2>1
<1>5. Slate!IsNth(first, quoted, 0) BY <1>4, FS_EmptySet, SlateCounts DEF Slate!IsNth
<1> DEFINE found == Slate!Nth(quoted, 0)
<1>6. Slate!IsNth(found, quoted, 0) BY <1>5 DEF Slate!Nth
<1>7. found \in quoted /\ Cardinality({h \in quoted : h < found}) = 0
  BY <1>6, SlateCounts DEF Slate!IsNth
<1>8. IsFiniteSet({h \in quoted : h < found})
  <2>1. IsFiniteSet(1..Today + Tomorrow) BY <1>1, FS_Interval
  <2> QED BY <1>1, <2>1, FS_Subset
<1>9. {h \in quoted : h < found} = {} BY <1>7, <1>8, FS_EmptySet
<1> HIDE DEF found
<1>10. found \in Nat /\ some \in Nat /\ found \in 1..Today + Tomorrow BY <1>1, <1>2, <1>7
<1>11. ~(some < found) BY <1>2, <1>9
<1>12. found \in 1..Today BY <1>1, <1>2, <1>10, <1>11
<1> QED BY <1>1, <1>12 DEF found

\* Which games share a line: on the slate those of which one is found by its time only, in the
\* matchup all of today's, and none of a day that is quoted in full.
LEMMA LinesApart ==
  Slate!SlateAssumption /\ Slate!SlateTypeOK => Slate!LinesAreToldApart
<1> SUFFICES ASSUME Slate!SlateAssumption, Slate!SlateTypeOK PROVE Slate!LinesAreToldApart
  OBVIOUS
<1>1. /\ lines \subseteq Slate!Games /\ future \subseteq Slate!TomorrowsGames /\ timed \in BOOLEAN
      /\ Today \in Nat /\ Tomorrow \in Nat /\ Slate!TodaysGames = 1..Today
      /\ Slate!Games = 1..Today + Tomorrow /\ Slate!TomorrowsGames = Today + 1..Today + Tomorrow
  BY SlateCounts DEF Slate!SlateTypeOK
<1>2. ASSUME NEW g \in Slate!Games, NEW h \in Slate!Games, g # h, Slate!SameDay(g, h),
             Slate!SlateLine(g) = Slate!SlateLine(h), Slate!SlateLine(g) # 0
      PROVE  Slate!TakenTwice(g, h)
  <2>1. g \in Slate!TomorrowsGames /\ h \in Slate!TomorrowsGames
    <3>1. CASE g \in Slate!TodaysGames
      <4>1. h \in Slate!TodaysGames BY <1>2, <3>1 DEF Slate!SameDay
      <4> QED BY <1>2, <3>1, <4>1, TurnsDiffer DEF Slate!SlateLine
    <3>2. CASE g \notin Slate!TodaysGames
      BY <1>2, <3>2 DEF Slate!SameDay, Slate!TomorrowsGames
    <3> QED BY <3>1, <3>2
  <2>2. /\ g \notin Slate!TodaysGames /\ h \notin Slate!TodaysGames
    BY <2>1 DEF Slate!TomorrowsGames
  <2>3. /\ timed /\ g \in future => Slate!SlateLine(g) = g
        /\ timed /\ h \in future => Slate!SlateLine(h) = h
        /\ ~(timed /\ g \in future) => Slate!SlateLine(g) = Slate!Nth(future, Slate!Occurrence(g))
        /\ ~(timed /\ h \in future) => Slate!SlateLine(h) = Slate!Nth(future, Slate!Occurrence(h))
    BY <2>2 DEF Slate!SlateLine
  <2>4. timed /\ (g \in future \/ h \in future) BY <1>2, <2>3, TurnsDiffer
  <2>5. ~(g \in future /\ h \in future) BY <1>2, <2>3, <2>4
  <2>6. CASE g \in future /\ h \notin future
    BY <2>1, <2>3, <2>4, <2>6 DEF Slate!TakenTwice
  <2>7. CASE h \in future /\ g \notin future
    BY <1>2, <2>1, <2>3, <2>4, <2>7 DEF Slate!TakenTwice
  <2> QED BY <2>4, <2>5, <2>6, <2>7
<1>3. ASSUME Slate!TodaysGames \subseteq lines, NEW g \in Slate!TodaysGames
      PROVE  Slate!SlateLine(g) = g /\ Slate!MatchupLine(g) = 1
  <2>1. \A h \in lines : h > 0 BY <1>1
  <2>2. ASSUME NEW x \in Slate!TodaysGames PROVE Slate!Nth(lines, x - 1) = x
    <3>1. 0 + 1..Today \subseteq lines /\ x \in 0 + 1..Today BY <1>1, <1>3
    <3>2. Slate!Nth(lines, x - 1 - 0) = x BY <1>1, <2>1, <3>1, OwnTurn
    <3> QED BY <1>1, <3>2
  <2>3. Slate!Occurrence(g) = g - 1 BY <1>1, TurnOfGame DEF DayBefore
  <2>4. Slate!SlateLine(g) = g BY <2>2, <2>3 DEF Slate!SlateLine
  <2>5. Slate!Nth(lines, 0) = 1 BY <1>1, <2>2
  <2> QED BY <2>4, <2>5 DEF Slate!MatchupLine
<1>4. ASSUME Slate!TomorrowsGames \subseteq future, NEW g \in Slate!TomorrowsGames
      PROVE  Slate!SlateLine(g) = g
  <2>1. \A h \in future : h > Today BY <1>1
  <2>2. g \notin Slate!TodaysGames BY DEF Slate!TomorrowsGames
  <2>3. Slate!Nth(future, g - 1 - Today) = g
    <3>1. future \in SUBSET Slate!Games /\ Today + Tomorrow \in Nat BY <1>1
    <3>2. Today + 1..Today + Tomorrow \subseteq future /\ g \in Today + 1..Today + Tomorrow
      BY <1>1, <1>4
    <3> QED BY <1>1, <2>1, <3>1, <3>2, OwnTurn
  <2>4. Slate!Occurrence(g) = g - 1 - Today BY <1>1, <2>2, TurnOfGame DEF DayBefore
  <2> QED BY <2>2, <2>3, <2>4 DEF Slate!SlateLine
<1>5. ASSUME lines \intersect Slate!TodaysGames # {}, NEW g \in Slate!TodaysGames
      PROVE  Slate!MatchupLine(g) \in Slate!TodaysGames
  BY <1>1, <1>5, FirstIsTodays DEF Slate!MatchupLine
<1> QED BY <1>2, <1>3, <1>4, <1>5 DEF Slate!LinesAreToldApart

\* Quotes come and go among the games.
LEMMA SlateTypes == Slate!SlateSpec => []Slate!SlateTypeOK
<1>1. Slate!SlateInit => Slate!SlateTypeOK BY DEF Slate!SlateInit, Slate!SlateTypeOK
<1>2. Slate!SlateTypeOK /\ [Slate!SlateNext]_(Slate!slateVars) => Slate!SlateTypeOK'
  <2> SUFFICES ASSUME Slate!SlateTypeOK, [Slate!SlateNext]_(Slate!slateVars)
               PROVE  Slate!SlateTypeOK'
    OBVIOUS
  <2> USE DEF Slate!SlateTypeOK
  <2>1. CASE Slate!Quote BY <2>1 DEF Slate!Quote
  <2>2. CASE Slate!FetchCurrent BY <2>2 DEF Slate!FetchCurrent
  <2>3. CASE Slate!FetchFuture BY <2>3 DEF Slate!FetchFuture
  <2>4. CASE UNCHANGED Slate!slateVars BY <2>4 DEF Slate!slateVars
  <2> QED BY <2>1, <2>2, <2>3, <2>4 DEF Slate!SlateNext
<1> QED BY <1>1, <1>2, PTL DEF Slate!SlateSpec

\* The lines of the slate, whatever is quoted and whichever requests fail.
LEMMA SlateLinesApart == Slate!SlateSpec => []Slate!LinesAreToldApart
<1>1. Slate!SlateTypeOK => Slate!LinesAreToldApart BY LinesApart, ServicesAssumption
<1> QED BY <1>1, SlateTypes, PTL

(***************************************************************************)
(* The composition: each part behaves as it does alone, for while another  *)
(* moves it stays as it is.                                                *)
(***************************************************************************)

\* What SyncRunProofs proves of a synchronization without provider steps after Yahoo.
Alone == INSTANCE SyncRunProofs WITH
  K <- 0, Reconciling <- {}, Historical <- {}, MaxRuns <- MaxStarts,
  status <- itemStatus, archived <- frozen, runs <- recorded, board <- dashboard, at <- position

\* It is the synchronization of the composition.
LEMMA SameSynchronization ==
  /\ Alone!SyncAssumption
  /\ Alone!Init <=> Leagues!Init
  /\ Alone!Next <=> Leagues!Next
<1>1. Alone!SyncAssumption
  BY ServicesAssumption
  DEF Alone!SyncAssumption, Alone!Steps, Leagues!SyncAssumption, Leagues!Steps
<1>2. Alone!Init <=> Leagues!Init
  BY DEF Alone!Init, Alone!NoJob, Alone!Items, Alone!Steps, Alone!Never, Leagues!Init,
         Leagues!NoJob, Leagues!Items, Leagues!Steps, Leagues!Never
<1>3. Alone!Next <=> Leagues!Next
  BY DEF Alone!Next, Alone!vars, Alone!Steps, Alone!Items, Alone!Never, Alone!world, Alone!itemVars,
         Alone!dataVars, Alone!runVars, Alone!NoJob, Alone!Tick, Alone!SeasonEnds,
         Alone!Needs, Alone!Item, Alone!MarkAttempt, Alone!MarkFailure, Alone!MarkSuccess,
         Alone!NextItem, Alone!Win, Alone!Lose, Alone!ItemFails, Alone!IsArchived,
         Alone!Begin, Alone!Requested, Alone!ReadConfig, Alone!StartSyncRun, Alone!Skipped,
         Alone!SkipItem, Alone!CheckFails, Alone!AttemptItem, Alone!AcquireYahoo,
         Alone!Acquire, Alone!ActionFails, Alone!ReplaceYahoo, Alone!ArchiveYahoo,
         Alone!SaveConfig, Alone!Replace, Alone!Settle, Alone!MarkItem, Alone!Tally,
         Alone!FailSyncRun, Alone!End, Alone!RecordFailure, Alone!CompleteSyncRun,
         Alone!RecordSuccess, Alone!Abandon, Alone!ItemStep, Alone!SyncStep, Alone!Rest,
         Leagues!Next, Leagues!vars, Leagues!Steps, Leagues!Items, Leagues!Never,
         Leagues!world, Leagues!itemVars, Leagues!dataVars, Leagues!runVars, Leagues!NoJob,
         Leagues!Tick, Leagues!SeasonEnds, Leagues!Needs, Leagues!Item,
         Leagues!MarkAttempt, Leagues!MarkFailure, Leagues!MarkSuccess, Leagues!NextItem,
         Leagues!Win, Leagues!Lose, Leagues!ItemFails, Leagues!IsArchived, Leagues!Begin,
         Leagues!Requested, Leagues!ReadConfig, Leagues!StartSyncRun, Leagues!Skipped,
         Leagues!SkipItem, Leagues!CheckFails, Leagues!AttemptItem, Leagues!AcquireYahoo,
         Leagues!Acquire, Leagues!ActionFails, Leagues!ReplaceYahoo, Leagues!ArchiveYahoo,
         Leagues!SaveConfig, Leagues!Replace, Leagues!Settle, Leagues!MarkItem,
         Leagues!Tally, Leagues!FailSyncRun, Leagues!End, Leagues!RecordFailure,
         Leagues!CompleteSyncRun, Leagues!RecordSuccess, Leagues!Abandon, Leagues!ItemStep,
         Leagues!SyncStep, Leagues!Rest
<1> QED BY <1>1, <1>2, <1>3

\* So its archive is frozen for good.
LEMMA LeaguesStayFrozen == Leagues!Spec => Leagues!ArchiveIsFrozen
<1>1. Leagues!Spec => Alone!Spec
  BY SameSynchronization, PTL DEF Alone!Spec, Leagues!Spec, Alone!vars, Leagues!vars
<1>2. Alone!Spec => Alone!ArchiveIsFrozen BY SameSynchronization, Alone!ArchiveStaysFrozen
<1>3. Alone!ArchiveIsFrozen => Leagues!ArchiveIsFrozen
  BY DEF Alone!ArchiveIsFrozen, Alone!ArchiveHasSnapshot, Alone!FrozenArchive, Alone!vars,
         Alone!Never, Leagues!ArchiveIsFrozen, Leagues!ArchiveHasSnapshot,
         Leagues!FrozenArchive, Leagues!vars, Leagues!Never
<1> QED BY <1>1, <1>2, <1>3

\* And its variables have their types.
LEMMA LeaguesTypes == Leagues!Spec => []Leagues!TypeOK
<1>1. Leagues!Spec => Alone!Spec
  BY SameSynchronization, PTL DEF Alone!Spec, Leagues!Spec, Alone!vars, Leagues!vars
<1>2. Alone!Spec => []Alone!TypeOK BY SameSynchronization, Alone!SyncTypeCorrect
<1>3. Alone!TypeOK => Leagues!TypeOK
  BY DEF Alone!TypeOK, Alone!Times, Alone!Items, Alone!Steps, Alone!Never,
         Leagues!TypeOK, Leagues!Times, Leagues!Items, Leagues!Steps, Leagues!Never
<1> QED BY <1>1, <1>2, <1>3, PTL

\* A step of the composition is one of a part, or leaves that part alone.
LEMMA PartsMove ==
  ASSUME [ServicesNext]_services
  PROVE  /\ [Leagues!Next]_(Leagues!vars)
         /\ [Matchups!MatchupsNext]_(Matchups!matchups)
         /\ [Mig!MigrationNext]_(Mig!migrationVars)
         /\ [Cache!CacheNext]_(Cache!cacheVars)
         /\ [TransportNext]_request
         /\ [Ident!IdentitiesNext]_(Ident!identityVars)
         /\ [Roster!RosterNext]_(Roster!rosterVars)
         /\ [Quality!QualityNext]_(Quality!qualityVars)
         /\ [Slate!SlateNext]_(Slate!slateVars)
         /\ [Signs!SignsNext]_(Signs!signVars)
         /\ [Status!StatusNext]_(Status!statusVars)
<1>1. /\ UNCHANGED leagueVars => UNCHANGED Leagues!vars
      /\ UNCHANGED storedVars => UNCHANGED Matchups!matchups
      /\ UNCHANGED migVars => UNCHANGED Mig!migrationVars
      /\ UNCHANGED cacheVars => UNCHANGED Cache!cacheVars
      /\ UNCHANGED identVars => UNCHANGED Ident!identityVars
      /\ UNCHANGED rosterVars => UNCHANGED Roster!rosterVars
      /\ UNCHANGED qualityVars => UNCHANGED Quality!qualityVars
      /\ UNCHANGED slateVars => UNCHANGED Slate!slateVars
      /\ UNCHANGED signsVars => UNCHANGED Signs!signVars
      /\ UNCHANGED statusVars => UNCHANGED Status!statusVars
  <2>1. UNCHANGED storedVars => UNCHANGED Matchups!matchups BY DEF storedVars, Matchups!matchups
  <2>2. UNCHANGED migVars => UNCHANGED Mig!migrationVars BY DEF migVars, Mig!migrationVars
  <2>3. UNCHANGED cacheVars => UNCHANGED Cache!cacheVars BY DEF cacheVars, Cache!cacheVars
  <2>4. UNCHANGED identVars => UNCHANGED Ident!identityVars BY DEF identVars, Ident!identityVars
  <2>5. UNCHANGED rosterVars => UNCHANGED Roster!rosterVars BY DEF rosterVars, Roster!rosterVars
  <2>6. UNCHANGED slateVars => UNCHANGED Slate!slateVars BY DEF slateVars, Slate!slateVars
  <2>7. UNCHANGED signsVars => UNCHANGED Signs!signVars BY DEF signsVars, Signs!signVars
  <2>8. UNCHANGED statusVars => UNCHANGED Status!statusVars
    BY DEF statusVars, Status!statusVars, Status!database, Status!writer
  <2>10. UNCHANGED qualityVars => UNCHANGED Quality!qualityVars BY DEF qualityVars, Quality!qualityVars
  <2>9. UNCHANGED leagueVars => UNCHANGED Leagues!vars BY DEF leagueVars, Leagues!vars
  <2> QED BY <2>9, <2>10, <2>1, <2>2, <2>3, <2>4, <2>5, <2>6, <2>7, <2>8
<1>2. CASE ServicesNext
  <2>1. /\ Leagues!Next \/ UNCHANGED leagueVars
        /\ Matchups!MatchupsNext \/ UNCHANGED storedVars
        /\ Mig!MigrationNext \/ UNCHANGED migVars
        /\ Cache!CacheNext \/ UNCHANGED cacheVars
        /\ TransportNext \/ UNCHANGED request
        /\ Ident!IdentitiesNext \/ UNCHANGED identVars
        /\ Roster!RosterNext \/ UNCHANGED rosterVars
        /\ Quality!QualityNext \/ UNCHANGED qualityVars
        /\ Slate!SlateNext \/ UNCHANGED slateVars
        /\ Signs!SignsNext \/ UNCHANGED signsVars
        /\ Status!StatusNext \/ UNCHANGED statusVars
    BY <1>2 DEF ServicesNext, Others
  <2> QED BY <1>1, <2>1
<1>3. CASE UNCHANGED services
  <2>1. /\ UNCHANGED leagueVars /\ UNCHANGED storedVars /\ UNCHANGED migVars /\ UNCHANGED cacheVars /\ UNCHANGED request
        /\ UNCHANGED identVars /\ UNCHANGED rosterVars /\ UNCHANGED qualityVars /\ UNCHANGED slateVars
        /\ UNCHANGED signsVars /\ UNCHANGED statusVars
    BY <1>3 DEF services
  <2> QED BY <1>1, <2>1
<1> QED BY <1>2, <1>3

\* So a behaviour of the composition is one of every part.
LEMMA PartsBehave ==
  ServicesSpec => /\ Leagues!Spec /\ Matchups!MatchupsSpec /\ Mig!MigrationSpec /\ Cache!CacheSpec /\ TransportSpec
                  /\ Ident!IdentitiesSpec /\ Roster!RosterSpec /\ Quality!QualitySpec /\ Slate!SlateSpec /\ Signs!SignsSpec
                  /\ Status!StatusSpec
<1>1. ServicesInit => /\ Leagues!Init /\ Matchups!MatchupsInit /\ Mig!MigrationInit /\ Cache!CacheInit /\ TransportInit
                      /\ Ident!IdentitiesInit /\ Roster!RosterInit /\ Quality!QualityInit /\ Slate!SlateInit /\ Signs!SignsInit
                      /\ Status!StatusInit
  BY DEF ServicesInit
<1>2. [ServicesNext]_services =>
        /\ [Leagues!Next]_(Leagues!vars)
        /\ [Matchups!MatchupsNext]_(Matchups!matchups)
        /\ [Mig!MigrationNext]_(Mig!migrationVars)
        /\ [Cache!CacheNext]_(Cache!cacheVars)
        /\ [TransportNext]_request
        /\ [Ident!IdentitiesNext]_(Ident!identityVars)
        /\ [Roster!RosterNext]_(Roster!rosterVars)
        /\ [Quality!QualityNext]_(Quality!qualityVars)
         /\ [Slate!SlateNext]_(Slate!slateVars)
        /\ [Signs!SignsNext]_(Signs!signVars)
        /\ [Status!StatusNext]_(Status!statusVars)
  BY PartsMove
<1> QED
  BY <1>1, <1>2, PTL
  DEF ServicesSpec, Leagues!Spec, Matchups!MatchupsSpec, Mig!MigrationSpec, Cache!CacheSpec, TransportSpec,
      Ident!IdentitiesSpec, Roster!RosterSpec, Quality!QualitySpec, Slate!SlateSpec, Signs!SignsSpec, Status!StatusSpec

\* Every variable of every part has its type, for every value of the constants.
THEOREM ServicesTypeCorrect == ServicesSpec => []ServicesTypeOK
<1>1. ServicesInit => part \in PartNames BY DEF ServicesInit
<1>2. part \in PartNames /\ [ServicesNext]_services => (part \in PartNames)'
  BY DEF ServicesNext, services
<1>3. /\ part \in PartNames
      /\ Leagues!TypeOK /\ Matchups!MatchupsTypeOK /\ Mig!MigrationTypeOK /\ Cache!CacheTypeOK
      /\ TransportTypeOK /\ Ident!IdentitiesTypeOK /\ Roster!RosterTypeOK /\ Quality!QualityTypeOK
      /\ Slate!SlateTypeOK /\ Signs!SignsTypeOK /\ Status!StatusTypeOK
      => ServicesTypeOK
  BY DEF ServicesTypeOK, PartNames
<1> QED
  BY <1>1, <1>2, <1>3, PartsBehave, LeaguesTypes, MatchupsTypes, MigrationTypes, CacheTypes,
     TransportTypes, IdentitiesTypes, RosterRowsHonest, QualityCollected, SlateTypes, SignsAreTrue,
     StatusShown, PTL
  DEF ServicesSpec

\* A file found under an entry's name is whole and synced, at any moment and after any loss
\* of power, whatever the number of commands and pruners and however long entries are kept
\* (WriteCache and the readers in internal/cache/cache.go).
THEOREM CachedEntriesAreWhole == ServicesSpec => []EntryIsWhole
<1>1. Cache!EntryIsWhole => EntryIsWhole BY DEF EntryIsWhole
<1> QED BY <1>1, EntriesAreWhole, PartsBehave, PTL

\* A fresh row has the roster of the run that succeeded, and what a run says of itself is so,
\* whatever the number of clubs and of runs that failed or died before.
THEOREM RosterRowsAreHonest == ServicesSpec => []RosterStepIsHonest
<1>1. Roster!RosterStepIsHonest => RosterStepIsHonest BY DEF RosterStepIsHonest
<1> QED BY <1>1, RosterRowsHonest, PartsBehave, PTL

\* What st shows beside a run was stored with it or later, the last run it shows has ended,
\* and the circuit is open for the failures on record, wherever a synchronization commits or
\* dies between the statements, for any number of runs and any limit of failures.
THEOREM StatusShowsTheTruth == ServicesSpec => []StatusIsTrue
<1>1. Status!StatusIsTrue => StatusIsTrue BY DEF StatusIsTrue
<1> QED BY <1>1, StatusShown, PartsBehave, PTL

\* A view printed without a mark shows each part as Yahoo had it within the reuse window or
\* after its week was over; under -S of an archived league, every part is final (acquire and
\* the readers of snapshots in internal/app/matchup.go, the history of internal/app/sync.go).
THEOREM UnmarkedMatchupsAreTrue == ServicesSpec => []UnmarkedIsCurrentOrFinal
<1>1. Matchups!UnmarkedIsCurrentOrFinal => UnmarkedIsCurrentOrFinal BY DEF UnmarkedIsCurrentOrFinal
<1> QED BY <1>1, UnmarkedShown, PartsBehave, PTL

\* What is committed under a version has exactly the features of that version, whoever
\* migrated it and wherever a process died, and a store is open only on the current schema
\* (preflightMigrationSource, migrateWithHook and runMigration in internal/store/store.go).
THEOREM VersionsNameSchemas == ServicesSpec => []SchemaIsCurrent
<1>1. Mig!SchemaIsCurrent => SchemaIsCurrent BY DEF SchemaIsCurrent
<1> QED BY <1>1, SchemaNamed, PartsBehave, PTL

\* However many processes open an old database, die and retry, it is upgraded in one step,
\* its dashboard row outlives that, and what is not skout's is left alone (OpenAtWithClock
\* and runMigration in internal/store/store.go).
THEOREM MigrationRefinement == ServicesSpec => ImplementsSchemaUpgrade
BY UpgradeImplemented, PartsBehave DEF ImplementsSchemaUpgrade

\* A step after which two Yahoo rows of one role claim one person is no reconciliation,
\* for every population and every database an older release may have left.
THEOREM OneRowPerIdentity == ServicesSpec => OneClaimPerRole
BY ClaimsApart, PartsBehave DEF OneClaimPerRole

\* While no row loses its identity or role, no pool or roster shows the line of another; the
\* pool shows the line of every Yahoo player of the role that was stored, and the roster that
\* of every person for whom it joins the row that is written, unless that is Yahoo's. For
\* others it may show nothing. It is so for every population.
THEOREM ShownAsStored == ServicesSpec => []PlayersShowTheirOwn
<1>1. Ident!PlayersShowTheirOwn => PlayersShowTheirOwn BY DEF PlayersShowTheirOwn
<1> QED BY <1>1, PlayersShown, PartsBehave, PTL

\* What a Statcast step stores for a player of the pool is shown there, and a pitcher's
\* quality starts, once counted, do not vanish with a later acquisition.
THEOREM EnrichmentsAreKept == ServicesSpec => EnrichmentKept
BY EnrichmentShown, PartsBehave DEF EnrichmentKept

\* Each answer and each failure reaches the result once and in the order asked, in whatever
\* order the goroutines of a batch return, for any number of ids and any size of the batches
\* (aggregateQualityStarts in internal/providers/mlb.go).
THEOREM QualityStartsAreCollected == ServicesSpec => []AnswersAreCollected
<1>1. Quality!AnswersAreCollected => AnswersAreCollected BY DEF AnswersAreCollected
<1> QED BY <1>1, QualityCollected, PartsBehave, PTL

\* Whatever is quoted and whichever requests fail, two games of a day share a line only if they
\* are tomorrow's and one of them found it by its start time, or in the matchup; and whatever
\* the page, the schedule and the clubs do, a mark in any of the commands was announced, and
\* the commands do not contradict one another.
THEOREM SlatesAreTrue == ServicesSpec => []SlateIsTrue
<1>1. Slate!LinesAreToldApart /\ Signs!MarksWereAnnounced /\ Signs!CommandsAgree => SlateIsTrue BY DEF SlateIsTrue
<1> QED BY <1>1, SlateLinesApart, SignsAreTrue, PartsBehave, PTL

\* Whichever league is selected, and by whichever name, a frozen season is a stored one that is
\* over, is never thawed and is never written again (IsArchived and ReplaceYahoo in SyncRun).
THEOREM ArchivesStayFrozen == ServicesSpec => ArchiveIsFrozen
BY LeaguesStayFrozen, PartsBehave DEF ArchiveIsFrozen
===============================================================================
