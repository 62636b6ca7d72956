------------------------------ MODULE Transport ------------------------------
(***************************************************************************)
(* One HTTP request: validation, the redirects followed by hand, the one   *)
(* deadline over the whole chain, and the bound on the body. What servers  *)
(* answer is arbitrary. A URL stands for what the code asks of it: its     *)
(* scheme, its origin, whether its host is loopback, whether it carries    *)
(* credentials or a fragment.                                              *)
(***************************************************************************)
EXTENDS Integers, FiniteSets

CONSTANTS
  URLs,            \* records with fields scheme, origin, path, loopback, clean
  RedirectLimit,   \* redirects that are followed
  BodyLimit,       \* bytes of the body that are accepted
  MaxBody          \* bound: bytes a server sends

ASSUME TransportAssumption ==
  /\ \A u \in URLs : u.scheme \in {"https", "http", "other"} /\ u.loopback \in BOOLEAN /\ u.clean \in BOOLEAN
  /\ RedirectLimit \in Nat /\ BodyLimit \in Nat \ {0} /\ MaxBody \in Nat

VARIABLE request   \* the request and how far it is

Methods == {"GET", "HEAD", "POST"}
Redirectable == {"GET", "HEAD"}

\* sensitive: the headers still hold authorization or cookies; home: the origin they were given for.
TransportInit ==
  request \in
    {[pc |-> "validate", method |-> m, url |-> u, home |-> u.origin, sensitive |-> s,
      visited |-> {u}, redirects |-> 0, sent |-> 0] : m \in Methods, u \in URLs, s \in BOOLEAN}

Change(change) ==
  request' = [f \in DOMAIN request |-> IF f \in DOMAIN change THEN change[f] ELSE request[f]]
Refuse == Change([pc |-> "error"])

----------------------------------------------------------------------------
(* Helpers *)

ValidInitial(u) == u.clean /\ (u.scheme = "https" \/ (u.scheme = "http" /\ u.loopback))

ValidRedirect(previous, next) ==
  /\ next.clean
  /\ ~(previous.scheme = "https" /\ next.scheme = "http")
  /\ next.scheme = "https" \/ (next.scheme = "http" /\ previous.loopback /\ next.loopback)

----------------------------------------------------------------------------
(* Actions *)

Validate ==
  /\ request.pc = "validate"
  /\ \/ ValidInitial(request.url) /\ Change([pc |-> "dispatch"])
     \/ ~ValidInitial(request.url) /\ Refuse

\* The request goes to the current URL with the current headers.
Dispatch ==
  /\ request.pc = "dispatch"
  /\ Change([pc |-> "answer", sent |-> request.sent + 1])

\* The connection fails, or the deadline of the whole chain has passed.
ConnectionFails ==
  /\ request.pc \in {"dispatch", "answer", "body"}
  /\ Refuse

\* Fault: the limit is tested one redirect too late.
RedirectAllowedOnceMore(next) ==
  /\ request.redirects <= RedirectLimit
  /\ ValidRedirect(request.url, next)
  /\ next \notin request.visited

\* Fault: URLs that were visited are not remembered.
RedirectAllowedAgain(next) ==
  /\ request.redirects < RedirectLimit
  /\ ValidRedirect(request.url, next)

\* A redirect status with a Location, for a method that follows it. The limit is tested
\* first, then the target, then whether it was visited.
RedirectAllowed(next) ==
  /\ request.redirects < RedirectLimit
  /\ ValidRedirect(request.url, next)
  /\ next \notin request.visited

\* Fault: the headers go along wherever the chain leads.
FollowWithHeaders(next) ==
  Change([pc |-> "dispatch", url |-> next, visited |-> request.visited \union {next},
          redirects |-> request.redirects + 1, sensitive |-> request.sensitive])

\* stripRedirectSensitive at every change of origin; what was stripped stays away.
Follow(next) ==
  Change([pc |-> "dispatch", url |-> next, visited |-> request.visited \union {next},
          redirects |-> request.redirects + 1,
          sensitive |-> request.sensitive /\ request.url.origin = next.origin])

Redirect ==
  /\ request.pc = "answer" /\ request.method \in Redirectable
  /\ \E next \in URLs :
       \/ RedirectAllowed(next) /\ Follow(next)
       \/ ~RedirectAllowed(next) /\ Refuse

\* Any other answer, a redirect without a Location and a redirected POST included.
Receive ==
  /\ request.pc = "answer"
  /\ Change([pc |-> "body"])

\* readResponse: the declared length is tested first, then one byte more than the limit is read.
ReadBody ==
  /\ request.pc = "body"
  /\ \E length \in 0..MaxBody, declared \in BOOLEAN :
       LET read == IF length > BodyLimit THEN BodyLimit + 1 ELSE length
       IN \/ (declared /\ length > BodyLimit) /\ Refuse
          \/ ~(declared /\ length > BodyLimit) /\ Change([pc |-> IF read > BodyLimit THEN "error" ELSE "done"])

TransportNext == Validate \/ Dispatch \/ ConnectionFails \/ Redirect \/ Receive \/ ReadBody

TransportSpec == TransportInit /\ [][TransportNext]_request

----------------------------------------------------------------------------
(* Properties *)

TransportTypeOK ==
  request \in [pc: {"validate", "dispatch", "answer", "body", "done", "error"}, method: Methods,
               url: URLs, home: {u.origin : u \in URLs}, sensitive: BOOLEAN, visited: SUBSET URLs,
               redirects: Nat, sent: Nat]

\* Authorization and cookies reach no origin but the one they were given for, however
\* the chain leaves it and returns to it, and no request of the chain leaves https but
\* between loopback hosts.
HeadersStayHome ==
  request.pc \in {"answer", "body", "done"} =>
    /\ request.sensitive => \A u \in request.visited : u.origin = request.home
    /\ request.url.scheme = "https" \/ \A u \in request.visited : u.scheme = "http" /\ u.loopback

\* A chain follows at most RedirectLimit redirects, so that it sends at most one request
\* more; it never sends two to one URL, and a POST is sent once.
ChainIsBounded ==
  /\ request.redirects <= RedirectLimit /\ request.sent <= RedirectLimit + 1
  /\ request.sent <= Cardinality(request.visited)
  /\ Cardinality(request.visited) = request.redirects + 1
  /\ request.method = "POST" => request.sent <= 1

\* Credentials stay with their origin, and a chain of redirects ends (http.go Execute).
ChainIsContained == HeadersStayHome /\ ChainIsBounded
=============================================================================
