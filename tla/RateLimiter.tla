---------------------------- MODULE RateLimiter ----------------------------
(***************************************************************************)
(* RateLimitMiddleware of one server process: a sliding window of request  *)
(* times for each client and request, and a counter of the calls in flight *)
(* for the event stream.  Its memory is its own: the other process admits  *)
(* as many again.                                                          *)
(*                                                                         *)
(* The logs of different keys do not meet, so one request of one client is *)
(* followed, whichever it is.  Time is a number of ticks.                  *)
(*                                                                         *)
(* Left out: the headers and the retry time of the answers; requests with  *)
(* a valid session token, which are not counted at all; the choice of the  *)
(* client's address among the proxy's headers.                             *)
(***************************************************************************)
EXTENDS Integers, SequencesExt

CONSTANTS
  Addresses,            \* client addresses
  Followed,             \* the requests that may be followed: <<route, method>>
  Limits,               \* the limit of each kind of rule
  Window,               \* its seconds, in ticks
  Connections,          \* calls of the event stream an address may have open
  MaxTime               \* bound: the last tick

ASSUME LimiterAssumption ==
  /\ Window \in Nat \ {0} /\ Connections \in Nat /\ MaxTime \in Nat
  /\ Limits \in [{"strict", "burst", "general", "health"} -> Nat \ {0}]

VARIABLES
  now,                  \* time.time()
  followed,             \* the request whose log is followed
  request_log,          \* _request_log of its key
  admitted,             \* history: the times at which it was let through
  connection_log        \* _connection_log: calls in flight by address

limiterVars == <<now, followed, request_log, admitted, connection_log>>

AuthRoutes == {"auth/request", "auth/verify"}
WriteRoutes == {"bounties", "claim", "submit", "approve", "reject", "dispute"}
OtherRoutes == {"agents", "terms", "cold-start"}

\* Routes below /api/v1, and all of them.
ApiRoutes == AuthRoutes \cup WriteRoutes \cup OtherRoutes \cup {"events"}
Routes == ApiRoutes \cup {"webhooks", "health"}

Methods == {"GET", "POST", "PUT"}

Rule(routes, methods, kind) ==
  [routes |-> routes, methods |-> methods, kind |-> kind]

MutantRules ==
  << Rule(Routes, {"POST"}, "general"),
     Rule(AuthRoutes, Methods, "strict"),
     Rule({"webhooks"} \cup WriteRoutes, {"POST"}, "burst"),
     Rule({"events"}, {"GET"}, "connections"),
     Rule({"health"}, {"GET"}, "health"),
     Rule(ApiRoutes, {"GET"}, "general") >>

\* In the order in which they are tried.
Rules ==
  << Rule(AuthRoutes, Methods, "strict"),
     Rule({"webhooks"} \cup WriteRoutes, {"POST"}, "burst"),
     Rule({"events"}, {"GET"}, "connections"),
     Rule({"health"}, {"GET"}, "health"),
     Rule(ApiRoutes, {"GET"}, "general"),
     Rule(Routes, {"POST"}, "general") >>

Matching(request) ==
  {i \in DOMAIN Rules : /\ request[1] \in Rules[i].routes
                        /\ request[2] \in Rules[i].methods}

\* The first match wins.
Matched(request) ==
  Rules[CHOOSE i \in Matching(request) : \A j \in Matching(request) : i <= j]

LimiterInit ==
  /\ now = 0
  /\ followed \in {r \in Followed : Matching(r) # {}}
  /\ request_log = <<>> /\ admitted = <<>>
  /\ connection_log = [a \in Addresses |-> 0]

\* _apply_sliding_window, under the lock.  The times are in the order in which
\* they were logged, so those that stay are the end of the log.
Staying == {i \in DOMAIN request_log : request_log[i] > now - Window}
Purged ==
  IF Staying = {} THEN <<>>
  ELSE SubSeq(request_log, Min(Staying), Len(request_log))

Request ==
  /\ Matched(followed).kind # "connections"
  /\ IF Len(Purged) >= Limits[Matched(followed).kind]
       THEN request_log' = Purged /\ UNCHANGED admitted
       ELSE /\ request_log' = Append(Purged, now)
            /\ admitted' = Append(admitted, now)
  /\ UNCHANGED <<now, followed, connection_log>>

\* A call of the event stream is counted until the endpoint has returned its
\* response, which is before the stream itself begins.
Enter(a) ==
  /\ connection_log[a] < Connections
  /\ connection_log' = [connection_log EXCEPT ![a] = @ + 1]
  /\ UNCHANGED <<now, followed, request_log, admitted>>

Leave(a) ==
  /\ connection_log' =
       [connection_log EXCEPT ![a] = IF @ > 0 THEN @ - 1 ELSE 0]
  /\ UNCHANGED <<now, followed, request_log, admitted>>

Tick ==
  /\ now < MaxTime /\ now' = now + 1
  /\ UNCHANGED <<followed, request_log, admitted, connection_log>>

-----------------------------------------------------------------------------
\* What the table of rules promises: an authentication request has the strict
\* limit whatever its method, a webhook or a write to a bounty the burst limit.
Promised(request) ==
  CASE request[1] \in AuthRoutes -> Limits["strict"]
    [] request[1] \in {"webhooks"} \cup WriteRoutes /\ request[2] = "POST" ->
         Limits["burst"]
    [] request[1] = "health" /\ request[2] = "GET" -> Limits["health"]
    [] OTHER -> Limits["general"]

\* In every window of time, wherever it begins, a client gets at most the
\* promised number of the same request through one process, although the log
\* is pruned and a refused request is not logged (_RULES,
\* _apply_sliding_window).
WindowRespected ==
  Matched(followed).kind # "connections" =>
  /\ \A i \in 1 .. Len(admitted) - Promised(followed) :
       admitted[i + Promised(followed)] - admitted[i] >= Window
  /\ Len(request_log) <= Promised(followed)
=============================================================================
