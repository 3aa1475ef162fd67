---------------------------- MODULE ServerProofs ----------------------------
(***************************************************************************)
(* What MCStreams checks of one server process, for any streams, events,   *)
(* addresses and handlers, and for all times and limits that satisfy the   *)
(* named assumptions: the limiter, the broker, the token and the labels.   *)
(*                                                                         *)
(* WindowRespected: the logs are ends of what was let through, as long as  *)
(* they reach back to everything the window still counts (LimiterInv).     *)
(*                                                                         *)
(* OpenStreamsListed is nearly inductive: ListsInv adds where a call can   *)
(* be.  A walk is behind a queue or before it (Pending); a stream still    *)
(* before a walk has not got its event, one behind it that was there at    *)
(* the start has, unless a stream ended meanwhile (Told).                  *)
(*                                                                         *)
(* TokenOutlivesUpdate counts backwards: an update with n calls left,      *)
(* whose present call was sent at some time, has a token that is still     *)
(* good n - 1 calls later.  Nobody lets a call run for longer than         *)
(* CallTime (Punctual), so the next call, sent at the end of this one, has *)
(* lost no more than it is entitled to.                                    *)
(*                                                                         *)
(* CalmLabelsFollow: the labels and the calls an update has left amount,   *)
(* together, to the labels of the row it has written (CalmInv).            *)
(***************************************************************************)
EXTENDS GitHubLabels, SequenceTheorems, FiniteSetTheorems, TLAPS

-----------------------------------------------------------------------------
(* The limiter.                                                            *)

\* A set of naturals that is not empty has a least member.
LEMMA LeastOf ==
  ASSUME NEW S, S \subseteq Nat, S # {}
  PROVE  /\ Min(S) \in S
         /\ \A j \in S : Min(S) <= j
<1> DEFINE Less == {p \in Nat \X Nat : p[1] < p[2]}
<1>1. IsWellFoundedOn(Less, Nat)
  BY NatLessThanWellFounded DEF OpToRel
<1>2. PICK h \in S : \A j \in S : <<j, h>> \notin Less
  <2> HIDE DEF Less
  <2> QED
    BY <1>1, WFMin
<1>3. \A j \in S : h <= j
  <2> SUFFICES ASSUME NEW j \in S
               PROVE  h <= j
    OBVIOUS
  <2>1. j \in Nat /\ h \in Nat
    OBVIOUS
  <2>2. j < h => <<j, h>> \in Less
    BY <2>1
  <2> HIDE DEF Less
  <2> QED
    BY <1>2, <2>1, <2>2
<1> QED
  BY <1>3 DEF Min

\* Whatever the request, the first rule that matches it has the limit the table
\* promises for it (_RULES).
LEMMA LimitIsPromised ==
  ASSUME NEW r, Matching(r) # {}, Matched(r).kind # "connections"
  PROVE  /\ Limits[Matched(r).kind] = Promised(r)
         /\ Promised(r) \in Nat \ {0}
<1> DEFINE Hit(rule) == r[1] \in rule.routes /\ r[2] \in rule.methods
<1>1. /\ Rules[1] = Rule(AuthRoutes, Methods, "strict")
      /\ Rules[2] = Rule({"webhooks"} \cup WriteRoutes, {"POST"}, "burst")
      /\ Rules[3] = Rule({"events"}, {"GET"}, "connections")
      /\ Rules[4] = Rule({"health"}, {"GET"}, "health")
      /\ Rules[5] = Rule(ApiRoutes, {"GET"}, "general")
      /\ Rules[6] = Rule(Routes, {"POST"}, "general")
      /\ DOMAIN Rules = 1 .. 6
  BY DEF Rules
<1>2. \A routes, methods, kind :
        /\ Hit(Rule(routes, methods, kind)) <=> r[1] \in routes /\ r[2] \in methods
        /\ Rule(routes, methods, kind).kind = kind
  BY DEF Rule
<1>3. Matching(r) \subseteq 1 .. 6 /\ \A i \in 1 .. 6 : i \in Matching(r) <=> Hit(Rules[i])
  BY <1>1 DEF Matching
<1>4. PICK i \in Matching(r) : /\ \A j \in Matching(r) : i <= j
                               /\ Matched(r) = Rules[i]
  <2>1. \E i \in Matching(r) : \A j \in Matching(r) : i <= j
    BY <1>3, LeastOf
  <2> DEFINE first == CHOOSE i \in Matching(r) : \A j \in Matching(r) : i <= j
  <2>2. first \in Matching(r) /\ \A j \in Matching(r) : first <= j
    BY <2>1
  <2> QED
    BY <2>2 DEF Matched
<1>5. i \in {1, 2, 3, 4, 5, 6}
  BY <1>3
<1>6. /\ Limits["strict"] \in Nat \ {0} /\ Limits["burst"] \in Nat \ {0}
      /\ Limits["general"] \in Nat \ {0} /\ Limits["health"] \in Nat \ {0}
  BY LimiterAssumption
<1> HIDE DEF Hit
<1>7. CASE i = 1
  <2>1. r[1] \in AuthRoutes /\ Matched(r).kind = "strict"
    BY <1>1, <1>2, <1>3, <1>4, <1>7
  <2>2. r[1] \notin {"webhooks"} \cup WriteRoutes /\ r[1] # "health"
    BY <2>1 DEF AuthRoutes, WriteRoutes
  <2> QED
    BY <1>6, <2>1, <2>2 DEF Promised
<1>8. ASSUME i > 1
      PROVE  r[1] \in AuthRoutes => r[2] \notin Methods
  BY <1>1, <1>2, <1>3, <1>4, <1>8
<1>9. {"GET", "POST"} \subseteq Methods
  BY DEF Methods
<1>10. CASE i = 2
  BY <1>1, <1>2, <1>3, <1>4, <1>6, <1>8, <1>9, <1>10 DEF Promised
<1>11. CASE i = 3
  BY <1>1, <1>2, <1>4, <1>11
<1>12. CASE i = 4
  BY <1>1, <1>2, <1>3, <1>4, <1>6, <1>8, <1>9, <1>12 DEF Promised
<1>13. CASE i = 5
  <2>1. r[1] # "health"
    BY <1>1, <1>2, <1>3, <1>4, <1>13
  <2> QED
    BY <1>1, <1>2, <1>3, <1>4, <1>6, <1>8, <1>9, <1>13, <2>1 DEF Promised
<1>14. CASE i = 6
  <2>1. r[1] \notin {"webhooks"} \cup WriteRoutes
    BY <1>1, <1>2, <1>3, <1>4, <1>14
  <2> QED
    BY <1>1, <1>2, <1>3, <1>4, <1>6, <1>8, <1>9, <1>14, <2>1 DEF Promised
<1> QED
  BY <1>5, <1>7, <1>10, <1>11, <1>12, <1>13, <1>14

-----------------------------------------------------------------------------
Counted == Matched(followed).kind # "connections"
Limit == Promised(followed)

\* The log is the end of what was admitted, in the order of time; what has been
\* purged is out of the window; and the admissions are spaced.
LogIsEnd ==
  /\ request_log \in Seq(Nat) /\ admitted \in Seq(Nat)
  /\ Len(request_log) <= Len(admitted)
  /\ \A i \in 1 .. Len(request_log) :
       request_log[i] = admitted[Len(admitted) - Len(request_log) + i]
  /\ \A i \in 1 .. Len(admitted) - Len(request_log) : admitted[i] <= now - Window
  /\ \A i \in 1 .. Len(admitted) : admitted[i] <= now
  /\ \A i, j \in 1 .. Len(admitted) : i <= j => admitted[i] <= admitted[j]

LimiterInv ==
  /\ now \in Nat
  /\ Matching(followed) # {}
  /\ LogIsEnd
  /\ Counted =>
       /\ \A i \in 1 .. Len(admitted) - Limit :
            admitted[i + Limit] - admitted[i] >= Window
       /\ Len(request_log) <= Limit

\* What is purged is the beginning of the log, and all of it is old
\* (_apply_sliding_window).
LEMMA PurgedIsEnd ==
  ASSUME now \in Nat, LogIsEnd
  PROVE  /\ Purged \in Seq(Nat) /\ Len(Purged) <= Len(request_log)
         /\ \A i \in 1 .. Len(Purged) :
              Purged[i] = admitted[Len(admitted) - Len(Purged) + i]
         /\ \A i \in 1 .. Len(admitted) - Len(Purged) : admitted[i] <= now - Window
<1> DEFINE n == Len(admitted)
           l == Len(request_log)
<1>1. /\ n \in Nat /\ l \in Nat /\ l <= n
      /\ DOMAIN request_log = 1 .. l
      /\ \A i \in 1 .. l : request_log[i] \in Nat /\ request_log[i] = admitted[n - l + i]
      /\ \A i \in 1 .. n - l : admitted[i] <= now - Window
      /\ Window \in Nat
      /\ \A i \in 1 .. n : admitted[i] \in Nat
  <2>1. \A s \in Seq(Nat) : /\ Len(s) \in Nat /\ DOMAIN s = 1 .. Len(s)
                            /\ \A i \in 1 .. Len(s) : s[i] \in Nat
    OBVIOUS
  <2> QED
    BY <2>1, LimiterAssumption DEF LogIsEnd
<1> HIDE DEF n, l
<1>2. CASE Staying = {}
  <2>1. \A i \in 1 .. l : request_log[i] <= now - Window
    BY <1>1, <1>2 DEF Staying
  <2>2. ASSUME NEW i \in 1 .. n PROVE admitted[i] <= now - Window
    <3>1. CASE i <= n - l
      BY <1>1, <3>1
    <3>2. CASE i > n - l
      <4>1. i - (n - l) \in 1 .. l /\ n - l + (i - (n - l)) = i
        BY <1>1, <3>2
      <4> QED
        BY <1>1, <2>1, <4>1
    <3> QED
      BY <1>1, <3>1, <3>2
  <2>3. Purged = <<>> /\ Len(Purged) = 0 /\ Purged \in Seq(Nat)
    BY <1>2 DEF Purged
  <2>4. n - Len(Purged) = n /\ 1 .. Len(Purged) = {} /\ Len(Purged) <= l
    BY <1>1, <2>3
  <2> QED
    BY <2>2, <2>3, <2>4 DEF n, l
<1>3. CASE Staying # {}
  <2> DEFINE first == Min(Staying)
  <2>1. Staying \subseteq 1 .. l /\ Staying \subseteq Nat
    BY <1>1 DEF Staying
  <2>2. first \in Staying /\ \A j \in Staying : first <= j
    BY <1>3, <2>1, LeastOf
  <2>3. first \in 1 .. l
    BY <2>1, <2>2
  <2> HIDE DEF first
  <2>4. /\ Purged \in Seq(Nat) /\ Len(Purged) = l - first + 1
        /\ \A i \in 1 .. l - first + 1 : Purged[i] = request_log[first + i - 1]
    <3>1. \A i \in first .. l : request_log[i] \in Nat
      BY <1>1, <2>3
    <3>2. /\ SubSeq(request_log, first, l) \in Seq(Nat)
          /\ Len(SubSeq(request_log, first, l)) = l - first + 1
          /\ \A i \in 1 .. l - first + 1 :
               SubSeq(request_log, first, l)[i] = request_log[first + i - 1]
      <4>1. first \in Int /\ l \in Int /\ first <= l
        BY <1>1, <2>3
      <4> QED
        BY <3>1, <4>1, SubSeqProperties
    <3> QED
      BY <1>3, <3>2 DEF Purged, first, l
  <2>5. ASSUME NEW i \in 1 .. n - Len(Purged) PROVE admitted[i] <= now - Window
    <3>1. CASE i <= n - l
      BY <1>1, <2>3, <2>4, <3>1
    <3>2. CASE i > n - l
      <4> DEFINE j == i - (n - l)
      <4>1. j \in 1 .. l /\ n - l + j = i /\ j < first
        BY <1>1, <2>3, <2>4, <3>2
      <4> HIDE DEF j
      <4>2. j \notin Staying
        BY <2>2, <2>3, <4>1
      <4> QED
        <5>1. ~(request_log[j] > now - Window)
          BY <1>1, <4>1, <4>2 DEF Staying
        <5>2. request_log[j] = admitted[i] /\ request_log[j] \in Nat
          BY <1>1, <4>1
        <5> QED
          BY <1>1, <5>1, <5>2
    <3> QED
      BY <1>1, <2>3, <2>4, <3>1, <3>2
  <2>6. ASSUME NEW i \in 1 .. Len(Purged)
        PROVE  Purged[i] = admitted[n - Len(Purged) + i]
    <3>1. first + i - 1 \in 1 .. l
          /\ n - l + (first + i - 1) = n - Len(Purged) + i
      BY <1>1, <2>3, <2>4
    <3> QED
      BY <1>1, <2>4, <3>1
  <2>7. Len(Purged) <= l
    BY <1>1, <2>3, <2>4
  <2> QED
    BY <2>4, <2>5, <2>6, <2>7 DEF n, l
<1> QED
  BY <1>2, <1>3

\* Request keeps the invariant: what it admits is at least a window after the
\* admission Limit places earlier, which has been purged.
LEMMA RequestKeeps ==
  ASSUME LimiterInv, Request
  PROVE  LimiterInv'
<1> DEFINE n == Len(admitted)
           p == Len(Purged)
<1>1. /\ now \in Nat /\ now' = now /\ followed' = followed /\ Counted
      /\ admitted \in Seq(Nat) /\ n \in Nat /\ Window \in Nat
      /\ \A i \in 1 .. n : admitted[i] \in Nat /\ admitted[i] <= now
      /\ \A i, j \in 1 .. n : i <= j => admitted[i] <= admitted[j]
      /\ \A i \in 1 .. n - Limit : admitted[i + Limit] - admitted[i] >= Window
      /\ Len(request_log) <= Limit /\ Len(request_log) <= n
  BY LimiterAssumption DEF LimiterInv, LogIsEnd, Request, Counted
<1>2. /\ Purged \in Seq(Nat) /\ p \in Nat /\ p <= Len(request_log)
      /\ \A i \in 1 .. p : Purged[i] = admitted[n - p + i]
      /\ \A i \in 1 .. n - p : admitted[i] <= now - Window
  BY <1>1, PurgedIsEnd DEF LimiterInv
<1>3. Limits[Matched(followed).kind] = Limit /\ Limit \in Nat \ {0}
  BY <1>1, LimitIsPromised DEF LimiterInv, Counted, Limit
<1>4. Counted' /\ Limit' = Limit /\ Matching(followed') # {}
  BY <1>1 DEF Counted, Limit, LimiterInv
<1>5. p <= n /\ Len(request_log) \in Nat
  BY <1>1, <1>2 DEF LimiterInv, LogIsEnd
<1>6. CASE p >= Limit
  <2>1. request_log' = Purged /\ admitted' = admitted
    BY <1>3, <1>6 DEF Request
  <2>2. LogIsEnd'
    BY <1>1, <1>2, <1>5, <2>1 DEF LogIsEnd
  <2>3. Len(Purged) <= Limit
    BY <1>1, <1>2, <1>3, <1>5
  <2> QED
    BY <1>1, <1>4, <2>1, <2>2, <2>3 DEF LimiterInv
<1>7. CASE p < Limit
  <2>1. request_log' = Append(Purged, now) /\ admitted' = Append(admitted, now)
    BY <1>2, <1>3, <1>7 DEF Request
  <2>2. /\ request_log' \in Seq(Nat) /\ Len(request_log') = p + 1
        /\ \A i \in 1 .. p : request_log'[i] = Purged[i]
        /\ request_log'[p + 1] = now
    BY <1>1, <1>2, <2>1, AppendProperties
  <2>3. /\ admitted' \in Seq(Nat) /\ Len(admitted') = n + 1
        /\ \A i \in 1 .. n : admitted'[i] = admitted[i]
        /\ admitted'[n + 1] = now
    BY <1>1, <2>1, AppendProperties
  <2> HIDE DEF n, p
  <2>4. LogIsEnd'
    <3>1. Len(request_log') <= Len(admitted')
      BY <1>1, <1>2, <1>5, <2>2, <2>3
    <3>2. ASSUME NEW i \in 1 .. Len(request_log')
          PROVE  request_log'[i] = admitted'[Len(admitted') - Len(request_log') + i]
      <4>1. CASE i = p + 1
        BY <1>1, <1>2, <2>2, <2>3, <4>1
      <4>2. CASE i # p + 1
        <5>1. i \in 1 .. p
          BY <1>2, <2>2, <4>2
        <5>2. /\ n - p + i \in 1 .. n
              /\ Len(admitted') - Len(request_log') + i = n - p + i
          BY <1>1, <1>2, <1>5, <2>2, <2>3, <5>1
        <5> QED
          BY <1>2, <2>2, <2>3, <5>1, <5>2
      <4> QED
        BY <4>1, <4>2
    <3>3. \A i \in 1 .. Len(admitted') - Len(request_log') :
            admitted'[i] <= now' - Window'
      BY <1>1, <1>2, <1>5, <2>2, <2>3
    <3>4. ASSUME NEW i \in 1 .. Len(admitted') PROVE admitted'[i] <= now'
      BY <1>1, <2>3
    <3>5. ASSUME NEW i \in 1 .. Len(admitted'), NEW j \in 1 .. Len(admitted'), i <= j
          PROVE  admitted'[i] <= admitted'[j]
      <4>1. CASE j = n + 1
        BY <1>1, <2>3, <3>4, <4>1
      <4>2. CASE j # n + 1
        BY <1>1, <2>3, <3>5, <4>2
      <4> QED
        BY <4>1, <4>2
    <3> QED
      BY <2>2, <2>3, <3>1, <3>2, <3>3, <3>4, <3>5 DEF LogIsEnd
  <2>5. ASSUME NEW i \in 1 .. Len(admitted') - Limit
        PROVE  admitted'[i + Limit] - admitted'[i] >= Window
    <3>1. CASE i + Limit = n + 1
      <4>1. i \in 1 .. n - p /\ i \in 1 .. n
        BY <1>1, <1>2, <1>3, <1>5, <1>7, <3>1
      <4> QED
        BY <1>1, <1>2, <2>3, <3>1, <4>1
    <3>2. CASE i + Limit # n + 1
      <4>1. i \in 1 .. n - Limit /\ i \in 1 .. n /\ i + Limit \in 1 .. n
        BY <1>1, <1>3, <2>3, <3>2
      <4> QED
        BY <1>1, <2>3, <4>1
    <3> QED
      BY <3>1, <3>2
  <2>6. Len(request_log') <= Limit
    BY <1>2, <1>3, <1>7, <2>2
  <2> QED
    BY <1>1, <1>4, <2>4, <2>5, <2>6 DEF LimiterInv
<1> QED
  BY <1>2, <1>3, <1>6, <1>7

LEMMA LimiterInitially == Init => LimiterInv
<1> SUFFICES ASSUME Init PROVE LimiterInv
  OBVIOUS
<1>1. now = 0 /\ Matching(followed) # {} /\ request_log = <<>> /\ admitted = <<>>
  BY DEF Init, BrokerInit, LimiterInit
<1>2. <<>> \in Seq(Nat) /\ Len(<<>>) = 0
  OBVIOUS
<1>3. LogIsEnd
  BY <1>1, <1>2 DEF LogIsEnd
<1>4. ASSUME Counted PROVE Limit \in Nat
  BY <1>1, <1>4, LimitIsPromised DEF Counted, Limit
<1> QED
  BY <1>1, <1>2, <1>3, <1>4 DEF LimiterInv

\* What a step of Next does to the log and the clock.
LEMMA LimiterSteps ==
  ASSUME [Next]_vars
  PROVE  \/ Request
         \/ Tick
         \/ UNCHANGED <<now, followed, request_log, admitted>>
<1> USE DEF limiterVars, Enter, Leave
<1>1. CASE BrokerNext
  <2>1. ASSUME NEW s \in Streams,
               \/ \E a \in Addresses : Connect(s, a)
               \/ Respond(s) \/ Subscribe(s) \/ GoAway(s) \/ Unsubscribe(s)
        PROVE  UNCHANGED <<now, followed, request_log, admitted>>
    BY <2>1 DEF Connect, Respond, Subscribe, GoAway, Unsubscribe
  <2>2. ASSUME NEW e \in Events,
               PublishOnLoop(e) \/ BeginWalk(e) \/ PutNext(e) \/ NextAddress(e)
        PROVE  UNCHANGED <<now, followed, request_log, admitted>>
    BY <2>2 DEF PublishOnLoop, BeginWalk, PutNext, NextAddress
  <2>3. ASSUME CleanUp PROVE UNCHANGED <<now, followed, request_log, admitted>>
    BY <2>3 DEF CleanUp
  <2> QED
    BY <1>1, <2>1, <2>2, <2>3 DEF BrokerNext
<1>2. CASE LabelNext /\ UNCHANGED <<brokerVars, limiterVars>>
  BY <1>2
<1>3. CASE UNCHANGED vars
  BY <1>3 DEF vars
<1> QED
  BY <1>1, <1>2, <1>3 DEF Next

LEMMA LimiterInductive == LimiterInv /\ [Next]_vars => LimiterInv'
<1> SUFFICES ASSUME LimiterInv, [Next]_vars PROVE LimiterInv'
  OBVIOUS
<1>1. CASE Request
  BY <1>1, RequestKeeps
<1>2. CASE Tick
  <2>1. /\ now \in Nat /\ now' = now + 1 /\ Window \in Nat
        /\ UNCHANGED <<followed, request_log, admitted>>
    BY <1>2, LimiterAssumption DEF Tick, LimiterInv
  <2>2. Len(admitted) \in Nat /\ Len(request_log) \in Nat
        /\ \A i \in 1 .. Len(admitted) : admitted[i] \in Nat
    BY DEF LimiterInv, LogIsEnd
  <2>3. LogIsEnd'
    BY <2>1, <2>2 DEF LimiterInv, LogIsEnd
  <2> QED
    BY <2>1, <2>3 DEF LimiterInv, Counted, Limit
<1>3. CASE UNCHANGED <<now, followed, request_log, admitted>>
  BY <1>3 DEF LimiterInv, LogIsEnd, Counted, Limit
<1> QED
  BY <1>1, <1>2, <1>3, LimiterSteps

\* For every limit and window, a client gets at most the promised number of the
\* same request in any window of time, wherever the window begins (_RULES,
\* _apply_sliding_window).
THEOREM WindowAlwaysRespected == Spec => []WindowRespected
<1>1. LimiterInv => WindowRespected
  BY DEF LimiterInv, WindowRespected, Counted, Limit
<1> QED
  BY <1>1, LimiterInitially, LimiterInductive, PTL DEF Spec

-----------------------------------------------------------------------------
(* The broker.                                                             *)

\* The calls of an address that the limiter counts.
InFlight(a) == {s \in Streams : stream[s].at = "called" /\ stream[s].address = a}

CallPlaces == {"called", "responded", "subscribed", "abandoned", "gone"}

\* The lists of the broker hold the open streams, the limiter counts the calls
\* in flight.
ListsInv ==
  /\ DOMAIN listeners \subseteq Addresses
  /\ listeners = [a \in DOMAIN listeners |-> listeners[a]]
  /\ DOMAIN registered_at = DOMAIN listeners
  /\ \A a \in DOMAIN listeners :
       /\ listeners[a] \in Seq(Streams) /\ listeners[a] # <<>>
       /\ Len(listeners[a]) <= MaxPerAddress
       /\ IsInjective(listeners[a])
  /\ stream \in [Streams -> [at : {"new"}] \cup [at : CallPlaces, address : Addresses]]
  /\ \A s \in Streams, a \in Addresses :
       s \in Range(Queues(a)) <=> Open(s) /\ stream[s].address = a

CountInv ==
  /\ connection_log = [a \in Addresses |-> connection_log[a]]
  /\ \A a \in Addresses :
       IsFiniteSet(InFlight(a)) /\ connection_log[a] = Cardinality(InFlight(a))

\* The walk of e has the queue of s still before it.
Pending(e, s) ==
  \E a \in DOMAIN listeners : \E i \in 1 .. Len(listeners[a]) :
    /\ listeners[a][i] = s
    /\ \/ a \notin publication[e].visited
       \/ publication[e].address = <<a>> /\ publication[e].index <= i

Fields == {"at", "size", "visited", "address", "index", "start", "calm"}

\* A walk stands in a list it has visited.
WellFormed(walk) ==
  /\ DOMAIN walk = Fields /\ walk.at = "walking"
  /\ walk.visited \subseteq DOMAIN listeners
  /\ walk.address = <<>> \/ \E a \in walk.visited : walk.address = <<a>>
  /\ walk.index \in Nat \ {0} /\ walk.calm \in BOOLEAN
  /\ walk.start \subseteq Streams

\* The queue of s holds an event once, and none before s listens.
Received(s) ==
  /\ received[s] \in Seq(Events) /\ IsInjective(received[s])
  /\ stream[s].at \in {"new", "called", "responded"} => received[s] = <<>>

\* How far the publication of e is with the stream s.
Told(e, s) ==
  /\ publication[e] = Unstarted => e \notin Range(received[s])
  /\ Walking(e) /\ Pending(e, s) => e \notin Range(received[s])
  /\ Walking(e) /\ publication[e].calm /\ s \in publication[e].start =>
       Pending(e, s) \/ e \in Range(received[s])
  /\ publication[e].at = "done" /\ s \in publication[e].witnesses =>
       e \in Range(received[s])

WalkInv ==
  /\ publication = [e \in Events |-> publication[e]]
  /\ \A e \in Events : Walking(e) => WellFormed(publication[e])
  /\ received = [s \in Streams |-> received[s]]
  /\ \A s \in Streams : Received(s)
  /\ \A e \in Events, s \in Streams : Told(e, s)

-----------------------------------------------------------------------------
(* Lists without repetition.                                               *)

LEMMA RangeOfList ==
  ASSUME NEW T, NEW q \in Seq(T)
  PROVE  /\ \A x : x \in Range(q) <=> \E i \in 1 .. Len(q) : q[i] = x
         /\ Range(q) \subseteq T
         /\ IsInjective(q) <=> \A i, j \in 1 .. Len(q) : q[i] = q[j] => i = j
         /\ Len(q) \in Nat /\ (q = <<>> <=> Len(q) = 0)
BY DEF Range, IsInjective

LEMMA AppendedList ==
  ASSUME NEW T, NEW q \in Seq(T), NEW x \in T
  PROVE  /\ Append(q, x) \in Seq(T) /\ Len(Append(q, x)) = Len(q) + 1
         /\ \A i \in 1 .. Len(q) : Append(q, x)[i] = q[i]
         /\ Append(q, x)[Len(q) + 1] = x
         /\ Range(Append(q, x)) = Range(q) \cup {x}
         /\ IsInjective(q) /\ x \notin Range(q) => IsInjective(Append(q, x))
<1> DEFINE r == Append(q, x)
           n == Len(q)
<1>1. /\ r \in Seq(T) /\ Len(r) = n + 1 /\ r[n + 1] = x /\ n \in Nat
      /\ \A i \in 1 .. n : r[i] = q[i]
  BY AppendProperties
<1>2. /\ \A y : y \in Range(q) <=> \E i \in 1 .. n : q[i] = y
      /\ IsInjective(q) <=> \A i, j \in 1 .. n : q[i] = q[j] => i = j
  BY RangeOfList
<1> HIDE DEF r
<1>3. /\ \A y : y \in Range(r) <=> \E i \in 1 .. n + 1 : r[i] = y
      /\ IsInjective(r) <=> \A i, j \in 1 .. n + 1 : r[i] = r[j] => i = j
  BY <1>1, RangeOfList
<1> HIDE DEF n
<1>4. \A i \in 1 .. n + 1 : i \in 1 .. n \/ i = n + 1
  BY <1>1
<1>5. 1 .. n \subseteq 1 .. n + 1 /\ n + 1 \in 1 .. n + 1
  BY <1>1
<1>6. Range(r) = Range(q) \cup {x}
  BY <1>1, <1>2, <1>3, <1>4, <1>5
<1>7. ASSUME IsInjective(q), x \notin Range(q) PROVE IsInjective(r)
  BY <1>1, <1>2, <1>3, <1>7, <1>4
<1> QED
  BY <1>1, <1>6, <1>7 DEF r, n

\* list.remove: the elements before the first x stay where they are, the others
\* move up.
LEMMA RemovedList ==
  ASSUME NEW T, NEW q \in Seq(T), IsInjective(q), NEW x \in Range(q)
  PROVE  /\ RemoveFirst(q, x) \in Seq(T)
         /\ Len(RemoveFirst(q, x)) = Len(q) - 1
         /\ IsInjective(RemoveFirst(q, x))
         /\ Range(RemoveFirst(q, x)) = Range(q) \ {x}
         /\ \A i \in 1 .. Len(q) - 1 :
              RemoveFirst(q, x)[i] = q[i] \/ RemoveFirst(q, x)[i] = q[i + 1]
<1> DEFINE n == Len(q)
           I == {i \in 1 .. n : q[i] = x}
           k == Min(I)
           r == RemoveFirst(q, x)
<1>1. /\ n \in Nat
      /\ \A y : y \in Range(q) <=> \E i \in 1 .. n : q[i] = y
      /\ \A i, j \in 1 .. n : q[i] = q[j] => i = j
      /\ \A i \in 1 .. n : q[i] \in T
  BY RangeOfList
<1>2. k \in 1 .. n /\ q[k] = x
  <2>1. I \subseteq Nat /\ I # {}
    BY <1>1
  <2> HIDE DEF I
  <2>2. k \in I
    BY <2>1, LeastOf
  <2> QED
    BY <2>2 DEF I
<1>3. r = SubSeq(q, 1, k - 1) \o SubSeq(q, k + 1, n)
  <2>1. I # {} /\ \E i \in 1 .. Len(q) : q[i] = x
    BY <1>1
  <2>2. SelectInSeq(q, LAMBDA v : v = x) = k
    BY <2>1 DEF SelectInSeq
  <2>3. r = RemoveAt(q, SelectInSeq(q, LAMBDA v : v = x))
    BY <2>1 DEF RemoveFirst
  <2> QED
    BY <2>2, <2>3 DEF RemoveAt
<1> HIDE DEF k, r, n
<1> DEFINE one == SubSeq(q, 1, k - 1)
           two == SubSeq(q, k + 1, n)
<1>4. /\ one \in Seq(T) /\ Len(one) = k - 1
      /\ \A i \in 1 .. k - 1 : one[i] = q[i]
  <2>1. 1 \in Int /\ k - 1 \in Int /\ \A i \in 1 .. k - 1 : q[i] \in T
    BY <1>1, <1>2
  <2>2. /\ one \in Seq(T)
        /\ Len(one) = IF 1 <= k - 1 THEN k - 1 - 1 + 1 ELSE 0
        /\ \A i \in 1 .. k - 1 - 1 + 1 : one[i] = q[1 + i - 1]
    BY <2>1, SubSeqProperties
  <2> HIDE DEF one
  <2> QED
    BY <1>1, <1>2, <2>2
<1>5. /\ two \in Seq(T) /\ Len(two) = n - k
      /\ \A i \in 1 .. n - k : two[i] = q[k + i]
  <2>1. k + 1 \in Int /\ n \in Int /\ \A i \in k + 1 .. n : q[i] \in T
    BY <1>1, <1>2
  <2>2. /\ two \in Seq(T)
        /\ Len(two) = IF k + 1 <= n THEN n - (k + 1) + 1 ELSE 0
        /\ \A i \in 1 .. n - (k + 1) + 1 : two[i] = q[k + 1 + i - 1]
    BY <2>1, SubSeqProperties
  <2> HIDE DEF two
  <2> QED
    BY <1>1, <1>2, <2>2
<1>6. \A s, t \in Seq(T) :
        /\ s \o t \in Seq(T) /\ Len(s \o t) = Len(s) + Len(t)
        /\ \A i \in 1 .. Len(s) : (s \o t)[i] = s[i]
        /\ \A i \in 1 .. Len(t) : (s \o t)[Len(s) + i] = t[i]
  OBVIOUS
<1> HIDE DEF one, two
<1>7. /\ r \in Seq(T) /\ Len(r) = n - 1
      /\ \A i \in 1 .. k - 1 : r[i] = q[i]
      /\ \A i \in 1 .. n - k : r[k - 1 + i] = q[k + i]
  <2>1. r = one \o two
    BY <1>3 DEF one, two
  <2>2. /\ r \in Seq(T) /\ Len(r) = Len(one) + Len(two)
        /\ \A i \in 1 .. Len(one) : r[i] = one[i]
        /\ \A i \in 1 .. Len(two) : r[Len(one) + i] = two[i]
    BY <1>6, <1>4, <1>5, <2>1
  <2>3. ASSUME NEW i \in 1 .. n - k PROVE r[k - 1 + i] = q[k + i]
    BY <1>1, <1>2, <1>4, <1>5, <2>2
  <2>4. Len(r) = n - 1
    BY <1>1, <1>2, <1>4, <1>5, <2>2
  <2>5. ASSUME NEW i \in 1 .. k - 1 PROVE r[i] = q[i]
    BY <1>4, <2>2
  <2> QED
    BY <2>2, <2>3, <2>4, <2>5
<1>8. \A i \in 1 .. n - 1 : r[i] = IF i < k THEN q[i] ELSE q[i + 1]
  <2> SUFFICES ASSUME NEW i \in 1 .. n - 1
               PROVE  r[i] = IF i < k THEN q[i] ELSE q[i + 1]
    OBVIOUS
  <2>1. CASE i < k
    BY <1>1, <1>2, <1>7, <2>1
  <2>2. CASE i >= k
    <3>1. i - k + 1 \in 1 .. n - k /\ k - 1 + (i - k + 1) = i /\ k + (i - k + 1) = i + 1
      BY <1>1, <1>2, <2>2
    <3>2. r[k - 1 + (i - k + 1)] = q[k + (i - k + 1)]
      BY <1>7, <3>1
    <3> QED
      BY <1>1, <1>2, <2>2, <3>1, <3>2
  <2> QED
    BY <1>1, <1>2, <2>1, <2>2
<1>9. /\ \A y : y \in Range(r) <=> \E i \in 1 .. n - 1 : r[i] = y
      /\ IsInjective(r) <=> \A i, j \in 1 .. n - 1 : r[i] = r[j] => i = j
  BY <1>7, RangeOfList
<1>10. IsInjective(r)
  <2> SUFFICES ASSUME NEW i \in 1 .. n - 1, NEW j \in 1 .. n - 1, r[i] = r[j]
               PROVE  i = j
    BY <1>9
  <2> DEFINE At(m) == IF m < k THEN m ELSE m + 1
  <2>1. /\ At(i) \in 1 .. n /\ r[i] = q[At(i)]
        /\ At(j) \in 1 .. n /\ r[j] = q[At(j)]
    BY <1>1, <1>2, <1>8
  <2>2. At(i) = At(j)
    BY <1>1, <2>1
  <2> QED
    BY <1>1, <1>2, <2>2
<1>11. Range(r) = Range(q) \ {x}
  <2>1. ASSUME NEW y \in Range(r) PROVE y \in Range(q) \ {x}
    <3>1. PICK i \in 1 .. n - 1 : r[i] = y
      BY <1>9
    <3> DEFINE m == IF i < k THEN i ELSE i + 1
    <3>2. m \in 1 .. n /\ m # k /\ y = q[m]
      BY <1>1, <1>2, <1>8, <3>1
    <3> HIDE DEF m
    <3> QED
      BY <1>1, <1>2, <3>2
  <2>2. ASSUME NEW y \in Range(q), y # x PROVE y \in Range(r)
    <3>1. PICK i \in 1 .. n : q[i] = y
      BY <1>1
    <3>2. i # k
      BY <1>2, <2>2, <3>1
    <3> DEFINE m == IF i < k THEN i ELSE i - 1
    <3>3. m \in 1 .. n - 1 /\ r[m] = y
      BY <1>1, <1>2, <1>8, <3>1, <3>2
    <3> HIDE DEF m
    <3> QED
      BY <1>9, <3>3
  <2> QED
    BY <2>1, <2>2
<1> QED
  BY <1>7, <1>8, <1>10, <1>11 DEF n, r

-----------------------------------------------------------------------------
(* The lists.                                                              *)

Calls == [at : {"new"}] \cup [at : CallPlaces, address : Addresses]

\* A call that goes on stays a call of its address.
LEMMA GoToKeeps ==
  ASSUME stream \in [Streams -> Calls], NEW s \in Streams, stream[s].at # "new",
         NEW place \in CallPlaces, GoTo(s, place)
  PROVE  /\ stream' \in [Streams -> Calls]
         /\ stream'[s].at = place /\ stream'[s].address = stream[s].address
         /\ stream[s].address \in Addresses
         /\ \A t \in Streams : t # s => stream'[t] = stream[t]
<1>1. stream[s] \in [at : CallPlaces, address : Addresses]
  BY DEF Calls
<1> DEFINE c == [stream[s] EXCEPT !.at = place]
<1>2. /\ c \in [at : CallPlaces, address : Addresses]
      /\ c.at = place /\ c.address = stream[s].address
  BY <1>1
<1>3. stream' = [stream EXCEPT ![s] = c]
  BY DEF GoTo
<1> HIDE DEF c
<1> QED
  BY <1>1, <1>2, <1>3 DEF Calls

\* Steps that leave the lists alone and open or end no stream.
LEMMA ListsFrame ==
  ASSUME ListsInv, UNCHANGED <<listeners, registered_at>>,
         stream' \in [Streams -> Calls],
         \A s \in Streams : /\ Open(s)' <=> Open(s)
                            /\ Open(s) => stream'[s].address = stream[s].address
  PROVE  ListsInv'
<1>1. \A a : Queues(a)' = Queues(a)
  BY DEF Queues
<1> QED
  BY <1>1 DEF ListsInv, Calls

LEMMA QueuesOf ==
  ASSUME ListsInv, NEW a \in Addresses
  PROVE  /\ Queues(a) \in Seq(Streams) /\ IsInjective(Queues(a))
         /\ Len(Queues(a)) <= MaxPerAddress
         /\ a \in DOMAIN listeners => Queues(a) = listeners[a]
         /\ a \notin DOMAIN listeners => Queues(a) = <<>>
<1>1. <<>> \in Seq(Streams) /\ IsInjective(<<>>) /\ Len(<<>>) <= MaxPerAddress
  BY BrokerAssumption DEF IsInjective
<1> QED
  BY <1>1 DEF Queues, ListsInv

LEMMA SubscribeLists ==
  ASSUME ListsInv, NEW s \in Streams, Subscribe(s)
  PROVE  ListsInv'
<1> PICK a : a = stream[s].address
  OBVIOUS
<1>1. stream \in [Streams -> Calls] /\ stream[s].at = "responded"
  BY DEF ListsInv, Calls, Subscribe
<1>2. /\ a \in Addresses /\ ~Open(s)
      /\ "gone" \in CallPlaces /\ "subscribed" \in CallPlaces
  BY <1>1 DEF Calls, Open, CallPlaces
<1>3. CASE Len(Queues(a)) >= MaxPerAddress
  <2>1. GoTo(s, "gone") /\ UNCHANGED <<listeners, registered_at>>
    BY <1>3 DEF Subscribe
  <2>2. /\ stream' \in [Streams -> Calls] /\ stream'[s].at = "gone"
        /\ \A t \in Streams : t # s => stream'[t] = stream[t]
    BY <1>1, <1>2, <2>1, GoToKeeps
  <2> QED
    BY <1>2, <2>1, <2>2, ListsFrame DEF Open
<1>4. CASE ~(Len(Queues(a)) >= MaxPerAddress)
  <2>1. /\ listeners' = WithQueue(a, s)
        /\ registered_at' = IF a \in DOMAIN listeners THEN registered_at
                            ELSE With(registered_at, a, now)
        /\ GoTo(s, "subscribed")
    BY <1>4 DEF Subscribe
  <2>2. /\ stream' \in [Streams -> Calls] /\ stream'[s].at = "subscribed"
        /\ stream'[s].address = a
        /\ \A t \in Streams : t # s => stream'[t] = stream[t]
    BY <1>1, <1>2, <2>1, GoToKeeps
  <2>3. /\ Queues(a) \in Seq(Streams) /\ IsInjective(Queues(a))
        /\ Len(Queues(a)) < MaxPerAddress
    BY <1>2, <1>4, QueuesOf, BrokerAssumption, LenProperties
  <2>4. s \notin Range(Queues(a))
    BY <1>2 DEF ListsInv
  <2> DEFINE q == Append(Queues(a), s)
  <2>5. /\ q \in Seq(Streams) /\ IsInjective(q) /\ Len(q) <= MaxPerAddress
        /\ Range(q) = Range(Queues(a)) \cup {s} /\ q # <<>>
    <3>1. /\ q \in Seq(Streams) /\ Len(q) = Len(Queues(a)) + 1 /\ IsInjective(q)
          /\ Range(q) = Range(Queues(a)) \cup {s}
      BY <2>3, <2>4, AppendedList
    <3>2. Len(Queues(a)) \in Nat /\ Len(q) # 0
      BY <2>3, <3>1
    <3> HIDE DEF q
    <3> QED
      BY <2>3, <3>1, <3>2, BrokerAssumption
  <2> HIDE DEF q
  <2>6. /\ DOMAIN listeners' = DOMAIN listeners \cup {a}
        /\ listeners' = [b \in DOMAIN listeners' |-> listeners'[b]]
        /\ listeners'[a] = q
        /\ \A b \in DOMAIN listeners : b # a => listeners'[b] = listeners[b]
    BY <2>1 DEF q, WithQueue, With
  <2>7. DOMAIN registered_at' = DOMAIN listeners'
    BY <2>1, <2>6 DEF ListsInv, With
  <2>8. Queues(a)' = q /\ \A b : b # a => Queues(b)' = Queues(b)
    BY <2>6 DEF Queues
  <2>9. ASSUME NEW t \in Streams, NEW b \in Addresses
        PROVE  t \in Range(Queues(b)') <=> Open(t)' /\ stream'[t].address = b
    <3>1. t \in Range(Queues(b)) <=> Open(t) /\ stream[t].address = b
      BY DEF ListsInv
    <3>2. CASE t = s
      BY <1>2, <2>2, <2>5, <2>8, <3>1, <3>2 DEF Open
    <3>3. CASE t # s
      BY <2>2, <2>5, <2>8, <3>1, <3>3 DEF Open
    <3> QED
      BY <3>2, <3>3
  <2>10. \A b \in DOMAIN listeners' :
          /\ listeners'[b] \in Seq(Streams) /\ listeners'[b] # <<>>
          /\ Len(listeners'[b]) <= MaxPerAddress /\ IsInjective(listeners'[b])
    BY <2>5, <2>6 DEF ListsInv
  <2>11. DOMAIN listeners' \subseteq Addresses
    BY <1>2, <2>6 DEF ListsInv
  <2> QED
    BY <2>2, <2>6, <2>7, <2>9, <2>10, <2>11 DEF ListsInv, Calls
<1> QED
  BY <1>3, <1>4

\* The table after a stream has ended (the finally of subscribe).
LEMMA LeftTable ==
  ASSUME ListsInv, NEW s \in Streams, Open(s)
  PROVE  LET a == stream[s].address
             q == listeners[a]
             rest == RemoveFirst(q, s)
         IN  /\ a \in DOMAIN listeners /\ a \in Addresses
             /\ s \in Range(q) /\ q \in Seq(Streams) /\ IsInjective(q)
             /\ Len(q) = 1 =>
                  /\ Left(a, s) = [b \in DOMAIN listeners \ {a} |-> listeners[b]]
                  /\ Range(q) = {s}
             /\ Len(q) # 1 =>
                  /\ Left(a, s) = [b \in DOMAIN listeners |->
                                     IF b = a THEN rest ELSE listeners[b]]
                  /\ rest \in Seq(Streams) /\ rest # <<>>
                  /\ Len(rest) = Len(q) - 1 /\ Len(q) \in Nat
                  /\ IsInjective(rest) /\ Range(rest) = Range(q) \ {s}
<1> DEFINE a == stream[s].address
           q == listeners[a]
           rest == RemoveFirst(q, s)
<1>1. a \in Addresses
  BY DEF ListsInv, Open, CallPlaces
<1>2. s \in Range(Queues(a))
  BY <1>1 DEF ListsInv
<1>3. a \in DOMAIN listeners /\ Queues(a) = q
  <2>1. Range(<<>>) = {}
    BY DEF Range
  <2> QED
    BY <1>2, <2>1 DEF Queues
<1>4. q \in Seq(Streams) /\ IsInjective(q) /\ s \in Range(q)
  BY <1>2, <1>3 DEF ListsInv
<1> HIDE DEF a, q
<1>5. ASSUME Len(q) = 1 PROVE Range(q) = {s}
  <2>1. \A x : x \in Range(q) <=> \E i \in 1 .. 1 : q[i] = x
    BY <1>4, <1>5, RangeOfList
  <2> QED
    BY <1>4, <2>1
<1>6. ASSUME Len(q) # 1
      PROVE  /\ rest \in Seq(Streams) /\ rest # <<>>
             /\ Len(rest) = Len(q) - 1 /\ Len(q) \in Nat
             /\ IsInjective(rest) /\ Range(rest) = Range(q) \ {s}
  <2>1. /\ rest \in Seq(Streams) /\ Len(rest) = Len(q) - 1
        /\ IsInjective(rest) /\ Range(rest) = Range(q) \ {s}
    BY <1>4, RemovedList
  <2>2. Len(q) \in Nat
    BY <1>4, RangeOfList
  <2> HIDE DEF rest
  <2> QED
    BY <1>6, <2>1, <2>2
<1>7. Len(q) = 1 => Left(a, s) = [b \in DOMAIN listeners \ {a} |-> listeners[b]]
  BY DEF Left, Without, q
<1>8. Len(q) # 1 => Left(a, s) = [b \in DOMAIN listeners |->
                                    IF b = a THEN rest ELSE listeners[b]]
  BY <1>3 DEF Left, q, ListsInv
<1> QED
  BY <1>1, <1>3, <1>4, <1>5, <1>6, <1>7, <1>8 DEF a, q

LEMMA UnsubscribeLists ==
  ASSUME ListsInv, NEW s \in Streams, Unsubscribe(s)
  PROVE  ListsInv'
<1> PICK a : a = stream[s].address
  OBVIOUS
<1> PICK q : q = listeners[a]
  OBVIOUS
<1> PICK rest : rest = RemoveFirst(q, s)
  OBVIOUS
<1>1. /\ Open(s) /\ stream \in [Streams -> Calls] /\ stream[s].at # "new"
      /\ listeners' = Left(a, s)
      /\ registered_at' = IF a \in DOMAIN listeners' THEN registered_at
                          ELSE Without(registered_at, a)
      /\ GoTo(s, "gone")
  BY DEF Unsubscribe, Open, ListsInv, Calls
<1>2. /\ stream' \in [Streams -> Calls] /\ stream'[s].at = "gone"
      /\ \A t \in Streams : t # s => stream'[t] = stream[t]
  BY <1>1, GoToKeeps DEF CallPlaces
<1>3. /\ a \in DOMAIN listeners /\ a \in Addresses /\ s \in Range(q)
      /\ Len(q) = 1 =>
           /\ Left(a, s) = [b \in DOMAIN listeners \ {a} |-> listeners[b]]
           /\ Range(q) = {s}
      /\ Len(q) # 1 =>
           /\ Left(a, s) = [b \in DOMAIN listeners |->
                              IF b = a THEN rest ELSE listeners[b]]
           /\ rest \in Seq(Streams) /\ rest # <<>>
           /\ Len(rest) = Len(q) - 1 /\ Len(q) \in Nat
           /\ IsInjective(rest) /\ Range(rest) = Range(q) \ {s}
  BY <1>1, LeftTable
<1>4. \A t \in Streams, b \in Addresses :
        t \in Range(Queues(b)) <=> Open(t) /\ stream[t].address = b
  BY DEF ListsInv
<1>5. Queues(a) = q /\ Len(q) <= MaxPerAddress
  BY <1>3 DEF Queues, ListsInv
<1>6. ~Open(s)' /\ \A t \in Streams : t # s => (Open(t)' <=> Open(t))
  BY <1>2 DEF Open
<1>7. CASE Len(q) = 1
  <2>1. /\ DOMAIN listeners' = DOMAIN listeners \ {a}
        /\ listeners' = [b \in DOMAIN listeners' |-> listeners'[b]]
        /\ \A b \in DOMAIN listeners : b # a => listeners'[b] = listeners[b]
    BY <1>1, <1>3, <1>7
  <2>2. DOMAIN registered_at' = DOMAIN listeners'
    BY <1>1, <2>1 DEF ListsInv, Without
  <2>3. Queues(a)' = <<>> /\ \A b : b # a => Queues(b)' = Queues(b)
    BY <2>1 DEF Queues
  <2>4. Range(<<>>) = {}
    BY DEF Range
  <2>5. ASSUME NEW t \in Streams, NEW b \in Addresses
        PROVE  t \in Range(Queues(b)') <=> Open(t)' /\ stream'[t].address = b
    <3>1. CASE t = s
      BY <1>1, <1>4, <1>6, <2>3, <2>4, <3>1
    <3>2. CASE t # s /\ b = a
      BY <1>2, <1>3, <1>4, <1>5, <1>6, <1>7, <2>3, <2>4, <3>2
    <3>3. CASE t # s /\ b # a
      BY <1>2, <1>4, <1>6, <2>3, <3>3
    <3> QED
      BY <3>1, <3>2, <3>3
  <2> QED
    BY <1>2, <2>1, <2>2, <2>5 DEF ListsInv, Calls
<1>8. CASE Len(q) # 1
  <2>1. /\ DOMAIN listeners' = DOMAIN listeners
        /\ listeners' = [b \in DOMAIN listeners' |-> listeners'[b]]
        /\ listeners'[a] = rest
        /\ \A b \in DOMAIN listeners : b # a => listeners'[b] = listeners[b]
    BY <1>1, <1>3, <1>8
  <2>2. DOMAIN registered_at' = DOMAIN listeners'
    BY <1>1, <1>3, <2>1 DEF ListsInv
  <2>3. Queues(a)' = rest /\ \A b : b # a => Queues(b)' = Queues(b)
    BY <1>3, <2>1 DEF Queues
  <2>4. ASSUME NEW t \in Streams, NEW b \in Addresses
        PROVE  t \in Range(Queues(b)') <=> Open(t)' /\ stream'[t].address = b
    <3>1. CASE t = s
      BY <1>1, <1>3, <1>4, <1>6, <1>8, <2>3, <3>1
    <3>2. CASE t # s /\ b = a
      BY <1>2, <1>3, <1>4, <1>5, <1>6, <1>8, <2>3, <3>2
    <3>3. CASE t # s /\ b # a
      BY <1>2, <1>4, <1>6, <2>3, <3>3
    <3> QED
      BY <3>1, <3>2, <3>3
  <2>5. Len(rest) <= MaxPerAddress
    BY <1>3, <1>5, <1>8, BrokerAssumption
  <2>6. \A b \in DOMAIN listeners' :
          /\ listeners'[b] \in Seq(Streams) /\ listeners'[b] # <<>>
          /\ Len(listeners'[b]) <= MaxPerAddress /\ IsInjective(listeners'[b])
    BY <1>3, <1>8, <2>1, <2>5 DEF ListsInv
  <2> QED
    BY <1>2, <2>1, <2>2, <2>4, <2>6 DEF ListsInv, Calls
<1> QED
  BY <1>7, <1>8

\* No list is empty, so the clean-up finds nothing.
LEMMA CleanUpFindsNothing ==
  ASSUME ListsInv, CleanUp
  PROVE  /\ listeners' = listeners
         /\ DOMAIN registered_at' = DOMAIN registered_at
<1> DEFINE kept == {a \in DOMAIN listeners : \/ now - registered_at[a] <= StaleTimeout
                                            \/ listeners[a] # <<>>}
<1>1. kept = DOMAIN listeners
  BY DEF ListsInv
<1>2. /\ listeners' = [a \in kept |-> listeners[a]]
      /\ registered_at' = [a \in kept |-> registered_at[a]]
  BY DEF CleanUp
<1> QED
  BY <1>1, <1>2 DEF ListsInv

LEMMA ListsInitially == Init => ListsInv
<1> SUFFICES ASSUME Init PROVE ListsInv
  OBVIOUS
<1>1. /\ listeners = <<>> /\ registered_at = <<>>
      /\ stream = [s \in Streams |-> [at |-> "new"]]
  BY DEF Init, BrokerInit
<1>2. DOMAIN <<>> = {} /\ Range(<<>>) = {} /\ <<>> = [a \in {} |-> <<>>[a]]
  BY DEF Range
<1>3. \A a : Queues(a) = <<>>
  BY <1>1, <1>2 DEF Queues
<1>4. \A s \in Streams : ~Open(s)
  BY <1>1 DEF Open
<1>5. stream \in [Streams -> Calls]
  BY <1>1 DEF Calls
<1> QED
  BY <1>1, <1>2, <1>3, <1>4, <1>5 DEF ListsInv, Calls

\* What a step of Next does to lists and streams.
LEMMA BrokerSteps ==
  ASSUME [Next]_vars
  PROVE  \/ \E s \in Streams :
              \/ \E a \in Addresses : Connect(s, a)
              \/ Respond(s) \/ Subscribe(s) \/ GoAway(s) \/ Unsubscribe(s)
         \/ \E e \in Events :
              PublishOnLoop(e) \/ BeginWalk(e) \/ PutNext(e) \/ NextAddress(e)
         \/ CleanUp
         \/ UNCHANGED <<brokerVars, connection_log>>
BY DEF Next, BrokerNext, LabelNext, vars, limiterVars, Request, Tick

LEMMA ListsInductive == ListsInv /\ [Next]_vars => ListsInv'
<1> SUFFICES ASSUME ListsInv, [Next]_vars PROVE ListsInv'
  OBVIOUS
<1>1. stream \in [Streams -> Calls]
  BY DEF ListsInv, Calls
<1>2. ASSUME NEW s \in Streams, NEW a \in Addresses, Connect(s, a) PROVE ListsInv'
  <2>1. /\ stream[s].at = "new" /\ UNCHANGED <<listeners, registered_at>>
        /\ stream' = [stream EXCEPT ![s] = [at |-> "called", address |-> a]]
    BY <1>2 DEF Connect
  <2>2. [at |-> "called", address |-> a] \in Calls
    BY DEF Calls, CallPlaces
  <2>3. stream' \in [Streams -> Calls]
    BY <1>1, <2>1, <2>2
  <2>4. \A t \in Streams : /\ Open(t)' <=> Open(t)
                           /\ Open(t) => stream'[t].address = stream[t].address
    BY <1>1, <2>1 DEF Open
  <2> QED
    BY <2>1, <2>3, <2>4, ListsFrame
<1>3. ASSUME NEW s \in Streams, Respond(s) \/ GoAway(s) PROVE ListsInv'
  <2>1. /\ stream[s].at # "new" /\ UNCHANGED <<listeners, registered_at>>
    BY <1>3 DEF Respond, GoAway
  <2>2. PICK place \in CallPlaces :
          GoTo(s, place) /\ (place \in {"subscribed", "abandoned"} <=> Open(s))
    BY <1>3 DEF Respond, GoAway, CallPlaces, Open
  <2>3. /\ stream' \in [Streams -> Calls]
        /\ stream'[s].at = place /\ stream'[s].address = stream[s].address
        /\ \A t \in Streams : t # s => stream'[t] = stream[t]
    BY <1>1, <2>1, <2>2, GoToKeeps
  <2>4. \A t \in Streams : /\ Open(t)' <=> Open(t)
                           /\ Open(t) => stream'[t].address = stream[t].address
    BY <2>2, <2>3 DEF Open
  <2> QED
    BY <2>1, <2>3, <2>4, ListsFrame
<1>4. ASSUME NEW e \in Events,
             PublishOnLoop(e) \/ BeginWalk(e) \/ PutNext(e) \/ NextAddress(e)
      PROVE  ListsInv'
  <2>1. UNCHANGED <<listeners, registered_at, stream>>
    BY <1>4 DEF PublishOnLoop, BeginWalk, PutNext, NextAddress
  <2> QED
    BY <2>1 DEF ListsInv, Queues, Open
<1>5. CASE CleanUp
  <2>1. /\ listeners' = listeners /\ stream' = stream
        /\ DOMAIN registered_at' = DOMAIN registered_at
    BY <1>5, CleanUpFindsNothing DEF CleanUp
  <2> QED
    BY <2>1 DEF ListsInv, Queues, Open
<1>6. CASE UNCHANGED <<brokerVars, connection_log>>
  BY <1>6 DEF brokerVars, ListsInv, Queues, Open
<1> QED
  BY <1>2, <1>3, <1>4, <1>5, <1>6, SubscribeLists, UnsubscribeLists, BrokerSteps

-----------------------------------------------------------------------------
(* The counter of the calls in flight.                                     *)

LEMMA CountFrame ==
  ASSUME CountInv, connection_log' = connection_log,
         \A s \in Streams :
           /\ stream'[s].at = "called" <=> stream[s].at = "called"
           /\ stream[s].at = "called" => stream'[s].address = stream[s].address
  PROVE  CountInv'
<1>1. \A a : InFlight(a)' = InFlight(a)
  BY DEF InFlight
<1> QED
  BY <1>1 DEF CountInv

LEMMA CountInitially == Init => CountInv
<1> SUFFICES ASSUME Init PROVE CountInv
  OBVIOUS
<1>1. \A a : InFlight(a) = {}
  BY DEF Init, BrokerInit, InFlight
<1>2. connection_log = [a \in Addresses |-> 0]
  BY DEF Init, BrokerInit, LimiterInit
<1> QED
  BY <1>1, <1>2, FS_EmptySet DEF CountInv

LEMMA CountInductive == ListsInv /\ CountInv /\ [Next]_vars => CountInv'
<1> SUFFICES ASSUME ListsInv, CountInv, [Next]_vars PROVE CountInv'
  OBVIOUS
<1>1. stream \in [Streams -> Calls]
  BY DEF ListsInv, Calls
<1>2. ASSUME NEW s \in Streams, NEW a \in Addresses, Connect(s, a) PROVE CountInv'
  <2>1. /\ stream[s].at = "new"
        /\ stream' = [stream EXCEPT ![s] = [at |-> "called", address |-> a]]
        /\ connection_log' = [connection_log EXCEPT ![a] = @ + 1]
    BY <1>2 DEF Connect, Enter
  <2>2. /\ InFlight(a)' = InFlight(a) \cup {s} /\ s \notin InFlight(a)
        /\ \A b : b # a => InFlight(b)' = InFlight(b)
    BY <1>1, <2>1 DEF InFlight
  <2>3. /\ IsFiniteSet(InFlight(a)')
        /\ Cardinality(InFlight(a)') = Cardinality(InFlight(a)) + 1
    BY <2>2, FS_AddElement DEF CountInv
  <2>4. connection_log' = [b \in Addresses |-> IF b = a THEN connection_log[a] + 1
                                               ELSE connection_log[b]]
    BY <2>1 DEF CountInv
  <2> QED
    BY <2>2, <2>3, <2>4 DEF CountInv
<1>3. ASSUME NEW s \in Streams, Respond(s) PROVE CountInv'
  <2> PICK a : a = stream[s].address
    OBVIOUS
  <2>1. /\ stream[s].at = "called"
        /\ connection_log' = [connection_log EXCEPT
                                ![a] = IF @ > 0 THEN @ - 1 ELSE 0]
    BY <1>3 DEF Respond, Leave
  <2>2. PICK place \in {"responded", "gone"} : GoTo(s, place)
    BY <1>3 DEF Respond
  <2>3. /\ stream'[s].at = place /\ a \in Addresses
        /\ \A t \in Streams : t # s => stream'[t] = stream[t]
    BY <1>1, <2>1, <2>2, GoToKeeps DEF CallPlaces
  <2>4. /\ InFlight(a)' = InFlight(a) \ {s} /\ s \in InFlight(a)
        /\ \A b : b # a => InFlight(b)' = InFlight(b)
    BY <2>1, <2>2, <2>3 DEF InFlight
  <2>5. /\ IsFiniteSet(InFlight(a)')
        /\ Cardinality(InFlight(a)') = Cardinality(InFlight(a)) - 1
    BY <2>3, <2>4, FS_RemoveElement DEF CountInv
  <2>6. Cardinality(InFlight(a)) > 0
    <3>1. Cardinality(InFlight(a)) \in Nat /\ Cardinality(InFlight(a)') \in Nat
      BY <2>3, <2>5, FS_CardinalityType DEF CountInv
    <3> QED
      BY <2>5, <3>1
  <2>7. connection_log' = [b \in Addresses |->
                            IF b = a THEN Cardinality(InFlight(a)) - 1
                            ELSE connection_log[b]]
    BY <2>1, <2>3, <2>6 DEF CountInv
  <2> QED
    BY <2>4, <2>5, <2>7 DEF CountInv
<1>4. ASSUME NEW s \in Streams, Subscribe(s) \/ GoAway(s) \/ Unsubscribe(s)
      PROVE  CountInv'
  <2>1. stream[s].at \notin {"new", "called"} /\ connection_log' = connection_log
    BY <1>4 DEF Subscribe, GoAway, Unsubscribe, limiterVars
  <2>2. PICK place \in {"gone", "subscribed", "abandoned"} : GoTo(s, place)
    BY <1>4 DEF Subscribe, GoAway, Unsubscribe
  <2>3. /\ stream'[s].at = place
        /\ \A t \in Streams : t # s => stream'[t] = stream[t]
    BY <1>1, <2>1, <2>2, GoToKeeps DEF CallPlaces
  <2> QED
    BY <2>1, <2>2, <2>3, CountFrame
<1>5. ASSUME NEW e \in Events,
             PublishOnLoop(e) \/ BeginWalk(e) \/ PutNext(e) \/ NextAddress(e)
      PROVE  CountInv'
  <2>1. UNCHANGED <<connection_log, stream>>
    BY <1>5 DEF PublishOnLoop, BeginWalk, PutNext, NextAddress, limiterVars
  <2> QED
    BY <2>1, CountFrame
<1>6. CASE CleanUp
  BY <1>6, CountFrame DEF CleanUp, limiterVars
<1>7. CASE UNCHANGED <<brokerVars, connection_log>>
  BY <1>7, CountFrame DEF brokerVars
<1> QED
  BY <1>2, <1>3, <1>4, <1>5, <1>6, <1>7, BrokerSteps

\* For any number of streams, addresses and publications the lists hold the
\* open streams and no other, and the limiter counts the calls in flight
\* (subscribe, _cleanup_stale, RateLimitMiddleware.dispatch).
THEOREM OpenStreamsAlwaysListed == Spec => []OpenStreamsListed
<1>1. ListsInv /\ CountInv => OpenStreamsListed
  BY DEF ListsInv, CountInv, OpenStreamsListed, InFlight
<1> QED
  BY <1>1, ListsInitially, ListsInductive, CountInitially, CountInductive, PTL
     DEF Spec

-----------------------------------------------------------------------------
(* The walks.                                                              *)

LEMMA WalkInitially == Init => WalkInv
<1> SUFFICES ASSUME Init PROVE WalkInv
  OBVIOUS
<1>1. /\ received = [s \in Streams |-> <<>>]
      /\ publication = [e \in Events |-> Unstarted]
  BY DEF Init, BrokerInit
<1>2. <<>> \in Seq(Events) /\ IsInjective(<<>>) /\ Range(<<>>) = {}
  BY DEF IsInjective, Range
<1>3. \A e \in Events : publication[e] = Unstarted /\ Unstarted.at = "unstarted"
  BY <1>1 DEF Unstarted
<1>4. \A s \in Streams : received[s] = <<>>
  BY <1>1
<1>5. \A s \in Streams : Received(s)
  BY <1>2, <1>4 DEF Received
<1>6. \A e \in Events, s \in Streams : Told(e, s)
  BY <1>2, <1>3, <1>4 DEF Told, Walking
<1> QED
  BY <1>1, <1>3, <1>5, <1>6 DEF WalkInv, Walking

\* Steps that leave lists, queues and walks alone, and in which no stream goes
\* back.
LEMMA WalkFrame ==
  ASSUME WalkInv, UNCHANGED <<listeners, received, publication>>,
         \A s \in Streams :
           stream'[s].at \in {"new", "called", "responded"} =>
             stream[s].at \in {"new", "called", "responded"}
  PROVE  WalkInv'
<1>1. \A e \in Events, s \in Streams : Told(e, s)'
  BY DEF WalkInv, Told, Walking, Pending
<1>2. \A s \in Streams : Received(s)'
  BY DEF WalkInv, Received
<1>3. \A e \in Events : Walking(e)' => WellFormed(publication[e])'
  BY DEF WalkInv, Walking, WellFormed
<1> QED
  BY <1>1, <1>2, <1>3 DEF WalkInv

\* Steps of the publication of e alone.
LEMMA WalkStep ==
  ASSUME WalkInv, UNCHANGED <<listeners, stream>>, NEW e \in Events, NEW w,
         publication' = [publication EXCEPT ![e] = w],
         w.at = "walking" => WellFormed(w),
         received' = [s \in Streams |-> received'[s]],
         \A s \in Streams : Received(s)' /\ Told(e, s)',
         \A f \in Events, s \in Streams :
           f # e => (f \in Range(received[s])' <=> f \in Range(received[s]))
  PROVE  WalkInv'
<1>1. /\ publication' = [f \in Events |-> publication'[f]]
      /\ publication'[e] = w
      /\ \A f \in Events : f # e => publication'[f] = publication[f]
  BY DEF WalkInv
<1>2. ASSUME NEW f \in Events, NEW s \in Streams PROVE Told(f, s)'
  <2>1. CASE f = e
    BY <2>1
  <2>2. CASE f # e
    <3>1. publication'[f] = publication[f]
      BY <1>1, <2>2
    <3>2. (Walking(f)' <=> Walking(f)) /\ (Pending(f, s)' <=> Pending(f, s))
      BY <3>1 DEF Walking, Pending
    <3>3. Told(f, s)
      BY DEF WalkInv
    <3>4. f \in Range(received[s])' <=> f \in Range(received[s])
      BY <2>2
    <3> QED
      BY <3>1, <3>2, <3>3, <3>4 DEF Told
  <2> QED
    BY <2>1, <2>2
<1>3. ASSUME NEW f \in Events, Walking(f)' PROVE WellFormed(publication[f])'
  <2>1. CASE f = e
    BY <1>1, <1>3, <2>1 DEF Walking, WellFormed
  <2>2. CASE f # e
    BY <1>1, <1>3, <2>2 DEF WalkInv, Walking, WellFormed
  <2> QED
    BY <2>1, <2>2
<1> QED
  BY <1>1, <1>2, <1>3 DEF WalkInv

\* Who is in a list is open, and in that list only.
LEMMA ListedOnce ==
  ASSUME ListsInv, NEW a \in DOMAIN listeners, NEW i \in 1 .. Len(listeners[a])
  PROVE  /\ listeners[a][i] \in Streams /\ Open(listeners[a][i])
         /\ \A b \in DOMAIN listeners : \A j \in 1 .. Len(listeners[b]) :
              listeners[b][j] = listeners[a][i] => b = a /\ j = i
<1>1. \A b \in DOMAIN listeners :
        /\ b \in Addresses /\ listeners[b] \in Seq(Streams)
        /\ Queues(b) = listeners[b] /\ IsInjective(listeners[b])
  BY DEF ListsInv, Queues
<1>2. \A b \in DOMAIN listeners :
        /\ \A j \in 1 .. Len(listeners[b]) :
             listeners[b][j] \in Streams /\ listeners[b][j] \in Range(Queues(b))
        /\ \A j, k \in 1 .. Len(listeners[b]) :
             listeners[b][j] = listeners[b][k] => j = k
  <2> SUFFICES ASSUME NEW b \in DOMAIN listeners
               PROVE  /\ \A j \in 1 .. Len(listeners[b]) :
                           /\ listeners[b][j] \in Streams
                           /\ listeners[b][j] \in Range(Queues(b))
                      /\ \A j, k \in 1 .. Len(listeners[b]) :
                           listeners[b][j] = listeners[b][k] => j = k
    OBVIOUS
  <2> DEFINE q == listeners[b]
  <2>1. q \in Seq(Streams) /\ IsInjective(q) /\ Queues(b) = q
    BY <1>1
  <2> HIDE DEF q
  <2>2. /\ \A x : x \in Range(q) <=> \E j \in 1 .. Len(q) : q[j] = x
        /\ Range(q) \subseteq Streams
        /\ IsInjective(q) <=> \A j, k \in 1 .. Len(q) : q[j] = q[k] => j = k
    BY <2>1, RangeOfList
  <2> QED
    BY <2>1, <2>2 DEF q
<1>3. \A s \in Streams, b \in Addresses :
        s \in Range(Queues(b)) <=> Open(s) /\ stream[s].address = b
  BY DEF ListsInv
<1> QED
  BY <1>1, <1>2, <1>3

\* A new queue comes last in its list and has received nothing.
LEMMA SubscribeWalks ==
  ASSUME ListsInv, WalkInv, NEW s \in Streams, Subscribe(s)
  PROVE  WalkInv'
<1> PICK a : a = stream[s].address
  OBVIOUS
<1>1. /\ stream \in [Streams -> Calls] /\ stream[s].at = "responded"
      /\ UNCHANGED <<received, publication>> /\ received[s] = <<>>
  BY DEF ListsInv, Calls, Subscribe, WalkInv, Received
<1>2. PICK place \in {"gone", "subscribed"} : GoTo(s, place)
  BY DEF Subscribe
<1>3. /\ stream'[s].at = place /\ a \in Addresses
      /\ \A t \in Streams : t # s => stream'[t] = stream[t]
  BY <1>1, <1>2, GoToKeeps DEF CallPlaces
<1>4. \A t \in Streams :
        stream'[t].at \in {"new", "called", "responded"} =>
          stream[t].at \in {"new", "called", "responded"}
  BY <1>3
<1>5. CASE listeners' = listeners
  BY <1>1, <1>4, <1>5, WalkFrame
<1>6. CASE listeners' = WithQueue(a, s)
  <2> DEFINE q == Queues(a)
             n == Len(q)
  <2>1. q \in Seq(Streams) /\ n \in Nat /\ Len(<<>>) = 0
    BY <1>3, QueuesOf, LenProperties
  <2>2. /\ Append(q, s) \in Seq(Streams) /\ Len(Append(q, s)) = n + 1
        /\ \A i \in 1 .. n : Append(q, s)[i] = q[i]
        /\ Append(q, s)[n + 1] = s
    BY <2>1, AppendedList
  <2>3. /\ DOMAIN listeners' = DOMAIN listeners \cup {a}
        /\ listeners'[a] = Append(q, s)
        /\ \A b \in DOMAIN listeners : b # a => listeners'[b] = listeners[b]
    BY <1>6 DEF WithQueue, With
  <2>4. /\ a \in DOMAIN listeners => q = listeners[a]
        /\ a \notin DOMAIN listeners => n = 0
    BY <2>1 DEF Queues
  <2> HIDE DEF q, n
  <2>5. ASSUME NEW e \in Events, NEW t \in Streams, t # s, Pending(e, t)'
        PROVE  Pending(e, t)
    <3>1. PICK b \in DOMAIN listeners' : \E i \in 1 .. Len(listeners'[b]) :
            /\ listeners'[b][i] = t
            /\ \/ b \notin publication[e].visited
               \/ publication[e].address = <<b>> /\ publication[e].index <= i
      BY <1>1, <2>5 DEF Pending
    <3>2. PICK i \in 1 .. Len(listeners'[b]) :
            /\ listeners'[b][i] = t
            /\ \/ b \notin publication[e].visited
               \/ publication[e].address = <<b>> /\ publication[e].index <= i
      BY <3>1
    <3>3. CASE b = a
      <4>1. i \in 1 .. n /\ q[i] = t
        BY <2>1, <2>2, <2>3, <2>5, <3>2, <3>3
      <4>2. a \in DOMAIN listeners /\ q = listeners[a]
        BY <2>4, <4>1
      <4> QED
        BY <3>2, <3>3, <4>1, <4>2 DEF Pending, n
    <3>4. CASE b # a
      BY <2>3, <3>2, <3>4 DEF Pending
    <3> QED
      BY <3>3, <3>4
  <2>6. ASSUME NEW e \in Events, NEW t \in Streams, Pending(e, t)
        PROVE  Pending(e, t)'
    <3>1. PICK b \in DOMAIN listeners : \E i \in 1 .. Len(listeners[b]) :
            /\ listeners[b][i] = t
            /\ \/ b \notin publication[e].visited
               \/ publication[e].address = <<b>> /\ publication[e].index <= i
      BY <2>6 DEF Pending
    <3>2. PICK i \in 1 .. Len(listeners[b]) :
            /\ listeners[b][i] = t
            /\ \/ b \notin publication[e].visited
               \/ publication[e].address = <<b>> /\ publication[e].index <= i
      BY <3>1
    <3>3. b \in DOMAIN listeners' /\ i \in 1 .. Len(listeners'[b]) /\ listeners'[b][i] = t
      <4>1. CASE b = a
        BY <2>1, <2>2, <2>3, <2>4, <3>2, <4>1 DEF n
      <4>2. CASE b # a
        BY <2>3, <3>2, <4>2
      <4> QED
        BY <4>1, <4>2
    <3> QED
      BY <1>1, <3>2, <3>3 DEF Pending
  <2>7. ASSUME NEW e \in Events, NEW t \in Streams PROVE Told(e, t)'
    <3>1. Told(e, t) /\ Range(<<>>) = {}
      BY DEF WalkInv, Range
    <3>2. CASE t = s
      BY <1>1, <2>6, <3>1, <3>2 DEF Told, Walking
    <3>3. CASE t # s
      BY <1>1, <2>5, <2>6, <3>1, <3>3 DEF Told, Walking
    <3> QED
      BY <3>2, <3>3
  <2>8. \A t \in Streams : Received(t)'
    BY <1>1, <1>4 DEF WalkInv, Received
  <2>9. \A e \in Events : Walking(e)' => WellFormed(publication[e])'
    BY <1>1, <2>3 DEF WalkInv, Walking, WellFormed
  <2> QED
    BY <1>1, <2>7, <2>8, <2>9 DEF WalkInv
<1> QED
  BY <1>5, <1>6 DEF Subscribe

\* What becomes of the walk w when a queue of a goes, which had more (long) or
\* was the last.
Shaken(v, w, a, long) ==
  /\ DOMAIN v = Fields /\ v.at = "walking"
  /\ v.calm = FALSE /\ v.index = w.index /\ v.start = w.start
  /\ long => v.visited = w.visited /\ v.address = w.address
  /\ ~long => /\ v.visited = w.visited \ {a}
              /\ v.address = IF w.address = <<a>> THEN <<>> ELSE w.address

LEMMA DisturbedWalk ==
  ASSUME WalkInv, NEW a, NEW e \in Events, publication' = Disturbed(a)
  PROVE  /\ ~Walking(e) => publication'[e] = publication[e]
         /\ Walking(e) =>
              Shaken(publication'[e], publication[e], a, Len(listeners[a]) > 1)
<1> PICK w : w = publication[e]
  OBVIOUS
<1>1. CASE ~Walking(e)
  BY <1>1 DEF Disturbed, Walking
<1>2. CASE Walking(e)
  <2>1. DOMAIN w = Fields /\ w.at = "walking"
    BY <1>2 DEF WalkInv, WellFormed
  <2>2. publication'[e] =
          IF Len(listeners[a]) > 1 THEN [w EXCEPT !.calm = FALSE]
          ELSE [w EXCEPT !.calm = FALSE, !.visited = @ \ {a},
                         !.address = IF @ = <<a>> THEN <<>> ELSE @]
    BY <1>2 DEF Disturbed, Walking
  <2>3. CASE Len(listeners[a]) > 1
    <3> PICK v : v = [w EXCEPT !.calm = FALSE]
      OBVIOUS
    <3>1. /\ DOMAIN v = Fields /\ v.at = "walking"
          /\ v.calm = FALSE /\ v.index = w.index /\ v.start = w.start
          /\ v.visited = w.visited /\ v.address = w.address
      BY <2>1 DEF Fields
    <3>2. publication'[e] = v
      BY <2>2, <2>3
    <3> QED
      BY <1>2, <2>3, <3>1, <3>2 DEF Shaken
  <2>4. CASE ~(Len(listeners[a]) > 1)
    <3> PICK x, y : x = w.visited \ {a}
                    /\ y = IF w.address = <<a>> THEN <<>> ELSE w.address
      OBVIOUS
    <3> PICK v : v = [w EXCEPT !.calm = FALSE, !.visited = x, !.address = y]
      OBVIOUS
    <3>1. /\ DOMAIN v = Fields /\ v.at = "walking"
          /\ v.calm = FALSE /\ v.index = w.index /\ v.start = w.start
          /\ v.visited = x /\ v.address = y
      BY <2>1 DEF Fields
    <3>2. publication'[e] = v
      BY <2>2, <2>4
    <3> QED
      BY <1>2, <2>4, <3>1, <3>2 DEF Shaken
  <2> QED
    BY <2>3, <2>4
<1> QED
  BY <1>1, <1>2

\* The end of a stream moves queues towards the walks, never past them, and no
\* walk it meets is calm afterwards.
LEMMA UnsubscribeWalks ==
  ASSUME ListsInv, WalkInv, NEW s \in Streams, Unsubscribe(s)
  PROVE  WalkInv'
<1> PICK a : a = stream[s].address
  OBVIOUS
<1> PICK q : q = listeners[a]
  OBVIOUS
<1>1. /\ Open(s) /\ stream \in [Streams -> Calls] /\ stream[s].at # "new"
      /\ listeners' = Left(a, s) /\ GoTo(s, "gone")
      /\ publication' = Disturbed(a) /\ received' = received
  BY DEF Unsubscribe, Open, ListsInv, Calls
<1>2. /\ stream'[s].at = "gone"
      /\ \A t \in Streams : t # s => stream'[t] = stream[t]
  BY <1>1, GoToKeeps DEF CallPlaces
<1>3. /\ a \in DOMAIN listeners /\ q \in Seq(Streams) /\ IsInjective(q)
      /\ s \in Range(q) /\ Len(q) \in Nat /\ q # <<>>
      /\ Len(q) = 1 => listeners' = [b \in DOMAIN listeners \ {a} |-> listeners[b]]
      /\ Len(q) # 1 => listeners' = [b \in DOMAIN listeners |->
                                      IF b = a THEN RemoveFirst(q, s) ELSE listeners[b]]
  <2>1. /\ a \in DOMAIN listeners /\ q \in Seq(Streams) /\ IsInjective(q)
        /\ s \in Range(q)
        /\ Len(q) = 1 => Left(a, s) = [b \in DOMAIN listeners \ {a} |-> listeners[b]]
        /\ Len(q) # 1 => Left(a, s) = [b \in DOMAIN listeners |->
                                        IF b = a THEN RemoveFirst(q, s) ELSE listeners[b]]
    BY <1>1, LeftTable
  <2>2. Len(q) \in Nat /\ q # <<>>
    BY <2>1, RangeOfList DEF ListsInv
  <2> QED
    BY <1>1, <2>1, <2>2
<1>4. /\ Len(RemoveFirst(q, s)) = Len(q) - 1
      /\ \A i \in 1 .. Len(q) - 1 :
           RemoveFirst(q, s)[i] = q[i] \/ RemoveFirst(q, s)[i] = q[i + 1]
  <2>1. q \in Seq(Streams) /\ IsInjective(q) /\ s \in Range(q)
    BY <1>3
  <2> QED
    BY <2>1, RemovedList
<1>5. Len(q) > 1 <=> Len(q) # 1
  <2>1. Len(q) \in Nat /\ Len(q) # 0
    BY <1>3, RangeOfList
  <2>2. \A n \in Nat : n # 0 => (n > 1 <=> n # 1)
    OBVIOUS
  <2> QED
    BY <2>1, <2>2
<1>6. ASSUME NEW e \in Events, ~Walking(e) PROVE publication'[e] = publication[e]
  BY <1>1, <1>6, DisturbedWalk
<1>7. ASSUME NEW e \in Events, Walking(e)
      PROVE  Shaken(publication'[e], publication[e], a, Len(q) # 1)
  <2>1. Shaken(publication'[e], publication[e], a, Len(q) > 1)
    BY <1>1, <1>7, DisturbedWalk
  <2> QED
    BY <1>5, <2>1 DEF Shaken
<1>8. ASSUME NEW e \in Events, Walking(e) PROVE WellFormed(publication[e])'
  <2> PICK w, v : w = publication[e] /\ v = publication'[e]
    OBVIOUS
  <2>1. /\ w.visited \subseteq DOMAIN listeners
        /\ w.address = <<>> \/ \E b \in w.visited : w.address = <<b>>
        /\ w.index \in Nat \ {0} /\ w.start \subseteq Streams
    BY <1>8 DEF WalkInv, WellFormed
  <2>2. Shaken(v, w, a, Len(q) # 1)
    BY <1>7, <1>8
  <2>3. v.visited \subseteq DOMAIN listeners'
    BY <1>3, <2>1, <2>2 DEF Shaken
  <2>4. v.address = <<>> \/ \E b \in v.visited : v.address = <<b>>
    <3>1. \A b : <<b>> = <<a>> => b = a
      OBVIOUS
    <3> QED
      BY <2>1, <2>2, <3>1 DEF Shaken
  <2> QED
    BY <2>1, <2>3, <2>4, <2>2 DEF WellFormed, Shaken
<1>9. ASSUME NEW e \in Events, Walking(e), NEW t \in Streams, Pending(e, t)'
      PROVE  Pending(e, t)
  <2> PICK w, v : w = publication[e] /\ v = publication'[e]
    OBVIOUS
  <2>1. PICK b \in DOMAIN listeners' : \E i \in 1 .. Len(listeners'[b]) :
          /\ listeners'[b][i] = t
          /\ b \notin v.visited \/ (v.address = <<b>> /\ v.index <= i)
    BY <1>9 DEF Pending
  <2>2. PICK i \in 1 .. Len(listeners'[b]) :
          /\ listeners'[b][i] = t
          /\ b \notin v.visited \/ (v.address = <<b>> /\ v.index <= i)
    BY <2>1
  <2>3. w.index \in Nat /\ b \in DOMAIN listeners
    BY <1>3, <1>9 DEF WalkInv, WellFormed
  <2>4. Shaken(v, w, a, Len(q) # 1)
    BY <1>7, <1>9
  <2>5. CASE b # a
    <3>1. listeners'[b] = listeners[b]
      BY <1>3, <2>5
    <3>2. b \notin w.visited \/ (w.address = <<b>> /\ w.index <= i)
      BY <2>2, <2>5, <2>4 DEF Shaken
    <3> QED
      BY <2>2, <2>3, <3>1, <3>2 DEF Pending
  <2>6. CASE b = a
    <3>1. Len(q) # 1 /\ listeners'[a] = RemoveFirst(q, s)
      BY <1>3, <2>6
    <3>2. i \in 1 .. Len(q) - 1
      BY <1>4, <2>2, <2>6, <3>1
    <3>3. PICK j \in 1 .. Len(q) : i <= j /\ q[j] = t
      BY <1>3, <1>4, <2>2, <2>6, <3>1, <3>2
    <3>4. a \notin w.visited \/ (w.address = <<a>> /\ w.index <= j)
      <4>1. i \in Nat /\ j \in Nat
        BY <3>2, <3>3
      <4> QED
        BY <2>2, <2>3, <2>6, <2>4, <3>1, <3>3, <4>1 DEF Shaken
    <3> QED
      BY <1>3, <3>3, <3>4 DEF Pending
  <2> QED
    BY <2>5, <2>6
<1>10. ASSUME NEW e \in Events, NEW t \in Streams PROVE Told(e, t)'
  <2>1. Told(e, t)
    BY DEF WalkInv
  <2>2. CASE Walking(e)
    <3>1. Walking(e)' /\ publication'[e].at = "walking" /\ publication'[e].calm = FALSE
      BY <1>7, <2>2 DEF Walking, Shaken
    <3>2. publication'[e] # Unstarted
      BY <3>1 DEF Unstarted
    <3> QED
      BY <1>1, <1>9, <2>1, <2>2, <3>1, <3>2 DEF Told
  <2>3. CASE ~Walking(e)
    <3>1. publication'[e] = publication[e] /\ ~Walking(e)'
      BY <1>6, <2>3 DEF Walking
    <3> QED
      BY <1>1, <2>1, <2>3, <3>1 DEF Told
  <2> QED
    BY <2>2, <2>3
<1>11. \A t \in Streams : Received(t)'
  BY <1>1, <1>2 DEF WalkInv, Received
<1>12. ASSUME NEW e \in Events, Walking(e)' PROVE WellFormed(publication[e])'
  <2>1. CASE Walking(e)
    BY <1>8, <2>1
  <2>2. CASE ~Walking(e)
    BY <1>6, <1>12, <2>2 DEF Walking
  <2> QED
    BY <2>1, <2>2
<1>13. publication' = [e \in Events |-> publication'[e]]
  BY <1>1 DEF Disturbed
<1> QED
  BY <1>1, <1>10, <1>11, <1>12, <1>13 DEF WalkInv

LEMMA QueuedListed ==
  ASSUME ListsInv, NEW s
  PROVE  /\ s \in Queued <=> \E a \in DOMAIN listeners :
                             \E i \in 1 .. Len(listeners[a]) : listeners[a][i] = s
         /\ s \in Queued => s \in Streams /\ Open(s)
<1>1. \A a \in DOMAIN listeners :
        s \in Range(listeners[a]) <=>
          \E i \in 1 .. Len(listeners[a]) : listeners[a][i] = s
  BY RangeOfList DEF ListsInv
<1> QED
  BY <1>1, ListedOnce DEF Queued

\* An event is put into the queue of an open stream that does not have it yet.
LEMMA PutIntoQueue ==
  ASSUME WalkInv, NEW e \in Events, NEW s \in Streams, e \notin Range(received[s]),
         Open(s), stream' = stream, received'[s] = Append(received[s], e)
  PROVE  /\ Received(s)' /\ e \in Range(received[s])'
         /\ \A f : f # e => (f \in Range(received[s])' <=> f \in Range(received[s]))
<1>1. received[s] \in Seq(Events) /\ IsInjective(received[s])
  BY DEF WalkInv, Received
<1>2. /\ received'[s] \in Seq(Events) /\ IsInjective(received'[s])
      /\ Range(received'[s]) = Range(received[s]) \cup {e}
  BY <1>1, AppendedList
<1> QED
  BY <1>2 DEF Received, Open

LEMMA PublishWalks ==
  ASSUME ListsInv, WalkInv, NEW e \in Events, PublishOnLoop(e)
  PROVE  WalkInv'
<1>1. /\ publication[e] = Unstarted /\ UNCHANGED <<listeners, stream>>
      /\ received' = [s \in Streams |-> IF s \in Queued THEN Append(received[s], e)
                                                        ELSE received[s]]
      /\ publication' = [publication EXCEPT ![e] = Done(Queued)]
  BY DEF PublishOnLoop
<1>2. publication'[e] = Done(Queued)
  BY <1>1 DEF WalkInv
<1>3. \A s \in Streams : e \notin Range(received[s])
  BY <1>1 DEF WalkInv, Told
<1>4. ASSUME NEW s \in Streams
      PROVE  /\ Received(s)' /\ (s \in Queued => e \in Range(received[s])')
             /\ \A f : f # e => (f \in Range(received[s])' <=> f \in Range(received[s]))
  <2>1. CASE s \in Queued
    BY <1>1, <1>3, <2>1, QueuedListed, PutIntoQueue
  <2>2. CASE s \notin Queued
    BY <1>1, <2>2 DEF WalkInv, Received
  <2> QED
    BY <2>1, <2>2
<1>5. /\ Done(Queued).at = "done" /\ Done(Queued).witnesses = Queued
      /\ Done(Queued) # Unstarted
  BY DEF Done, Unstarted
<1>6. \A s \in Streams : Told(e, s)'
  BY <1>2, <1>4, <1>5 DEF Told, Walking
<1>7. received' = [s \in Streams |-> received'[s]]
  BY <1>1
<1> QED
  BY <1>1, <1>4, <1>5, <1>6, <1>7, WalkStep

LEMMA BeginWalks ==
  ASSUME ListsInv, WalkInv, NEW e \in Events, BeginWalk(e)
  PROVE  WalkInv'
<1> PICK w : w = [at |-> "walking", size |-> Cardinality(DOMAIN listeners),
                  visited |-> {}, address |-> <<>>, index |-> 1,
                  start |-> Queued, calm |-> TRUE]
  OBVIOUS
<1>1. /\ publication[e] = Unstarted /\ UNCHANGED <<listeners, stream, received>>
      /\ publication' = [publication EXCEPT ![e] = w]
  BY DEF BeginWalk
<1>2. publication'[e] = w
  BY <1>1 DEF WalkInv
<1>3. \A s \in Streams : e \notin Range(received[s])
  BY <1>1 DEF WalkInv, Told
<1>4. /\ w.at = "walking" /\ w.visited = {} /\ w.address = <<>> /\ w.index = 1
      /\ w.start = Queued /\ w.calm = TRUE /\ DOMAIN w = Fields
  BY DEF Fields
<1>5. WellFormed(w)
  BY <1>4, QueuedListed DEF WellFormed
<1>6. w # Unstarted
  BY <1>4 DEF Unstarted
<1>7. ASSUME NEW s \in Queued PROVE Pending(e, s)'
  BY <1>1, <1>2, <1>4, QueuedListed DEF Pending
<1>8. \A s \in Streams : Told(e, s)'
  BY <1>1, <1>2, <1>3, <1>4, <1>6, <1>7 DEF Told, Walking
<1>9. /\ received' = [s \in Streams |-> received'[s]]
      /\ \A s \in Streams : Received(s)'
  BY <1>1 DEF WalkInv, Received
<1> QED
  BY <1>1, <1>5, <1>8, <1>9, WalkStep

\* The walk puts the event into the queue it stands at, which it has not passed
\* before.
LEMMA PutWalks ==
  ASSUME ListsInv, WalkInv, NEW e \in Events, PutNext(e)
  PROVE  WalkInv'
<1> PICK w : w = publication[e]
  OBVIOUS
<1> PICK v : v = [w EXCEPT !.index = @ + 1]
  OBVIOUS
<1>1. /\ Walking(e) /\ w.address # <<>>
      /\ w.index <= Len(listeners[Head(w.address)])
      /\ UNCHANGED <<listeners, stream>>
      /\ publication' = [publication EXCEPT ![e] = v]
  BY DEF PutNext, InList
<1>2. WellFormed(w)
  BY <1>1 DEF WalkInv
<1>3. PICK a \in w.visited : w.address = <<a>>
  BY <1>1, <1>2 DEF WellFormed
<1>4. a \in DOMAIN listeners /\ Head(w.address) = a
  BY <1>2, <1>3 DEF WellFormed
<1> PICK k : k = w.index
  OBVIOUS
<1>5. k \in 1 .. Len(listeners[a]) /\ k \in Nat
  <2>1. k \in Nat \ {0} /\ k <= Len(listeners[a]) /\ Len(listeners[a]) \in Nat
    BY <1>1, <1>2, <1>4, LenProperties DEF WellFormed, ListsInv
  <2> QED
    BY <2>1
<1> PICK s : s = listeners[a][k]
  OBVIOUS
<1>6. /\ s \in Streams /\ Open(s)
      /\ \A b \in DOMAIN listeners : \A j \in 1 .. Len(listeners[b]) :
           listeners[b][j] = s => b = a /\ j = k
  BY <1>4, <1>5, ListedOnce
<1>7. received' = [received EXCEPT ![s] = Append(@, e)]
  BY <1>4 DEF PutNext
<1>8. Pending(e, s)
  BY <1>3, <1>4, <1>5 DEF Pending
<1>9. e \notin Range(received[s])
  BY <1>1, <1>6, <1>8 DEF WalkInv, Told
<1>10. /\ received' = [t \in Streams |-> received'[t]]
       /\ received'[s] = Append(received[s], e)
       /\ \A t \in Streams : t # s => received'[t] = received[t]
  BY <1>6, <1>7 DEF WalkInv
<1>11. /\ Received(s)' /\ e \in Range(received[s])'
       /\ \A f : f # e => (f \in Range(received[s])' <=> f \in Range(received[s]))
  BY <1>1, <1>6, <1>9, <1>10, PutIntoQueue
<1>12. \A t \in Streams : Received(t)'
  <2>1. ASSUME NEW t \in Streams, t # s PROVE Received(t)'
    BY <1>1, <1>10, <2>1 DEF WalkInv, Received
  <2> QED
    BY <1>11, <2>1
<1>13. /\ DOMAIN v = Fields /\ v.at = "walking" /\ v.index = k + 1
       /\ v.visited = w.visited /\ v.address = w.address
       /\ v.start = w.start /\ v.calm = w.calm
  <2>1. DOMAIN w = Fields /\ w.at = "walking"
    BY <1>2 DEF WellFormed
  <2> QED
    BY <2>1 DEF Fields
<1>14. WellFormed(v)
  BY <1>2, <1>5, <1>13 DEF WellFormed
<1>15. publication'[e] = v
  BY <1>1 DEF WalkInv
<1>16. \A b : <<b>> = w.address => b = a
  BY <1>3
<1>17. ASSUME Pending(e, s)' PROVE FALSE
  <2>1. PICK b \in DOMAIN listeners : \E i \in 1 .. Len(listeners[b]) :
          /\ listeners[b][i] = s
          /\ b \notin v.visited \/ (v.address = <<b>> /\ v.index <= i)
    BY <1>1, <1>15, <1>17 DEF Pending
  <2>2. b = a /\ ~(k + 1 <= k)
    BY <1>5, <1>6, <2>1
  <2> QED
    BY <1>3, <1>6, <1>13, <2>1, <2>2
<1>18. ASSUME NEW t \in Streams, t # s PROVE Pending(e, t)' <=> Pending(e, t)
  <2>1. ASSUME NEW b \in DOMAIN listeners, NEW i \in 1 .. Len(listeners[b]),
               listeners[b][i] = t
        PROVE  (w.address = <<b>> /\ k <= i) <=> (w.address = <<b>> /\ k + 1 <= i)
    <3>1. w.address = <<b>> => b = a
      BY <1>16
    <3>2. w.address = <<b>> => i # k
      BY <1>18, <2>1, <3>1
    <3>3. i \in Nat
      OBVIOUS
    <3> QED
      BY <1>5, <3>2, <3>3
  <2> QED
    BY <1>1, <1>13, <1>15, <2>1 DEF Pending
<1>19. ASSUME NEW t \in Streams PROVE Told(e, t)'
  <2>1. Told(e, t) /\ v # Unstarted /\ Walking(e)' /\ v.at # "done"
    BY <1>13, <1>15 DEF WalkInv, Unstarted, Walking
  <2>2. CASE t = s
    BY <1>11, <1>15, <1>17, <2>1, <2>2 DEF Told
  <2>3. CASE t # s
    BY <1>1, <1>10, <1>13, <1>15, <1>18, <2>1, <2>3 DEF Told
  <2> QED
    BY <2>2, <2>3
<1>20. \A f \in Events, t \in Streams :
         f # e => (f \in Range(received[t])' <=> f \in Range(received[t]))
  BY <1>10, <1>11
<1> QED
  BY <1>1, <1>10, <1>12, <1>14, <1>19, <1>20, WalkStep

\* A walk that has come to the end of a list has nobody before it but in the
\* addresses it has not visited.
LEMMA EndOfList ==
  ASSUME ListsInv, WalkInv, NEW e \in Events, Walking(e), ~InList(e),
         NEW s, Pending(e, s)
  PROVE  \E b \in DOMAIN listeners \ publication[e].visited :
           \E i \in 1 .. Len(listeners[b]) : listeners[b][i] = s
<1> PICK w : w = publication[e]
  OBVIOUS
<1>1. w.index \in Nat
  BY DEF WalkInv, WellFormed
<1>2. PICK b \in DOMAIN listeners : \E i \in 1 .. Len(listeners[b]) :
        /\ listeners[b][i] = s
        /\ b \notin w.visited \/ (w.address = <<b>> /\ w.index <= i)
  BY DEF Pending
<1>3. ASSUME w.address = <<b>>, NEW i \in 1 .. Len(listeners[b]), w.index <= i
      PROVE  FALSE
  <2>1. w.address # <<>> /\ Head(w.address) = b
    BY <1>3
  <2>2. ~(w.index <= Len(listeners[b]))
    BY <2>1 DEF InList
  <2>3. Len(listeners[b]) \in Nat /\ i \in Nat /\ i <= Len(listeners[b])
    <3>1. Len(listeners[b]) \in Nat
      BY LenProperties DEF ListsInv
    <3> QED
      BY <3>1
  <2> QED
    BY <1>1, <1>3, <2>2, <2>3
<1> QED
  BY <1>2, <1>3

LEMMA NextWalks ==
  ASSUME ListsInv, WalkInv, NEW e \in Events, NextAddress(e)
  PROVE  WalkInv'
<1> PICK w : w = publication[e]
  OBVIOUS
<1>1. /\ Walking(e) /\ ~InList(e) /\ UNCHANGED <<listeners, stream, received>>
  BY DEF NextAddress
<1>2. WellFormed(w) /\ w.calm \in BOOLEAN
  BY <1>1 DEF WalkInv, WellFormed
<1>3. /\ received' = [s \in Streams |-> received'[s]]
      /\ \A s \in Streams : Received(s)'
  BY <1>1 DEF WalkInv, Received
<1>4. ASSUME NEW s \in Streams
      PROVE  /\ Pending(e, s) => e \notin Range(received[s])
             /\ w.calm /\ s \in w.start => Pending(e, s) \/ e \in Range(received[s])
  BY <1>1 DEF WalkInv, Told
<1>5. ASSUME NEW v, publication' = [publication EXCEPT ![e] = v],
             v.at = "walking" => WellFormed(v), \A s \in Streams : Told(e, s)'
      PROVE  WalkInv'
  BY <1>1, <1>3, <1>5, WalkStep
<1>6. \A v : publication' = [publication EXCEPT ![e] = v] => publication'[e] = v
  BY DEF WalkInv
<1>7. CASE publication' = [publication EXCEPT ![e] = Failed]
  <2>1. Failed.at = "failed" /\ Failed # Unstarted
    BY DEF Failed, Unstarted
  <2>2. \A s \in Streams : Told(e, s)'
    BY <1>6, <1>7, <2>1 DEF Told, Walking
  <2> QED
    BY <1>5, <1>7, <2>1, <2>2
<1>8. CASE /\ DOMAIN listeners \ w.visited = {} \/ ~w.calm
           /\ publication' = [publication EXCEPT ![e] = Done(Witnesses(e))]
  <2> PICK v : v = Done(Witnesses(e))
    OBVIOUS
  <2>1. v.at = "done" /\ v.witnesses = Witnesses(e) /\ v # Unstarted
    BY DEF Done, Unstarted
  <2>2. ASSUME NEW s \in Streams, s \in Witnesses(e) PROVE e \in Range(received[s])
    <3>1. w.calm /\ s \in w.start /\ DOMAIN listeners \ w.visited = {}
      BY <1>2, <1>8, <2>2 DEF Witnesses
    <3>2. ~Pending(e, s)
      BY <1>1, <3>1, EndOfList
    <3> QED
      BY <1>4, <3>1, <3>2
  <2>3. \A s \in Streams : Told(e, s)'
    BY <1>1, <1>6, <1>8, <2>1, <2>2 DEF Told, Walking
  <2> QED
    BY <1>5, <1>8, <2>1, <2>3
<1>9. ASSUME NEW a \in DOMAIN listeners \ w.visited,
             publication' = [publication EXCEPT ![e] =
               [w EXCEPT !.visited = @ \cup {a}, !.address = <<a>>, !.index = 1]]
      PROVE  WalkInv'
  <2> PICK v : v = [w EXCEPT !.visited = @ \cup {a}, !.address = <<a>>, !.index = 1]
    OBVIOUS
  <2>1. /\ DOMAIN v = Fields /\ v.at = "walking" /\ v.index = 1
        /\ v.visited = w.visited \cup {a} /\ v.address = <<a>>
        /\ v.start = w.start /\ v.calm = w.calm
    <3>1. DOMAIN w = Fields /\ w.at = "walking"
      BY <1>2 DEF WellFormed
    <3> QED
      BY <3>1 DEF Fields
  <2>2. WellFormed(v)
    BY <1>2, <2>1 DEF WellFormed
  <2>3. publication'[e] = v /\ v # Unstarted /\ Walking(e)'
    <3>1. publication'[e] = v
      BY <1>6, <1>9
    <3>2. v # Unstarted
      BY <2>1 DEF Unstarted
    <3>3. Walking(e)'
      BY <2>1, <3>1 DEF Walking
    <3> QED
      BY <3>1, <3>2, <3>3
  <2>4. ASSUME NEW s \in Streams, Pending(e, s)' PROVE Pending(e, s)
    <3>1. \A b : <<a>> = <<b>> => b = a
      OBVIOUS
    <3> QED
      BY <1>1, <1>9, <2>1, <2>3, <2>4, <3>1 DEF Pending
  <2>5. ASSUME NEW s \in Streams, Pending(e, s) PROVE Pending(e, s)'
    <3>1. PICK b \in DOMAIN listeners \ w.visited :
            \E i \in 1 .. Len(listeners[b]) : listeners[b][i] = s
      BY <1>1, <2>5, EndOfList
    <3>2. PICK i \in 1 .. Len(listeners[b]) : listeners[b][i] = s
      BY <3>1
    <3>3. b \notin v.visited \/ (v.address = <<b>> /\ v.index <= i)
      BY <2>1
    <3> QED
      BY <1>1, <2>3, <3>2, <3>3 DEF Pending
  <2>6. \A s \in Streams : Told(e, s)'
    BY <1>1, <1>4, <2>1, <2>3, <2>4, <2>5 DEF Told
  <2> QED
    BY <1>5, <1>9, <2>2, <2>6
<1> QED
  BY <1>7, <1>8, <1>9 DEF NextAddress, Interrupted

LEMMA WalkInductive == ListsInv /\ WalkInv /\ [Next]_vars => WalkInv'
<1> SUFFICES ASSUME ListsInv, WalkInv, [Next]_vars PROVE WalkInv'
  OBVIOUS
<1>1. stream \in [Streams -> Calls]
  BY DEF ListsInv, Calls
<1>2. ASSUME NEW s \in Streams, NEW a \in Addresses, Connect(s, a) PROVE WalkInv'
  <2>1. /\ stream[s].at = "new" /\ UNCHANGED <<listeners, received, publication>>
        /\ stream' = [stream EXCEPT ![s] = [at |-> "called", address |-> a]]
    BY <1>2 DEF Connect
  <2> QED
    BY <1>1, <2>1, WalkFrame
<1>3. ASSUME NEW s \in Streams, Respond(s) \/ GoAway(s) PROVE WalkInv'
  <2>1. stream[s].at # "new" /\ UNCHANGED <<listeners, received, publication>>
    BY <1>3 DEF Respond, GoAway
  <2>2. PICK place \in CallPlaces :
          /\ GoTo(s, place)
          /\ place \in {"called", "responded"} => stream[s].at = "called"
    BY <1>3 DEF Respond, GoAway, CallPlaces
  <2>3. /\ stream'[s].at = place
        /\ \A t \in Streams : t # s => stream'[t] = stream[t]
    BY <1>1, <2>1, <2>2, GoToKeeps
  <2>4. place # "new"
    BY DEF CallPlaces
  <2> QED
    BY <2>1, <2>2, <2>3, <2>4, WalkFrame
<1>4. CASE CleanUp
  <2>1. listeners' = listeners /\ UNCHANGED <<stream, received, publication>>
    BY <1>4, CleanUpFindsNothing DEF CleanUp
  <2> QED
    BY <2>1, WalkFrame
<1>5. CASE UNCHANGED <<brokerVars, connection_log>>
  BY <1>5, WalkFrame DEF brokerVars
<1> QED
  BY <1>2, <1>3, <1>4, <1>5, SubscribeWalks, UnsubscribeWalks, PublishWalks,
     BeginWalks, PutWalks, NextWalks, BrokerSteps

\* However walks, subscriptions and ends interleave, no stream gets an event
\* twice (publish).
THEOREM AlwaysReceivedOnce == Spec => []ReceivedOnce
<1>1. WalkInv => ReceivedOnce
  BY DEF WalkInv, Received, ReceivedOnce
<1> QED
  BY <1>1, ListsInitially, ListsInductive, WalkInitially, WalkInductive, PTL
     DEF Spec

\* Only queues of the server's streams are witnesses of a publication.
WitnessInv ==
  \A e \in Events : publication[e].at = "done" =>
    publication[e].witnesses \subseteq Streams

LEMMA WitnessInitially == Init => WitnessInv
BY DEF Init, BrokerInit, WitnessInv, Unstarted

LEMMA WitnessStep ==
  ASSUME WalkInv, WitnessInv, NEW e \in Events, NEW v,
         publication' = [publication EXCEPT ![e] = v],
         v.at = "done" => v.witnesses \subseteq Streams
  PROVE  WitnessInv'
<1>1. /\ publication'[e] = v
      /\ \A f \in Events : f # e => publication'[f] = publication[f]
  BY DEF WalkInv
<1> QED
  BY <1>1 DEF WitnessInv

LEMMA WitnessInductive ==
  ListsInv /\ WalkInv /\ WitnessInv /\ [Next]_vars => WitnessInv'
<1> SUFFICES ASSUME ListsInv, WalkInv, WitnessInv, [Next]_vars PROVE WitnessInv'
  OBVIOUS
<1>1. ASSUME publication' = publication PROVE WitnessInv'
  BY <1>1 DEF WitnessInv
<1>2. ASSUME NEW s \in Streams, Unsubscribe(s) PROVE WitnessInv'
  <2>1. Open(s) /\ publication' = Disturbed(stream[s].address)
    BY <1>2 DEF Unsubscribe, Open
  <2>2. ASSUME NEW e \in Events, ~Walking(e) PROVE publication'[e] = publication[e]
    BY <2>1, <2>2, DisturbedWalk
  <2>3. ASSUME NEW e \in Events, Walking(e) PROVE publication'[e].at = "walking"
    BY <2>1, <2>3, DisturbedWalk DEF Shaken
  <2> QED
    BY <2>2, <2>3 DEF WitnessInv
<1>3. ASSUME NEW e \in Events, PublishOnLoop(e) PROVE WitnessInv'
  <2>1. publication' = [publication EXCEPT ![e] = Done(Queued)]
    BY <1>3 DEF PublishOnLoop
  <2>2. Done(Queued).witnesses = Queued
    BY DEF Done
  <2> QED
    BY <2>1, <2>2, QueuedListed, WitnessStep
<1>4. ASSUME NEW e \in Events, BeginWalk(e) PROVE WitnessInv'
  <2> PICK w : w = [at |-> "walking", size |-> Cardinality(DOMAIN listeners),
                    visited |-> {}, address |-> <<>>, index |-> 1,
                    start |-> Queued, calm |-> TRUE]
    OBVIOUS
  <2>1. publication' = [publication EXCEPT ![e] = w] /\ w.at = "walking"
    BY <1>4 DEF BeginWalk
  <2> QED
    BY <2>1, WitnessStep
<1>5. ASSUME NEW e \in Events, PutNext(e) \/ NextAddress(e) PROVE WitnessInv'
  <2> PICK w : w = publication[e]
    OBVIOUS
  <2>1. DOMAIN w = Fields /\ w.at = "walking" /\ w.start \subseteq Streams
    BY <1>5 DEF PutNext, NextAddress, Walking, WalkInv, WellFormed
  <2>2. CASE PutNext(e)
    <3> PICK v : v = [w EXCEPT !.index = @ + 1]
      OBVIOUS
    <3>1. publication' = [publication EXCEPT ![e] = v] /\ v.at = "walking"
      BY <2>1, <2>2 DEF PutNext, Fields
    <3> QED
      BY <3>1, WitnessStep
  <2>3. CASE publication' = [publication EXCEPT ![e] = Failed]
    BY <2>3, WitnessStep DEF Failed
  <2>4. CASE publication' = [publication EXCEPT ![e] = Done(Witnesses(e))]
    <3>1. Witnesses(e) \subseteq Streams
      BY <2>1 DEF Witnesses
    <3>2. Done(Witnesses(e)).witnesses = Witnesses(e)
      BY DEF Done
    <3> QED
      BY <2>4, <3>1, <3>2, WitnessStep
  <2>5. ASSUME NEW a,
               publication' = [publication EXCEPT ![e] =
                 [w EXCEPT !.visited = @ \cup {a}, !.address = <<a>>, !.index = 1]]
        PROVE  WitnessInv'
    <3> PICK v : v = [w EXCEPT !.visited = @ \cup {a}, !.address = <<a>>, !.index = 1]
      OBVIOUS
    <3>1. v.at = "walking"
      BY <2>1 DEF Fields
    <3> QED
      BY <2>5, <3>1, WitnessStep
  <2> QED
    BY <1>5, <2>2, <2>3, <2>4, <2>5 DEF NextAddress, Interrupted
<1>6. ASSUME \/ CleanUp \/ UNCHANGED <<brokerVars, connection_log>>
             \/ \E s \in Streams : \/ \E a \in Addresses : Connect(s, a)
                                  \/ Respond(s) \/ Subscribe(s) \/ GoAway(s)
      PROVE  publication' = publication
  BY <1>6 DEF CleanUp, brokerVars, Connect, Respond, Subscribe, GoAway
<1> QED
  BY <1>1, <1>2, <1>3, <1>4, <1>5, <1>6, BrokerSteps

\* A publication that ends without an error has reached every stream that was
\* open when it began, unless some stream ended while it ran (publish).
THEOREM CalmWalksAlwaysReachAll == Spec => []CalmWalkReachesAll
<1>1. WalkInv /\ WitnessInv => CalmWalkReachesAll
  <2> SUFFICES ASSUME WalkInv, WitnessInv, NEW e \in Events, publication[e].at = "done",
                      NEW s \in publication[e].witnesses
               PROVE  e \in Range(received[s])
    BY DEF CalmWalkReachesAll
  <2> QED
    BY DEF WalkInv, Told, WitnessInv
<1> QED
  BY <1>1, ListsInitially, ListsInductive, WalkInitially, WalkInductive,
     WitnessInitially, WitnessInductive, PTL DEF Spec

-----------------------------------------------------------------------------
(* The token.                                                              *)

Names == {"claimed", "submitted", "completed", "disputed", "approved"}

CallKinds ==
  [do : {"comment"}] \cup [do : {"add"}, labels : SUBSET Names]
    \cup [do : {"remove"}, label : Names]

\* The calls of an update, at most four.
Plans == {calls \in Seq(CallKinds) : Len(calls) \in 1 .. 4}

Exchanging == [at : {"exchanging"}, calls : Plans, since : Nat]
InCalls == [at : {"calling"}, calls : Plans, token : Nat, since : Nat]

\* The token outlives the calls that follow the present one.
Enough(u) ==
  /\ u.since < u.token
  /\ Len(u.calls) >= 2 => u.since + CallTime < u.token
  /\ Len(u.calls) >= 3 => u.since + 2 * CallTime < u.token
  /\ Len(u.calls) >= 4 => u.since + 3 * CallTime < u.token

Sound(u, time) ==
  \/ u = Idle
  \/ /\ u \in Exchanging \cup InCalls
     /\ u.since <= time /\ time <= u.since + CallTime
     /\ u \in InCalls => Enough(u)

LabelsInv ==
  /\ now \in Nat /\ now <= MaxTime
  /\ token_cache \in Nat
  /\ update = [h \in Handlers |-> update[h]]
  /\ \A h \in Handlers : Sound(update[h], now)

-----------------------------------------------------------------------------
(* The plans of the operations.                                            *)

\* Any row operation makes a comment, adds its labels in one call and removes
\* at most two labels (post_github_comment_and_labels).
LEMMA OpIsPlan ==
  ASSUME NEW from, NEW to, NEW add \in SUBSET Names,
         NEW remove \in Seq(Names), Len(remove) <= 2
  PROVE  Op(from, to, add, remove).calls \in Plans
<1> DEFINE comment == <<[do |-> "comment"]>>
           added == IF add = {} THEN <<>> ELSE <<[do |-> "add", labels |-> add]>>
           removed == [i \in DOMAIN remove |-> [do |-> "remove", label |-> remove[i]]]
<1>1. comment \in Seq(CallKinds) /\ Len(comment) = 1
  BY DEF CallKinds
<1>2. added \in Seq(CallKinds) /\ Len(added) \in 0 .. 1
  <2>1. CASE add = {}
    BY <2>1
  <2>2. CASE add # {}
    <3>1. [do |-> "add", labels |-> add] \in CallKinds
      BY DEF CallKinds
    <3>2. added = <<[do |-> "add", labels |-> add]>>
      BY <2>2
    <3> HIDE DEF added
    <3> QED BY <3>1, <3>2
  <2> QED BY <2>1, <2>2
<1>3. removed \in Seq(CallKinds) /\ Len(removed) = Len(remove)
  <2>1. \A i \in 1 .. Len(remove) : remove[i] \in Names
    OBVIOUS
  <2>2. removed \in [1 .. Len(remove) -> CallKinds]
    BY <2>1 DEF CallKinds
  <2> QED BY <2>2
<1>4. Len(remove) \in Nat
  OBVIOUS
<1> DEFINE calls == (comment \o added) \o removed
<1>5. comment \o added \in Seq(CallKinds) /\ Len(comment \o added) \in 1 .. 2
  BY <1>1, <1>2
<1>6. calls \in Seq(CallKinds) /\ Len(calls) \in 1 .. 4
  BY <1>3, <1>4, <1>5
<1>7. Op(from, to, add, remove).calls = calls
  BY DEF Op
<1> QED BY <1>6, <1>7 DEF Plans

LEMMA OpsArePlans == \A op \in Ops : op.calls \in Plans
<1>1. \A from, to : \A add \in SUBSET Names, remove \in Seq(Names) :
        Len(remove) <= 2 => Op(from, to, add, remove).calls \in Plans
  BY OpIsPlan
<1>2. Claim.calls \in Plans
  <2>1. {"claimed"} \in SUBSET Names
    BY DEF Names
  <2>2. <<>> \in Seq(Names) /\ Len(<<>>) <= 2
    BY DEF Names
  <2>3. Op({"open"}, "claimed", {"claimed"},
           <<>>).calls \in Plans
    BY <1>1, <2>1, <2>2, Zenon
  <2> QED BY <2>3 DEF Claim
<1>3. Submit.calls \in Plans
  <2>1. {"submitted"} \in SUBSET Names
    BY DEF Names
  <2>2. <<"claimed">> \in Seq(Names) /\ Len(<<"claimed">>) <= 2
    BY DEF Names
  <2>3. Op({"claimed", "rejected"}, "submitted", {"submitted"},
           <<"claimed">>).calls \in Plans
    BY <1>1, <2>1, <2>2, Zenon
  <2> QED BY <2>3 DEF Submit
<1>4. Approve.calls \in Plans
  <2>1. {"completed"} \in SUBSET Names
    BY DEF Names
  <2>2. <<"submitted", "claimed">> \in Seq(Names) /\ Len(<<"submitted", "claimed">>) <= 2
    BY DEF Names
  <2>3. Op({"submitted"}, "closed", {"completed"},
           <<"submitted", "claimed">>).calls \in Plans
    BY <1>1, <2>1, <2>2, Zenon
  <2> QED BY <2>3 DEF Approve
<1>5. Reject.calls \in Plans
  <2>1. {} \in SUBSET Names
    BY DEF Names
  <2>2. <<"submitted">> \in Seq(Names) /\ Len(<<"submitted">>) <= 2
    BY DEF Names
  <2>3. Op({"submitted"}, "rejected", {},
           <<"submitted">>).calls \in Plans
    BY <1>1, <2>1, <2>2, Zenon
  <2> QED BY <2>3 DEF Reject
<1>6. Dispute.calls \in Plans
  <2>1. {"disputed"} \in SUBSET Names
    BY DEF Names
  <2>2. <<>> \in Seq(Names) /\ Len(<<>>) <= 2
    BY DEF Names
  <2>3. Op({"submitted", "rejected"}, "disputed", {"disputed"},
           <<>>).calls \in Plans
    BY <1>1, <2>1, <2>2, Zenon
  <2> QED BY <2>3 DEF Dispute
<1>7. Release.calls \in Plans
  <2>1. {"approved"} \in SUBSET Names
    BY DEF Names
  <2>2. <<"submitted", "claimed">> \in Seq(Names) /\ Len(<<"submitted", "claimed">>) <= 2
    BY DEF Names
  <2>3. Op({"claimed", "submitted"}, "closed", {"approved"},
           <<"submitted", "claimed">>).calls \in Plans
    BY <1>1, <2>1, <2>2, Zenon
  <2> QED BY <2>3 DEF Release
<1> QED BY <1>2, <1>3, <1>4, <1>5, <1>6, <1>7 DEF Ops

\* What is left of a plan after its first call.
LEMMA RestIsPlan ==
  ASSUME NEW calls \in Plans, Len(calls) # 1
  PROVE  Tail(calls) \in Plans /\ Len(Tail(calls)) = Len(calls) - 1
<1>1. calls \in Seq(CallKinds) /\ Len(calls) \in 2 .. 4 /\ calls # <<>>
  BY DEF Plans
<1>2. Tail(calls) \in Seq(CallKinds) /\ Len(Tail(calls)) = Len(calls) - 1
  BY <1>1, HeadTailProperties
<1> QED BY <1>1, <1>2 DEF Plans

-----------------------------------------------------------------------------
(* The clock.                                                              *)

\* What limiter and broker do leaves the clock alone, but for one tick.
LEMMA ClockTicks ==
  ASSUME BrokerNext, now \in Nat, now <= MaxTime
  PROVE  now' = now \/ (now < MaxTime /\ now' = now + 1)
<1>1. ASSUME NEW s \in Streams,
             \/ \E a \in Addresses : Connect(s, a)
             \/ Respond(s) \/ Subscribe(s) \/ GoAway(s) \/ Unsubscribe(s)
      PROVE  now' = now
  BY <1>1 DEF Connect, Enter, Respond, Leave, Subscribe, GoAway, Unsubscribe,
              limiterVars
<1>2. ASSUME NEW e \in Events,
             PublishOnLoop(e) \/ BeginWalk(e) \/ PutNext(e) \/ NextAddress(e)
      PROVE  now' = now
  BY <1>2 DEF PublishOnLoop, BeginWalk, PutNext, NextAddress, limiterVars
<1>3. CASE CleanUp
  BY <1>3 DEF CleanUp, limiterVars
<1>4. CASE Request
  BY <1>4 DEF Request
<1>5. CASE Tick
  BY <1>5 DEF Tick
<1> QED BY <1>1, <1>2, <1>3, <1>4, <1>5 DEF BrokerNext

-----------------------------------------------------------------------------
(* The updates.                                                            *)

\* A good token is enough for any plan, and without one nothing is called
\* (post_github_comment_and_labels).
LEMMA CallingIsSound ==
  ASSUME now \in Nat, NEW calls \in Plans, NEW token \in Nat,
         token = NoToken \/ now + 3 * CallTime < token
  PROVE  Sound(Calling(calls, token), now)
<1>1. CASE token = NoToken
  BY <1>1 DEF Calling, Sound
<1>2. CASE token # NoToken
  <2> DEFINE u == [at |-> "calling", calls |-> calls, token |-> token, since |-> now]
  <2>1. u \in InCalls
    BY DEF InCalls
  <2>2. CallTime \in Nat /\ now + 3 * CallTime < token
    BY <1>2, LabelsAssumption
  <2>3. Enough(u)
    BY <2>2 DEF Enough
  <2>4. Sound(u, now)
    BY <2>1, <2>2, <2>3 DEF Sound
  <2> QED BY <1>2, <2>4 DEF Calling
<1> QED BY <1>1, <1>2

\* GITHUB_TOKEN does not expire within the time of the model.
LEMMA FallbackIsGood ==
  ASSUME now \in Nat, now <= MaxTime
  PROVE  /\ FallbackToken \in Nat
         /\ FallbackToken = NoToken \/ now + 3 * CallTime < FallbackToken
BY LabelsAssumption, LimiterAssumption DEF FallbackToken, NoToken, Lasting

\* get_github_bot_token gives no token that would not last.
LEMMA FetchingIsSound ==
  ASSUME LabelsInv, NEW calls \in Plans
  PROVE  Sound(Fetching(calls), now)
<1>1. CASE ~AppConfigured
  BY <1>1, FallbackIsGood, CallingIsSound DEF Fetching, LabelsInv
<1>2. CASE AppConfigured /\ Fresh
  <2>1. token_cache \in Nat /\ now + 3 * CallTime < token_cache
    BY <1>2, LabelsAssumption DEF Fresh, LabelsInv
  <2> QED BY <1>2, <2>1, CallingIsSound DEF Fetching, LabelsInv
<1>3. CASE AppConfigured /\ ~Fresh
  <2> DEFINE u == [at |-> "exchanging", calls |-> calls, since |-> now]
  <2>1. u \in Exchanging /\ u \notin InCalls
    BY DEF Exchanging, InCalls, LabelsInv
  <2>2. Sound(u, now)
    BY <2>1, LabelsAssumption DEF Sound, LabelsInv
  <2> QED BY <1>3, <2>2 DEF Fetching
<1> QED BY <1>1, <1>2, <1>3

LEMMA SoundUpdate ==
  ASSUME LabelsInv, NEW h \in Handlers, NEW u, Sound(u, now),
         update' = [update EXCEPT ![h] = u], now' = now, token_cache' \in Nat
  PROVE  LabelsInv'
<1>1. update' = [k \in Handlers |-> IF k = h THEN u ELSE update[k]]
  BY DEF LabelsInv
<1> QED BY <1>1 DEF LabelsInv, Sound

-----------------------------------------------------------------------------
LEMMA LabelsInitially == Init => LabelsInv
<1> SUFFICES ASSUME Init PROVE LabelsInv
  OBVIOUS
<1>1. now = 0
  BY DEF Init, BrokerInit, LimiterInit
<1> QED BY <1>1, LimiterAssumption DEF Init, LabelsInv, Sound, NoToken

LEMMA LabelsInductive == LabelsInv /\ [Next]_vars => LabelsInv'
<1> SUFFICES ASSUME LabelsInv, [Next]_vars PROVE LabelsInv'
  OBVIOUS
<1>1. now \in Nat /\ now <= MaxTime /\ token_cache \in Nat
  BY DEF LabelsInv
<1>2. CASE BrokerNext /\ (now' # now => Punctual) /\ UNCHANGED labelVars
  <2>1. now' \in Nat /\ now' <= MaxTime
    BY <1>1, <1>2, ClockTicks, LimiterAssumption
  <2>2. update' = update /\ token_cache' = token_cache
    BY <1>2 DEF labelVars
  <2>3. CASE now' = now
    BY <2>2, <2>3 DEF LabelsInv
  <2>4. CASE now' = now + 1
    <3>1. ASSUME NEW h \in Handlers PROVE Sound(update[h], now')
      <4>1. CASE update[h] = Idle
        BY <4>1 DEF Sound
      <4>2. CASE update[h] # Idle
        <5>1. now - update[h].since < CallTime
          BY <1>1, <1>2, <2>4, <4>2 DEF Punctual, Updating
        <5>2. Sound(update[h], now) /\ update[h].since \in Nat
          BY <4>2 DEF LabelsInv, Sound, Exchanging, InCalls
        <5>3. update[h].since <= now' /\ now' <= update[h].since + CallTime
          BY <1>1, <2>4, <4>2, <5>1, <5>2, LabelsAssumption DEF Sound
        <5> QED BY <4>2, <5>2, <5>3 DEF Sound
      <4> QED BY <4>1, <4>2
    <3> QED BY <2>1, <2>2, <3>1 DEF LabelsInv
  <2> QED BY <1>1, <1>2, <2>3, <2>4, ClockTicks
<1>3. CASE LabelNext /\ UNCHANGED <<brokerVars, limiterVars>>
  <2>1. now' = now
    BY <1>3 DEF limiterVars
  <2>2. ASSUME NEW h \in Handlers, NEW op \in Ops, Move(h, op)
        PROVE  LabelsInv'
    <3>1. Sound(Fetching(op.calls), now)
      BY OpsArePlans, FetchingIsSound
    <3> QED BY <1>1, <2>1, <2>2, <3>1, SoundUpdate DEF Move
  <2>3. ASSUME NEW h \in Handlers, Exchanged(h)
        PROVE  LabelsInv'
    <3>1. update[h] \in Exchanging /\ Sound(update[h], now)
      BY <2>3 DEF Exchanged, LabelsInv, Sound, Idle, InCalls
    <3>2. update[h].calls \in Plans /\ update[h].since \in Nat
      BY <3>1 DEF Exchanging
    <3>3. now <= update[h].since + CallTime
      BY <2>3, <3>1 DEF Sound, Idle, Exchanged
    <3>4. PICK issued \in update[h].since .. now :
            /\ token_cache' = issued + Life
            /\ update' = [update EXCEPT ![h] =
                            Calling(update[h].calls, issued + Life)]
      BY <2>3 DEF Exchanged
    <3>5. issued + Life \in Nat /\ now + 3 * CallTime < issued + Life
      BY <1>1, <3>2, <3>3, LabelsAssumption
    <3>6. Sound(Calling(update[h].calls, issued + Life), now)
      BY <1>1, <3>2, <3>5, CallingIsSound
    <3> QED BY <2>1, <3>4, <3>5, <3>6, SoundUpdate
  <2>4. ASSUME NEW h \in Handlers, ExchangeFailed(h)
        PROVE  LabelsInv'
    <3>1. update[h].calls \in Plans
      BY <2>4 DEF ExchangeFailed, LabelsInv, Sound, Idle, InCalls, Exchanging
    <3>2. Sound(Calling(update[h].calls, FallbackToken), now)
      BY <1>1, <3>1, FallbackIsGood, CallingIsSound
    <3> QED BY <1>1, <2>1, <2>4, <3>2, SoundUpdate DEF ExchangeFailed
  <2>5. ASSUME NEW h \in Handlers, CallEnds(h)
        PROVE  LabelsInv'
    <3>1. update[h] \in InCalls /\ Sound(update[h], now)
      BY <2>5 DEF CallEnds, LabelsInv, Sound, Idle, Exchanging
    <3>2. /\ Enough(update[h])
          /\ now <= update[h].since + CallTime
      BY <2>5, <3>1 DEF Sound, Idle, CallEnds
    <3>3. /\ update[h].calls \in Seq(CallKinds) /\ Len(update[h].calls) \in 1 .. 4
          /\ update[h].token \in Nat /\ update[h].since \in Nat
      BY <3>1 DEF InCalls, Plans
    <3>4. CASE Len(update[h].calls) = 1
      BY <1>1, <2>1, <2>5, <3>4, SoundUpdate DEF CallEnds, Rest, Sound
    <3>5. CASE Len(update[h].calls) # 1
      <4> DEFINE rest == Tail(update[h].calls)
                 u == [at |-> "calling", calls |-> rest,
                       token |-> update[h].token, since |-> now]
      <4>1. Len(rest) = Len(update[h].calls) - 1
        BY <3>3, <3>5, RestIsPlan DEF Plans
      <4>2. rest \in Plans
        BY <3>3, <3>5, RestIsPlan DEF Plans
      <4>3. u \in InCalls
        BY <1>1, <3>3, <4>2 DEF InCalls
      <4>4. /\ now < update[h].token
            /\ Len(rest) >= 2 => now + CallTime < update[h].token
            /\ Len(rest) >= 3 => now + 2 * CallTime < update[h].token
            /\ Len(rest) <= 3
        <5>1. /\ Len(update[h].calls) \in Int
              /\ Len(update[h].calls) >= 2 /\ Len(update[h].calls) <= 4
          <6> DEFINE n == Len(update[h].calls)
          <6>1. n \in 1 .. 4 /\ n # 1
            BY <3>3, <3>5
          <6> HIDE DEF n
          <6>2. n \in Int /\ n >= 2 /\ n <= 4
            BY <6>1
          <6> QED BY <6>2 DEF n
        <5>2. CallTime \in Nat
          BY LabelsAssumption
        <5>3. update[h].since + CallTime < update[h].token
          BY <3>2, <5>1 DEF Enough
        <5>4. Len(rest) >= 2 => update[h].since + 2 * CallTime < update[h].token
          BY <3>2, <4>1, <5>1 DEF Enough
        <5>5. Len(rest) >= 3 => update[h].since + 3 * CallTime < update[h].token
          BY <3>2, <4>1, <5>1 DEF Enough
        <5>6. Len(rest) <= 3
          BY <4>1, <5>1
        <5>7. \A since, token \in Nat :
                now <= since + CallTime =>
                /\ since + CallTime < token => now < token
                /\ since + 2 * CallTime < token => now + CallTime < token
                /\ since + 3 * CallTime < token => now + 2 * CallTime < token
          BY <1>1, <5>2
        <5> QED BY <3>2, <3>3, <5>3, <5>4, <5>5, <5>6, <5>7
      <4>5. Enough(u)
        BY <3>3, <4>1, <4>4 DEF Enough
      <4>6. Sound(u, now)
        BY <1>1, <4>3, <4>5, LabelsAssumption DEF Sound
      <4>7. update[h].token # NoToken
        BY <1>1, <3>3, <4>4 DEF NoToken
      <4>8. update' = [update EXCEPT ![h] = u] /\ token_cache' = token_cache
        BY <2>5, <3>5, <4>7 DEF CallEnds, Rest, Calling
      <4> QED BY <1>1, <2>1, <4>6, <4>8, SoundUpdate
    <3> QED BY <3>4, <3>5
  <2>6. CASE MoveSilently
    BY <1>1, <2>1, <2>6 DEF MoveSilently, LabelsInv
  <2> QED BY <1>3, <2>2, <2>3, <2>4, <2>5, <2>6 DEF LabelNext
<1>4. CASE UNCHANGED vars
  BY <1>4 DEF vars, limiterVars, labelVars, LabelsInv
<1> QED BY <1>2, <1>3, <1>4 DEF Next

\* For any number of handlers, and for every life of a token, margin and length
\* of a call that satisfy LabelsAssumption, no call is sent with an expired
\* token (get_github_bot_token, post_github_comment_and_labels).
THEOREM TokenAlwaysOutlives == Spec => []TokenOutlivesUpdate
<1>1. LabelsInv => TokenOutlivesUpdate
  BY DEF LabelsInv, TokenOutlivesUpdate, Sound, Idle, Exchanging, Enough
<1> QED BY <1>1, LabelsInitially, LabelsInductive, PTL DEF Spec

-----------------------------------------------------------------------------
(* The labels.                                                             *)

\* The labels after one call.
LabelsAfter(l, call) ==
  CASE call.do = "comment" -> l
    [] call.do = "add" -> l \cup call.labels
    [] call.do = "remove" -> l \ {call.label}

\* The labels after all calls of a plan.
LabelsAtEnd(l, calls) ==
  LET one   == LabelsAfter(l, calls[1])
      two   == IF Len(calls) >= 2 THEN LabelsAfter(one, calls[2]) ELSE one
      three == IF Len(calls) >= 3 THEN LabelsAfter(two, calls[3]) ELSE two
  IN  IF Len(calls) >= 4 THEN LabelsAfter(three, calls[4]) ELSE three

\* It is the effect of one call after the other.
LEMMA AtEnd ==
  ASSUME NEW l, NEW calls
  PROVE  /\ Len(calls) = 1 => LabelsAtEnd(l, calls) = LabelsAfter(l, calls[1])
         /\ Len(calls) = 2 =>
              LabelsAtEnd(l, calls) = LabelsAfter(LabelsAfter(l, calls[1]), calls[2])
         /\ Len(calls) = 3 =>
              LabelsAtEnd(l, calls)
                = LabelsAfter(LabelsAfter(LabelsAfter(l, calls[1]), calls[2]), calls[3])
         /\ Len(calls) = 4 =>
              LabelsAtEnd(l, calls)
                = LabelsAfter(LabelsAfter(LabelsAfter(LabelsAfter(l, calls[1]),
                                                      calls[2]), calls[3]), calls[4])
<1> DEFINE n == Len(calls)
<1>1. /\ n = 1 => ~(n >= 2) /\ ~(n >= 3) /\ ~(n >= 4)
      /\ n = 2 => n >= 2 /\ ~(n >= 3) /\ ~(n >= 4)
      /\ n = 3 => n >= 2 /\ n >= 3 /\ ~(n >= 4)
      /\ n = 4 => n >= 2 /\ n >= 3 /\ n >= 4
  <2> HIDE DEF n
  <2> QED
    OBVIOUS
<1> QED
  BY <1>1, Zenon DEF LabelsAtEnd

\* The calls of an operation, one by one.
LEMMA OpCalls ==
  ASSUME NEW from, NEW to, NEW add, NEW remove \in Seq(Names)
  PROVE  LET calls == Op(from, to, add, remove).calls
             n == IF add = {} THEN 1 ELSE 2
         IN  /\ Len(calls) = n + Len(remove)
             /\ calls[1] = [do |-> "comment"]
             /\ add # {} => calls[2] = [do |-> "add", labels |-> add]
             /\ \A i \in 1 .. Len(remove) :
                  calls[n + i] = [do |-> "remove", label |-> remove[i]]
<1>1. \A T : \A s, t \in Seq(T) :
        /\ s \o t \in Seq(T) /\ Len(s \o t) = Len(s) + Len(t)
        /\ \A i \in 1 .. Len(s) : (s \o t)[i] = s[i]
        /\ \A i \in 1 .. Len(t) : (s \o t)[Len(s) + i] = t[i]
  OBVIOUS
<1> DEFINE comment == <<[do |-> "comment"]>>
           addition == [do |-> "add", labels |-> add]
           added == IF add = {} THEN <<>> ELSE <<addition>>
           Removal(i) == [do |-> "remove", label |-> remove[i]]
           removed == [i \in DOMAIN remove |-> Removal(i)]
           S == {[do |-> "comment"], addition} \cup {Removal(i) : i \in DOMAIN remove}
           n == IF add = {} THEN 1 ELSE 2
           first == comment \o added
<1>2. comment \in Seq(S) /\ Len(comment) = 1 /\ comment[1] = [do |-> "comment"]
  <2>1. [do |-> "comment"] \in S
    OBVIOUS
  <2> HIDE DEF S
  <2> QED
    BY <2>1
<1>3. /\ added \in Seq(S) /\ Len(added) = n - 1
      /\ add # {} => added[1] = addition
  <2>1. addition \in S
    OBVIOUS
  <2> HIDE DEF S, addition
  <2> QED
    BY <2>1
<1>4. /\ removed \in Seq(S) /\ Len(removed) = Len(remove)
      /\ \A i \in 1 .. Len(remove) : removed[i] = Removal(i)
  <2>1. DOMAIN remove = 1 .. Len(remove) /\ Len(remove) \in Nat
    OBVIOUS
  <2>2. \A i \in DOMAIN remove : Removal(i) \in S
    OBVIOUS
  <2> HIDE DEF S, Removal
  <2>3. removed \in [1 .. Len(remove) -> S]
    BY <2>1, <2>2
  <2> QED
    BY <2>1, <2>3
<1> HIDE DEF S, Removal, addition, comment, added, removed
<1>5. n \in {1, 2} /\ (add # {} => n = 2)
  OBVIOUS
<1> HIDE DEF n
<1>6. /\ first \in Seq(S) /\ Len(first) = n
      /\ first[1] = comment[1]
      /\ add # {} => first[2] = added[1]
  <2>1. first \in Seq(S) /\ Len(first) = n
    BY <1>1, <1>2, <1>3, <1>5
  <2>2. first[1] = comment[1]
    BY <1>1, <1>2, <1>3, <1>5
  <2>3. ASSUME add # {} PROVE first[2] = added[1]
    <3>1. Len(added) = 1
      BY <1>3, <1>5, <2>3
    <3> QED
      BY <1>1, <1>2, <1>3, <3>1
  <2> QED
    BY <2>1, <2>2, <2>3
<1>7. Len(remove) \in Nat
  OBVIOUS
<1> HIDE DEF first
<1> DEFINE calls == first \o removed
<1>8. /\ Len(calls) = n + Len(remove)
      /\ calls[1] = comment[1]
      /\ add # {} => calls[2] = added[1]
      /\ \A i \in 1 .. Len(remove) : calls[n + i] = removed[i]
  <2>1. /\ Len(calls) = Len(first) + Len(removed)
        /\ \A i \in 1 .. Len(first) : calls[i] = first[i]
    BY <1>1, <1>4, <1>6
  <2>2. Len(calls) = n + Len(remove)
    BY <1>4, <1>6, <2>1
  <2>3. \A i \in 1 .. n : calls[i] = first[i]
    BY <1>6, <2>1
  <2>4. 1 \in 1 .. n /\ (n = 2 => 2 \in 1 .. n)
    BY <1>5
  <2>5. calls[1] = first[1] /\ (n = 2 => calls[2] = first[2])
    BY <2>3, <2>4
  <2>6. ASSUME NEW i \in 1 .. Len(remove) PROVE calls[n + i] = removed[i]
    <3>1. \A j \in 1 .. Len(removed) : calls[Len(first) + j] = removed[j]
      BY <1>1, <1>4, <1>6
    <3> QED
      BY <1>4, <1>6, <3>1
  <2> HIDE DEF calls
  <2> QED
    BY <1>6, <1>5, <2>2, <2>5, <2>6
<1>9. Op(from, to, add, remove).calls = calls
  BY DEF Op, first, comment, added, addition, removed, Removal
<1> HIDE DEF calls
<1> QED
  BY <1>2, <1>3, <1>4, <1>8, <1>9 DEF addition, Removal, n

\* The calls that follow the first have the rest of the effect.
LEMMA RestOfEffect ==
  ASSUME NEW l, NEW calls \in Plans
  PROVE  LabelsAtEnd(l, calls)
           = IF Len(calls) = 1 THEN LabelsAfter(l, Head(calls))
             ELSE LabelsAtEnd(LabelsAfter(l, Head(calls)), Tail(calls))
<1>1. calls \in Seq(CallKinds) /\ Len(calls) \in {1, 2, 3, 4} /\ calls # <<>>
  BY DEF Plans
<1>2. Head(calls) = calls[1]
  BY <1>1
<1>3. /\ Len(Tail(calls)) = Len(calls) - 1
      /\ \A i \in 1 .. Len(Tail(calls)) : Tail(calls)[i] = calls[i + 1]
  BY <1>1, HeadTailProperties
<1> DEFINE t == Tail(calls)
<1>4. /\ Len(calls) \in {2, 3, 4} => t[1] = calls[2]
      /\ Len(calls) \in {3, 4} => t[2] = calls[3]
      /\ Len(calls) = 4 => t[3] = calls[4]
      /\ Len(calls) = 2 => Len(t) = 1
      /\ Len(calls) = 3 => Len(t) = 2
      /\ Len(calls) = 4 => Len(t) = 3
  <2> DEFINE n == Len(calls)
  <2>1. /\ Len(t) = n - 1
        /\ \A i \in 1 .. n - 1 : t[i] = calls[i + 1]
    BY <1>3
  <2>2. n \in {1, 2, 3, 4}
    BY <1>1
  <2> HIDE DEF n, t
  <2>3. /\ n \in {2, 3, 4} => t[1] = calls[1 + 1]
        /\ n \in {3, 4} => t[2] = calls[2 + 1]
        /\ n = 4 => t[3] = calls[3 + 1]
    BY <2>1, <2>2
  <2>4. /\ n = 2 => Len(t) = 1
        /\ n = 3 => Len(t) = 2
        /\ n = 4 => Len(t) = 3
    BY <2>1, <2>2
  <2> QED
    BY <2>3, <2>4 DEF n
<1> DEFINE first == LabelsAfter(l, calls[1])
<1> HIDE DEF t
<1>5. CASE Len(calls) = 1
  BY <1>2, <1>5, AtEnd, Zenon
<1>6. CASE Len(calls) = 2
  <2>1. LabelsAtEnd(first, t) = LabelsAfter(first, calls[2])
    BY <1>4, <1>6, AtEnd
  <2>2. LabelsAtEnd(l, calls) = LabelsAfter(first, calls[2])
    BY <1>6, AtEnd
  <2> QED
    BY <1>2, <1>6, <2>1, <2>2 DEF t
<1>7. CASE Len(calls) = 3
  <2>1. LabelsAtEnd(first, t) = LabelsAfter(LabelsAfter(first, calls[2]), calls[3])
    BY <1>4, <1>7, AtEnd
  <2>2. LabelsAtEnd(l, calls) = LabelsAfter(LabelsAfter(first, calls[2]), calls[3])
    BY <1>7, AtEnd
  <2> QED
    BY <1>2, <1>7, <2>1, <2>2 DEF t
<1>8. CASE Len(calls) = 4
  <2>1. LabelsAtEnd(first, t)
          = LabelsAfter(LabelsAfter(LabelsAfter(first, calls[2]), calls[3]), calls[4])
    BY <1>4, <1>8, AtEnd
  <2>2. LabelsAtEnd(l, calls)
          = LabelsAfter(LabelsAfter(LabelsAfter(first, calls[2]), calls[3]), calls[4])
    BY <1>8, AtEnd
  <2> QED
    BY <1>2, <1>8, <2>1, <2>2 DEF t
<1> QED
  BY <1>1, <1>5, <1>6, <1>7, <1>8

Members(remove) == {remove[i] : i \in 1 .. Len(remove)}

\* The whole effect of an operation that removes at most two labels.
LEMMA OpEffect ==
  ASSUME NEW from, NEW to, NEW add \in SUBSET Names, NEW remove \in Seq(Names),
         Len(remove) <= 2, add # {} \/ remove # <<>>, NEW l
  PROVE  LabelsAtEnd(l, Op(from, to, add, remove).calls)
           = (l \cup add) \ Members(remove)
<1> DEFINE calls == Op(from, to, add, remove).calls
           n == IF add = {} THEN 1 ELSE 2
           k == Len(remove)
<1>1. /\ Len(calls) = n + k
      /\ calls[1] = [do |-> "comment"]
      /\ add # {} => calls[2] = [do |-> "add", labels |-> add]
      /\ \A i \in 1 .. k : calls[n + i] = [do |-> "remove", label |-> remove[i]]
  BY OpCalls
<1>2. k \in {0, 1, 2}
  <2>1. k \in Nat /\ k <= 2
    OBVIOUS
  <2> HIDE DEF k
  <2> QED
    BY <2>1
<1>3. LabelsAfter(l, calls[1]) = l
  BY <1>1 DEF LabelsAfter
<1>4. add # {} => LabelsAfter(l, calls[2]) = l \cup add
  BY <1>1 DEF LabelsAfter
<1>5. ASSUME NEW i \in 1 .. k, NEW m
      PROVE  LabelsAfter(m, calls[n + i]) = m \ {remove[i]}
  <2>1. calls[n + i] = [do |-> "remove", label |-> remove[i]]
    BY <1>1, Zenon
  <2> HIDE DEF calls, n, k
  <2> QED
    BY <2>1 DEF LabelsAfter
<1>6. Members(remove)
        = IF k = 0 THEN {} ELSE IF k = 1 THEN {remove[1]} ELSE {remove[1], remove[2]}
  BY <1>2 DEF Members
<1>7. n \in {1, 2} /\ (n = 1 <=> add = {}) /\ (k = 0 => n = 2)
  <2>1. Len(remove) = 0 => remove = <<>>
    OBVIOUS
  <2>2. k = 0 => add # {}
    BY <2>1
  <2> HIDE DEF k
  <2> QED
    BY <2>2
<1> HIDE DEF calls, k, n
<1>8. /\ k = 0 => 1 .. k = {}
      /\ k = 1 => 1 \in 1 .. k
      /\ k = 2 => 1 \in 1 .. k /\ 2 \in 1 .. k
  OBVIOUS
<1>9. CASE n = 1 /\ k = 1
  <2>1. LabelsAfter(l, calls[1 + 1]) = l \ {remove[1]}
    BY <1>5, <1>8, <1>9
  <2>2. Len(calls) = 2
    BY <1>1, <1>9
  <2>3. LabelsAtEnd(l, calls) = l \ {remove[1]}
    BY <1>3, <2>1, <2>2, AtEnd
  <2> QED
    BY <1>6, <1>7, <1>9, <2>3 DEF calls, k
<1>10. CASE n = 1 /\ k = 2
  <2>1. /\ LabelsAfter(l, calls[1 + 1]) = l \ {remove[1]}
        /\ LabelsAfter(l \ {remove[1]}, calls[1 + 2]) = (l \ {remove[1]}) \ {remove[2]}
    BY <1>5, <1>8, <1>10
  <2>2. Len(calls) = 3
    BY <1>1, <1>10
  <2>3. LabelsAtEnd(l, calls) = (l \ {remove[1]}) \ {remove[2]}
    <3>1. LabelsAtEnd(l, calls)
            = LabelsAfter(LabelsAfter(LabelsAfter(l, calls[1]), calls[2]), calls[3])
      BY <2>2, AtEnd
    <3>2. 1 + 1 = 2 /\ 1 + 2 = 3
      OBVIOUS
    <3> QED
      BY <1>3, <2>1, <3>1, <3>2, Zenon
  <2> QED
    BY <1>6, <1>7, <1>10, <2>3 DEF calls, k
<1>11. CASE n = 2 /\ k = 0
  <2>1. Len(calls) = 2
    BY <1>1, <1>11
  <2>2. add # {}
    BY <1>7, <1>11
  <2>3. LabelsAtEnd(l, calls) = l \cup add
    BY <1>3, <1>4, <2>1, <2>2, AtEnd
  <2> QED
    BY <1>6, <1>11, <2>3 DEF calls, k
<1>12. CASE n = 2 /\ k = 1
  <2>1. LabelsAfter(l \cup add, calls[2 + 1]) = (l \cup add) \ {remove[1]}
    BY <1>5, <1>8, <1>12
  <2>2. Len(calls) = 3
    BY <1>1, <1>12
  <2>3. add # {}
    BY <1>7, <1>12
  <2>4. LabelsAtEnd(l, calls) = (l \cup add) \ {remove[1]}
    <3>1. LabelsAtEnd(l, calls)
            = LabelsAfter(LabelsAfter(LabelsAfter(l, calls[1]), calls[2]), calls[3])
      BY <2>2, AtEnd
    <3>2. 2 + 1 = 3
      OBVIOUS
    <3> QED
      BY <1>3, <1>4, <2>1, <2>3, <3>1, <3>2, Zenon
  <2> QED
    BY <1>6, <1>12, <2>4 DEF calls, k
<1>13. CASE n = 2 /\ k = 2
  <2> DEFINE l3 == (l \cup add) \ {remove[1]}
  <2>1. /\ LabelsAfter(l \cup add, calls[2 + 1]) = l3
        /\ LabelsAfter(l3, calls[2 + 2]) = l3 \ {remove[2]}
    BY <1>5, <1>8, <1>13
  <2>2. Len(calls) = 4
    BY <1>1, <1>13
  <2>3. add # {}
    BY <1>7, <1>13
  <2> HIDE DEF l3
  <2>4. LabelsAtEnd(l, calls) = l3 \ {remove[2]}
    <3>1. LabelsAtEnd(l, calls)
            = LabelsAfter(LabelsAfter(LabelsAfter(LabelsAfter(l, calls[1]),
                                                  calls[2]), calls[3]), calls[4])
      BY <2>2, AtEnd
    <3>2. 2 + 1 = 3 /\ 2 + 2 = 4
      OBVIOUS
    <3> QED
      BY <1>3, <1>4, <2>1, <2>3, <3>1, <3>2, Zenon
  <2> QED
    BY <1>6, <1>13, <2>4 DEF calls, k, l3
<1> QED
  BY <1>2, <1>7, <1>9, <1>10, <1>11, <1>12, <1>13

\* An operation changes some labels and removes at most two.
Changes(add, remove) ==
  /\ add \in SUBSET Names /\ remove \in Seq(Names) /\ Len(remove) <= 2
  /\ add # {} \/ remove # <<>>

Relabelled(l, add, remove) == (l \cup add) \ Members(remove)

\* The labels of the operations' plans, whatever the labels are before.
LEMMA OpsEffect ==
  ASSUME NEW l
  PROVE  /\ LabelsAtEnd(l, Claim.calls) = l \cup {"claimed"}
         /\ LabelsAtEnd(l, Submit.calls) = (l \cup {"submitted"}) \ {"claimed"}
         /\ LabelsAtEnd(l, Approve.calls)
              = (l \cup {"completed"}) \ {"submitted", "claimed"}
         /\ LabelsAtEnd(l, Reject.calls) = l \ {"submitted"}
         /\ LabelsAtEnd(l, Dispute.calls) = l \cup {"disputed"}
         /\ LabelsAtEnd(l, Release.calls)
              = (l \cup {"approved"}) \ {"submitted", "claimed"}
<1>1. \A from, to, add, remove :
        Changes(add, remove) =>
          LabelsAtEnd(l, Op(from, to, add, remove).calls)
            = Relabelled(l, add, remove)
  BY OpEffect DEF Changes, Relabelled
<1>2. LabelsAtEnd(l, Claim.calls) = l \cup {"claimed"}
  <2>1. {"claimed"} \in SUBSET Names /\ <<>> \in Seq(Names)
    BY DEF Names
  <2>2. Changes({"claimed"}, <<>>)
    BY <2>1 DEF Changes
  <2>3. Members(<<>>) = {}
    BY DEF Members
  <2>4. LabelsAtEnd(l, Op({"open"}, "claimed", {"claimed"},
                          <<>>).calls)
          = Relabelled(l, {"claimed"}, <<>>)
    BY <1>1, <2>2
  <2>5. LabelsAtEnd(l, Claim.calls) = (l \cup {"claimed"}) \ {}
    BY <2>3, <2>4 DEF Claim, Relabelled
  <2> QED
    BY <2>5
<1>3. LabelsAtEnd(l, Submit.calls) = (l \cup {"submitted"}) \ {"claimed"}
  <2>1. {"submitted"} \in SUBSET Names /\ <<"claimed">> \in Seq(Names)
    BY DEF Names
  <2>2. Changes({"submitted"}, <<"claimed">>)
    BY <2>1 DEF Changes
  <2>3. Members(<<"claimed">>) = {"claimed"}
    BY DEF Members
  <2>4. LabelsAtEnd(l, Op({"claimed", "rejected"}, "submitted", {"submitted"},
                          <<"claimed">>).calls)
          = Relabelled(l, {"submitted"}, <<"claimed">>)
    BY <1>1, <2>2
  <2>5. LabelsAtEnd(l, Submit.calls) = (l \cup {"submitted"}) \ {"claimed"}
    BY <2>3, <2>4 DEF Submit, Relabelled
  <2> QED
    BY <2>5
<1>4. LabelsAtEnd(l, Approve.calls) = (l \cup {"completed"}) \ {"submitted", "claimed"}
  <2>1. {"completed"} \in SUBSET Names /\ <<"submitted", "claimed">> \in Seq(Names)
    BY DEF Names
  <2>2. Changes({"completed"}, <<"submitted", "claimed">>)
    BY <2>1 DEF Changes
  <2>3. Members(<<"submitted", "claimed">>) = {"submitted", "claimed"}
    BY DEF Members
  <2>4. LabelsAtEnd(l, Op({"submitted"}, "closed", {"completed"},
                          <<"submitted", "claimed">>).calls)
          = Relabelled(l, {"completed"}, <<"submitted", "claimed">>)
    BY <1>1, <2>2
  <2>5. LabelsAtEnd(l, Approve.calls) = (l \cup {"completed"}) \ {"submitted", "claimed"}
    BY <2>3, <2>4 DEF Approve, Relabelled
  <2> QED
    BY <2>5
<1>5. LabelsAtEnd(l, Reject.calls) = l \ {"submitted"}
  <2>1. {} \in SUBSET Names /\ <<"submitted">> \in Seq(Names)
    BY DEF Names
  <2>2. Changes({}, <<"submitted">>)
    BY <2>1 DEF Changes
  <2>3. Members(<<"submitted">>) = {"submitted"}
    BY DEF Members
  <2>4. LabelsAtEnd(l, Op({"submitted"}, "rejected", {},
                          <<"submitted">>).calls)
          = Relabelled(l, {}, <<"submitted">>)
    BY <1>1, <2>2
  <2>5. LabelsAtEnd(l, Reject.calls) = (l \cup {}) \ {"submitted"}
    BY <2>3, <2>4 DEF Reject, Relabelled
  <2> QED
    BY <2>5
<1>6. LabelsAtEnd(l, Dispute.calls) = l \cup {"disputed"}
  <2>1. {"disputed"} \in SUBSET Names /\ <<>> \in Seq(Names)
    BY DEF Names
  <2>2. Changes({"disputed"}, <<>>)
    BY <2>1 DEF Changes
  <2>3. Members(<<>>) = {}
    BY DEF Members
  <2>4. LabelsAtEnd(l, Op({"submitted", "rejected"}, "disputed", {"disputed"},
                          <<>>).calls)
          = Relabelled(l, {"disputed"}, <<>>)
    BY <1>1, <2>2
  <2>5. LabelsAtEnd(l, Dispute.calls) = (l \cup {"disputed"}) \ {}
    BY <2>3, <2>4 DEF Dispute, Relabelled
  <2> QED
    BY <2>5
<1>7. LabelsAtEnd(l, Release.calls) = (l \cup {"approved"}) \ {"submitted", "claimed"}
  <2>1. {"approved"} \in SUBSET Names /\ <<"submitted", "claimed">> \in Seq(Names)
    BY DEF Names
  <2>2. Changes({"approved"}, <<"submitted", "claimed">>)
    BY <2>1 DEF Changes
  <2>3. Members(<<"submitted", "claimed">>) = {"submitted", "claimed"}
    BY DEF Members
  <2>4. LabelsAtEnd(l, Op({"claimed", "submitted"}, "closed", {"approved"},
                          <<"submitted", "claimed">>).calls)
          = Relabelled(l, {"approved"}, <<"submitted", "claimed">>)
    BY <1>1, <2>2
  <2>5. LabelsAtEnd(l, Release.calls) = (l \cup {"approved"}) \ {"submitted", "claimed"}
    BY <2>3, <2>4 DEF Release, Relabelled
  <2> QED
    BY <2>5
<1> QED
  BY <1>2, <1>3, <1>4, <1>5, <1>6, <1>7

\* An undisturbed update ends with the labels of the status its handler has
\* moved the row to.
LEMMA MoveEffect ==
  ASSUME NEW op \in Ops, status \in op.from, labels \in LabelsOf(status)
  PROVE  LabelsAtEnd(labels, op.calls) \in LabelsOf(op.to)
<1>1. CASE op = Claim
  <2>1. Claim.from = {"open"} /\ Claim.to = "claimed"
    BY DEF Claim, Op
  <2>2. LabelsAtEnd(labels, Claim.calls) = labels \cup {"claimed"}
    BY OpsEffect
  <2>3. status \in {"open"} /\ labels \in LabelsOf(status)
    BY <1>1, <2>1
  <2>4. (labels \cup {"claimed"}) \in LabelsOf("claimed")
    BY <2>3 DEF LabelsOf
  <2> QED
    BY <1>1, <2>1, <2>2, <2>4, Zenon
<1>2. CASE op = Submit
  <2>1. Submit.from = {"claimed", "rejected"} /\ Submit.to = "submitted"
    BY DEF Submit, Op
  <2>2. LabelsAtEnd(labels, Submit.calls) = (labels \cup {"submitted"}) \ {"claimed"}
    BY OpsEffect
  <2>3. status \in {"claimed", "rejected"} /\ labels \in LabelsOf(status)
    BY <1>2, <2>1
  <2>4. ((labels \cup {"submitted"}) \ {"claimed"}) \in LabelsOf("submitted")
    BY <2>3 DEF LabelsOf
  <2> QED
    BY <1>2, <2>1, <2>2, <2>4, Zenon
<1>3. CASE op = Approve
  <2>1. Approve.from = {"submitted"} /\ Approve.to = "closed"
    BY DEF Approve, Op
  <2>2. LabelsAtEnd(labels, Approve.calls) = (labels \cup {"completed"}) \ {"submitted", "claimed"}
    BY OpsEffect
  <2>3. status \in {"submitted"} /\ labels \in LabelsOf(status)
    BY <1>3, <2>1
  <2>4. ((labels \cup {"completed"}) \ {"submitted", "claimed"}) \in LabelsOf("closed")
    BY <2>3 DEF LabelsOf
  <2> QED
    BY <1>3, <2>1, <2>2, <2>4, Zenon
<1>4. CASE op = Reject
  <2>1. Reject.from = {"submitted"} /\ Reject.to = "rejected"
    BY DEF Reject, Op
  <2>2. LabelsAtEnd(labels, Reject.calls) = labels \ {"submitted"}
    BY OpsEffect
  <2>3. status \in {"submitted"} /\ labels \in LabelsOf(status)
    BY <1>4, <2>1
  <2>4. (labels \ {"submitted"}) \in LabelsOf("rejected")
    BY <2>3 DEF LabelsOf
  <2> QED
    BY <1>4, <2>1, <2>2, <2>4, Zenon
<1>5. CASE op = Dispute
  <2>1. Dispute.from = {"submitted", "rejected"} /\ Dispute.to = "disputed"
    BY DEF Dispute, Op
  <2>2. LabelsAtEnd(labels, Dispute.calls) = labels \cup {"disputed"}
    BY OpsEffect
  <2>3. status \in {"submitted", "rejected"} /\ labels \in LabelsOf(status)
    BY <1>5, <2>1
  <2>4. (labels \cup {"disputed"}) \in LabelsOf("disputed")
    BY <2>3 DEF LabelsOf
  <2> QED
    BY <1>5, <2>1, <2>2, <2>4, Zenon
<1>6. CASE op = Release
  <2>1. Release.from = {"claimed", "submitted"} /\ Release.to = "closed"
    BY DEF Release, Op
  <2>2. LabelsAtEnd(labels, Release.calls) = (labels \cup {"approved"}) \ {"submitted", "claimed"}
    BY OpsEffect
  <2>3. status \in {"claimed", "submitted"} /\ labels \in LabelsOf(status)
    BY <1>6, <2>1
  <2>4. ((labels \cup {"approved"}) \ {"submitted", "claimed"}) \in LabelsOf("closed")
    BY <2>3 DEF LabelsOf
  <2> QED
    BY <1>6, <2>1, <2>2, <2>4, Zenon
<1> QED
  BY <1>1, <1>2, <1>3, <1>4, <1>5, <1>6 DEF Ops

-----------------------------------------------------------------------------
\* While nothing disturbs it at most one update is under way, and its end is
\* where the status already is.
CalmInv ==
  ~disturbed =>
    /\ \A g, h \in Updating : g = h
    /\ Updating = {} => labels \in LabelsOf(status)
    /\ \A h \in Updating :
         LabelsAtEnd(labels, update[h].calls) \in LabelsOf(status)

LEMMA CalmInitially == Init => CalmInv
<1> SUFFICES ASSUME Init PROVE CalmInv
  OBVIOUS
<1>1. Updating = {} /\ status = "open" /\ labels = {}
  BY DEF Init, Updating
<1> QED
  BY <1>1 DEF CalmInv, LabelsOf

\* What begins as an update of one handler alone.
LEMMA OneUpdates ==
  ASSUME LabelsInv, NEW h \in Handlers, NEW u,
         update' = [update EXCEPT ![h] = u],
         \A g \in Updating : g = h
  PROVE  /\ u # Idle => Updating' = {h}
         /\ u = Idle => Updating' = {}
         /\ update'[h] = u
<1>1. update' = [k \in Handlers |-> IF k = h THEN u ELSE update[k]]
  BY DEF LabelsInv
<1>2. \A k \in Handlers : k # h => update'[k] = Idle
  BY <1>1 DEF Updating
<1> QED
  BY <1>1, <1>2 DEF Updating

LEMMA CalmInductive == LabelsInv /\ CalmInv /\ [Next]_vars => CalmInv'
<1> SUFFICES ASSUME LabelsInv, CalmInv, [Next]_vars PROVE CalmInv'
  OBVIOUS
<1>1. now \in Nat /\ now <= MaxTime
  BY DEF LabelsInv
<1>2. ASSUME UNCHANGED labelVars PROVE CalmInv'
  BY <1>2 DEF labelVars, CalmInv, Updating
<1>3. ASSUME NEW h \in Handlers, NEW op \in Ops, Move(h, op)
      PROVE  CalmInv'
  <2> SUFFICES ASSUME ~disturbed' PROVE CalmInv'
    BY DEF CalmInv
  <2>1. /\ ~disturbed /\ Updating = {} /\ update'[h] # Idle
        /\ status \in op.from /\ status' = op.to /\ labels' = labels
        /\ update' = [update EXCEPT ![h] = Fetching(op.calls)]
    BY <1>3 DEF Move
  <2>2. Updating' = {h} /\ update'[h] = Fetching(op.calls)
    BY <2>1, OneUpdates
  <2>3. update'[h].calls = op.calls
    BY <2>1, <2>2 DEF Fetching, Calling
  <2>4. LabelsAtEnd(labels, op.calls) \in LabelsOf(op.to)
    BY <2>1, MoveEffect DEF CalmInv
  <2> QED
    BY <2>1, <2>2, <2>3, <2>4 DEF CalmInv
<1>4. ASSUME NEW h \in Handlers, NEW token, token # NoToken,
             update[h].at = "exchanging",
             update' = [update EXCEPT ![h] = Calling(update[h].calls, token)],
             UNCHANGED <<status, labels>>, disturbed => disturbed'
      PROVE  CalmInv'
  <2> SUFFICES ASSUME ~disturbed' PROVE CalmInv'
    BY DEF CalmInv
  <2>1. h \in Updating
    BY <1>4 DEF Updating, Idle
  <2>2. Calling(update[h].calls, token) # Idle
        /\ Calling(update[h].calls, token).calls = update[h].calls
    BY <1>4 DEF Calling, Idle
  <2>3. Updating' = {h} /\ update'[h].calls = update[h].calls
    BY <1>4, <2>1, <2>2, OneUpdates DEF CalmInv
  <2> QED
    BY <1>4, <2>1, <2>3 DEF CalmInv
<1>5. ASSUME NEW h \in Handlers, Exchanged(h) PROVE CalmInv'
  <2>1. update[h] \in Exchanging /\ update[h].since \in Nat
    BY <1>5 DEF Exchanged, LabelsInv, Sound, Idle, InCalls, Exchanging
  <2>2. PICK issued \in update[h].since .. now :
          update' = [update EXCEPT ![h] = Calling(update[h].calls, issued + Life)]
    BY <1>5 DEF Exchanged
  <2>3. issued + Life # NoToken
    BY <2>1, LabelsAssumption DEF NoToken
  <2> QED
    BY <1>4, <1>5, <2>2, <2>3 DEF Exchanged
<1>6. ASSUME NEW h \in Handlers, ExchangeFailed(h) PROVE CalmInv'
  <2>1. CASE OwnToken
    <3>1. FallbackToken # NoToken
      BY <2>1, LabelsAssumption, LimiterAssumption
         DEF FallbackToken, NoToken, Lasting
    <3> QED
      BY <1>4, <1>6, <2>1, <3>1 DEF ExchangeFailed
  <2>2. CASE ~OwnToken
    BY <1>6, <2>2 DEF ExchangeFailed, CalmInv
  <2> QED
    BY <2>1, <2>2
<1>7. ASSUME NEW h \in Handlers, CallEnds(h) PROVE CalmInv'
  <2> SUFFICES ASSUME ~disturbed' PROVE CalmInv'
    BY DEF CalmInv
  <2>1. /\ ~disturbed /\ status' = status /\ update[h].at = "calling"
        /\ update' = [update EXCEPT ![h] = Rest(h)]
        /\ labels' = Applied(Head(update[h].calls))
    BY <1>7 DEF CallEnds
  <2>2. h \in Updating
    BY <2>1 DEF Updating, Idle
  <2>3. LabelsAtEnd(labels, update[h].calls) \in LabelsOf(status)
    BY <2>1, <2>2 DEF CalmInv
  <2>4. update[h] \in InCalls /\ Sound(update[h], now)
    BY <2>1 DEF LabelsInv, Sound, Idle, Exchanging
  <2>5. update[h].calls \in Plans /\ update[h].token # NoToken
    BY <2>1, <2>4 DEF InCalls, Sound, Enough, Idle, NoToken
  <2>6. labels' = LabelsAfter(labels, Head(update[h].calls))
    BY <2>1 DEF Applied, LabelsAfter
  <2>7. CASE Len(update[h].calls) = 1
    <3>1. Updating' = {}
      BY <2>1, <2>2, <2>7, OneUpdates DEF CalmInv, Rest
    <3>2. labels' \in LabelsOf(status)
      BY <2>3, <2>5, <2>6, <2>7, RestOfEffect
    <3> QED
      BY <2>1, <3>1, <3>2 DEF CalmInv
  <2>8. CASE Len(update[h].calls) # 1
    <3>1. Rest(h) # Idle /\ Rest(h).calls = Tail(update[h].calls)
      BY <2>5, <2>8 DEF Rest, Calling, Idle
    <3>2. Updating' = {h} /\ update'[h] = Rest(h)
      BY <2>1, <2>2, <3>1, OneUpdates DEF CalmInv
    <3>3. LabelsAtEnd(labels', Tail(update[h].calls)) \in LabelsOf(status)
      BY <2>3, <2>5, <2>6, <2>8, RestOfEffect
    <3> QED
      BY <2>1, <3>1, <3>2, <3>3 DEF CalmInv
  <2> QED
    BY <2>7, <2>8
<1>8. ASSUME MoveSilently PROVE CalmInv'
  BY <1>8 DEF MoveSilently, CalmInv
<1> QED
  BY <1>2, <1>3, <1>5, <1>6, <1>7, <1>8 DEF Next, LabelNext, vars

\* Whatever the number of handlers and the times, once the updates are over the
\* issue has the labels of its status, unless updates overlapped, a call failed
\* or the row moved without an update (post_github_comment_and_labels).
THEOREM CalmLabelsAlwaysFollow == Spec => []CalmLabelsFollow
<1>1. CalmInv => CalmLabelsFollow
  BY DEF CalmInv, CalmLabelsFollow
<1> QED
  BY <1>1, LabelsInitially, LabelsInductive, CalmInitially, CalmInductive, PTL
     DEF Spec
=============================================================================
