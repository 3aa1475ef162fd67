---------------------------- MODULE EventBroker ----------------------------
(***************************************************************************)
(* The event streams of one server process: EventBroker, the endpoint of   *)
(* events.py in front of it, and the publications of the handlers.         *)
(*                                                                         *)
(* Streams subscribe and end on the event loop.  Handlers declared with    *)
(* async publish there too, in one go.  The others run in a thread pool:   *)
(* their publication walks the dictionary of addresses and the list of     *)
(* each address while the loop changes both.  A dictionary whose size has  *)
(* changed raises an error at the next address; a list that has become     *)
(* shorter moves the rest under the walk.                                  *)
(*                                                                         *)
(* Left out: the texts of the events; how a stream reads its queue.        *)
(***************************************************************************)
EXTENDS RateLimiter, FiniteSets

CONSTANTS
  Streams,              \* bound: calls of the event stream
  Events,               \* bound: publications
  MaxPerAddress,        \* MAX_CONNECTIONS_PER_IP
  StaleTimeout          \* STALE_TIMEOUT_SECONDS, in ticks

ASSUME BrokerAssumption == MaxPerAddress \in Nat \ {0} /\ StaleTimeout \in Nat

VARIABLES
  listeners,            \* address -> its queues, each named by its stream
  registered_at,        \* address -> when its entry was made
  stream,               \* where each call of the event stream is
  received,             \* what has been put into each queue
  publication           \* the walk of each publication

brokerVars == <<listeners, registered_at, stream, received, publication>>

Unstarted == [at |-> "unstarted"]
Done(witnesses) == [at |-> "done", witnesses |-> witnesses]
Failed == [at |-> "failed"]

BrokerInit ==
  /\ LimiterInit
  /\ listeners = <<>> /\ registered_at = <<>>
  /\ stream = [s \in Streams |-> [at |-> "new"]]
  /\ received = [s \in Streams |-> <<>>]
  /\ publication = [e \in Events |-> Unstarted]

-----------------------------------------------------------------------------
(* Streams.                                                                *)

GoTo(s, place) == stream' = [stream EXCEPT ![s].at = place]

\* The request passes the limiter, which counts it until the response is
\* there.
Connect(s, a) ==
  /\ stream[s].at = "new"
  /\ stream' = [stream EXCEPT ![s] = [at |-> "called", address |-> a]]
  /\ Enter(a)
  /\ UNCHANGED <<listeners, registered_at, received, publication>>

\* event_stream returns a response, or fails; the generator has not run yet.
Respond(s) ==
  /\ stream[s].at = "called"
  /\ \E place \in {"responded", "gone"} : GoTo(s, place)
  /\ Leave(stream[s].address)
  /\ UNCHANGED <<listeners, registered_at, received, publication>>

Queues(a) == IF a \in DOMAIN listeners THEN listeners[a] ELSE <<>>

With(f, a, x) == [b \in DOMAIN f \cup {a} |-> IF b = a THEN x ELSE f[b]]
Without(f, a) == [b \in DOMAIN f \ {a} |-> f[b]]

MutantWithQueueFirst(a, s) == With(listeners, a, <<s>> \o Queues(a))

WithQueue(a, s) == With(listeners, a, Append(Queues(a), s))

\* subscribe, when the body of the response is first asked for.
Subscribe(s) ==
  /\ stream[s].at = "responded"
  /\ LET a == stream[s].address
     IN  IF Len(Queues(a)) >= MaxPerAddress
           THEN GoTo(s, "gone") /\ UNCHANGED <<listeners, registered_at>>
           ELSE /\ listeners' = WithQueue(a, s)
                /\ registered_at' = IF a \in DOMAIN listeners THEN registered_at
                                    ELSE With(registered_at, a, now)
                /\ GoTo(s, "subscribed")
  /\ UNCHANGED <<limiterVars, received, publication>>

\* The client goes away before the body is asked for, or while an event is on
\* its way: then the generator ends when it is collected.
GoAway(s) ==
  /\ \/ stream[s].at = "responded" /\ GoTo(s, "gone")
     \/ stream[s].at = "subscribed" /\ GoTo(s, "abandoned")
  /\ UNCHANGED <<limiterVars, listeners, registered_at, received, publication>>

\* The walks of the publications under way: one that stands in the list of
\* the address sees what is left of it.
Disturbed(a) ==
  [e \in Events |->
     IF publication[e].at # "walking" THEN publication[e]
     ELSE IF Len(listeners[a]) > 1
       THEN [publication[e] EXCEPT !.calm = FALSE]
       ELSE [publication[e] EXCEPT !.calm = FALSE, !.visited = @ \ {a},
                                   !.address = IF @ = <<a>> THEN <<>> ELSE @]]

MutantLeft(a, s) == [listeners EXCEPT ![a] = RemoveFirst(@, s)]

\* The entry goes with its last queue.
Left(a, s) ==
  IF Len(listeners[a]) = 1 THEN Without(listeners, a)
  ELSE [listeners EXCEPT ![a] = RemoveFirst(@, s)]

\* The finally of subscribe: the stream is cancelled, or was abandoned.
Unsubscribe(s) ==
  /\ stream[s].at \in {"subscribed", "abandoned"}
  /\ LET a == stream[s].address
     IN  /\ listeners' = Left(a, s)
         /\ registered_at' = IF a \in DOMAIN listeners' THEN registered_at
                             ELSE Without(registered_at, a)
         /\ publication' = Disturbed(a)
  /\ GoTo(s, "gone")
  /\ UNCHANGED <<limiterVars, received>>

\* _cleanup_stale, every CLEANUP_INTERVAL_SECONDS: old entries without a
\* queue.
CleanUp ==
  LET kept == {a \in DOMAIN listeners : \/ now - registered_at[a] <= StaleTimeout
                                        \/ listeners[a] # <<>>}
  IN  /\ listeners' = [a \in kept |-> listeners[a]]
      /\ registered_at' = [a \in kept |-> registered_at[a]]
      /\ UNCHANGED <<limiterVars, stream, received, publication>>

-----------------------------------------------------------------------------
(* Publications.                                                           *)

Queued == UNION {Range(listeners[a]) : a \in DOMAIN listeners}

\* On the loop: every queue, and nothing moves meanwhile.
PublishOnLoop(e) ==
  /\ publication[e] = Unstarted
  /\ received' = [s \in Streams |-> IF s \in Queued THEN Append(received[s], e)
                                                    ELSE received[s]]
  /\ publication' = [publication EXCEPT ![e] = Done(Queued)]
  /\ UNCHANGED <<limiterVars, listeners, registered_at, stream>>

\* In a thread: the walk begins.  calm records that no stream has ended since.
BeginWalk(e) ==
  /\ publication[e] = Unstarted
  /\ publication' = [publication EXCEPT ![e] =
       [at |-> "walking", size |-> Cardinality(DOMAIN listeners), visited |-> {},
        address |-> <<>>, index |-> 1, start |-> Queued, calm |-> TRUE]]
  /\ UNCHANGED <<limiterVars, listeners, registered_at, stream, received>>

Walking(e) == publication[e].at = "walking"

InList(e) ==
  /\ publication[e].address # <<>>
  /\ publication[e].index <= Len(listeners[Head(publication[e].address)])

PutNext(e) ==
  /\ Walking(e) /\ InList(e)
  /\ LET s == listeners[Head(publication[e].address)][publication[e].index]
     IN  received' = [received EXCEPT ![s] = Append(@, e)]
  /\ publication' = [publication EXCEPT ![e].index = @ + 1]
  /\ UNCHANGED <<limiterVars, listeners, registered_at, stream>>

Witnesses(e) == IF publication[e].calm THEN publication[e].start ELSE {}

MutantInterrupted(e) == Done(Witnesses(e))

\* RuntimeError: the handler fails after it has committed its changes.
Interrupted(e) == Failed

\* A dictionary that lost and got entries may hide the rest of them.
NextAddress(e) ==
  LET walk == publication[e]
      rest == DOMAIN listeners \ walk.visited
      to(state) == publication' = [publication EXCEPT ![e] = state]
  IN  /\ Walking(e) /\ ~InList(e)
      /\ \/ Cardinality(DOMAIN listeners) # walk.size /\ to(Interrupted(e))
         \/ /\ Cardinality(DOMAIN listeners) = walk.size
            /\ \/ rest = {} \/ ~walk.calm
            /\ to(Done(Witnesses(e)))
         \/ /\ Cardinality(DOMAIN listeners) = walk.size
            /\ \E a \in rest :
                 to([walk EXCEPT !.visited = @ \cup {a}, !.address = <<a>>,
                                 !.index = 1])
      /\ UNCHANGED <<limiterVars, listeners, registered_at, stream, received>>

-----------------------------------------------------------------------------
BrokerNext ==
  \/ \E s \in Streams :
       \/ \E a \in Addresses : Connect(s, a)
       \/ Respond(s) \/ Subscribe(s) \/ GoAway(s) \/ Unsubscribe(s)
  \/ \E e \in Events :
       PublishOnLoop(e) \/ BeginWalk(e) \/ PutNext(e) \/ NextAddress(e)
  \/ CleanUp
  \/ (Request \/ Tick) /\ UNCHANGED brokerVars

-----------------------------------------------------------------------------
Open(s) == stream[s].at \in {"subscribed", "abandoned"}

\* The broker knows the open streams and no other: each in the list of its
\* address, once, never more than the maximum, and no entry outlives its last
\* stream or is taken from a live one by the clean-up; and the limiter's
\* counter of an address is the number of its calls in flight, whatever way
\* they end (subscribe, _cleanup_stale, RateLimitMiddleware.dispatch).
OpenStreamsListed ==
  /\ DOMAIN registered_at = DOMAIN listeners
  /\ \A a \in DOMAIN listeners :
       /\ listeners[a] # <<>> /\ Len(listeners[a]) <= MaxPerAddress
       /\ IsInjective(listeners[a])
  /\ \A s \in Streams, a \in Addresses :
       s \in Range(Queues(a)) <=> Open(s) /\ stream[s].address = a
  /\ \A a \in Addresses :
       connection_log[a] = Cardinality(
         {s \in Streams : stream[s].at = "called" /\ stream[s].address = a})

\* However walks, subscriptions and ends interleave, no stream gets an event
\* twice (publish).
ReceivedOnce == \A s \in Streams : IsInjective(received[s])

\* A publication that ends without an error has reached every stream that was
\* open when it began, unless some stream ended while it ran (publish).
CalmWalkReachesAll ==
  \A e \in Events : publication[e].at = "done" =>
    \A s \in publication[e].witnesses : e \in Range(received[s])
=============================================================================
