---------------------------- MODULE GitHubLabels ----------------------------
(***************************************************************************)
(* The third thing a server process keeps to itself beside its limiter and *)
(* its broker: the GitHub App's installation token                         *)
(* (get_github_bot_token), and what is done with it.  After a handler has  *)
(* moved the row of a bounty, it updates the issue                         *)
(* (post_github_comment_and_labels): a comment, the labels to add, then    *)
(* the labels to remove one by one.  Each call is awaited, an error of a   *)
(* call is only logged, and the updates of two handlers may overlap.       *)
(*                                                                         *)
(* Left out: the label bounty:open, which every issue keeps; the updates   *)
(* that only comment; the JWT, which is made anew for every exchange.      *)
(***************************************************************************)
EXTENDS EventBroker

CONSTANTS
  Handlers,             \* bound: handlers that update the issue at a time
  AppConfigured,        \* GITHUB_APP_ID and GITHUB_PRIVATE_KEY are set
  OwnToken,             \* whether GITHUB_TOKEN is set
  Life,                 \* for how long GitHub issues a token, in ticks
  Margin,               \* the 60 seconds a cached token must still last
  CallTime              \* the longest call of the HTTP client

ASSUME LabelsAssumption ==
  /\ AppConfigured \in BOOLEAN /\ OwnToken \in BOOLEAN
  /\ CallTime \in Nat \ {0} /\ Margin \in Nat /\ Life \in Nat
  /\ 3 * CallTime <= Margin /\ Margin + CallTime < Life

VARIABLES
  status,               \* the row of the bounty
  labels,               \* the labels of its issue
  disturbed,            \* history: an update overlapped or failed, or the row
                        \* was moved by somebody who updates no label
  token_cache,          \* _installation_token_cache: when its token expires
  update                \* the update each handler is making

labelVars == <<status, labels, disturbed, token_cache, update>>
vars == <<brokerVars, limiterVars, labelVars>>

Idle == [at |-> "idle"]

\* A token is known by its expiry; GITHUB_TOKEN does not expire.
NoToken == 0
Lasting == MaxTime + Life + 1
FallbackToken == IF OwnToken THEN Lasting ELSE NoToken

Init ==
  /\ BrokerInit
  /\ status = "open" /\ labels = {} /\ disturbed = FALSE
  /\ token_cache = NoToken
  /\ update = [h \in Handlers |-> Idle]

-----------------------------------------------------------------------------
(* What each handler does to the row and to the issue.                     *)

Op(from, to, add, remove) ==
  [from |-> from, to |-> to,
   calls |-> <<[do |-> "comment"]>>
             \o (IF add = {} THEN <<>> ELSE <<[do |-> "add", labels |-> add]>>)
             \o [i \in DOMAIN remove |-> [do |-> "remove", label |-> remove[i]]]]

Claim == Op({"open"}, "claimed", {"claimed"}, <<>>)
Submit == Op({"claimed", "rejected"}, "submitted", {"submitted"}, <<"claimed">>)
Approve ==
  Op({"submitted"}, "closed", {"completed"}, <<"submitted", "claimed">>)

MutantReject == Op({"submitted"}, "rejected", {}, <<"claimed">>)

Reject == Op({"submitted"}, "rejected", {}, <<"submitted">>)

Dispute == Op({"submitted", "rejected"}, "disputed", {"disputed"}, <<>>)

\* Of a merged pull request or a closed issue.
Release ==
  Op({"claimed", "submitted"}, "closed", {"approved"}, <<"submitted", "claimed">>)

Ops == {Claim, Submit, Approve, Reject, Dispute, Release}

Updating == {h \in Handlers : update[h] # Idle}

-----------------------------------------------------------------------------
(* The token.                                                              *)

MutantFresh == token_cache > now

Fresh == token_cache > now + Margin

\* No token, no call: the update goes to a log file.
Calling(calls, token) ==
  IF token = NoToken THEN Idle
  ELSE [at |-> "calling", calls |-> calls, token |-> token, since |-> now]

\* get_github_bot_token answers at once, or asks GitHub for a token.
Fetching(calls) ==
  IF ~AppConfigured THEN Calling(calls, FallbackToken)
  ELSE IF Fresh THEN Calling(calls, token_cache)
  ELSE [at |-> "exchanging", calls |-> calls, since |-> now]

\* The handler has committed the row and begins the update.
Move(h, op) ==
  /\ update[h] = Idle /\ status \in op.from
  /\ status' = op.to
  /\ update' = [update EXCEPT ![h] = Fetching(op.calls)]
  /\ disturbed' = (disturbed \/ Updating # {} \/ update'[h] = Idle)
  /\ UNCHANGED <<labels, token_cache>>

\* The exchange succeeds; the token was issued while it went on, and of two
\* exchanges the later answer stays in the cache.
Exchanged(h) ==
  /\ update[h].at = "exchanging"
  /\ \E issued \in update[h].since .. now :
       /\ token_cache' = issued + Life
       /\ update' =
            [update EXCEPT ![h] = Calling(update[h].calls, issued + Life)]
  /\ UNCHANGED <<status, labels, disturbed>>

\* The key, the installation or the exchange is refused.
ExchangeFailed(h) ==
  /\ update[h].at = "exchanging"
  /\ update' = [update EXCEPT ![h] = Calling(update[h].calls, FallbackToken)]
  /\ disturbed' = (disturbed \/ ~OwnToken)
  /\ UNCHANGED <<status, labels, token_cache>>

-----------------------------------------------------------------------------
(* The calls.                                                              *)

Applied(call) ==
  CASE call.do = "comment" -> labels
    [] call.do = "add" -> labels \cup call.labels
    [] call.do = "remove" -> labels \ {call.label}

\* The next call is sent as soon as one has ended.
Rest(h) ==
  IF Len(update[h].calls) = 1 THEN Idle
  ELSE Calling(Tail(update[h].calls), update[h].token)

CallEnds(h) ==
  /\ update[h].at = "calling"
  /\ update' = [update EXCEPT ![h] = Rest(h)]
  /\ \/ labels' = Applied(Head(update[h].calls)) /\ UNCHANGED disturbed
     \/ \* an error or a time-out: GitHub may have done it all the same
        /\ labels' \in {labels, Applied(Head(update[h].calls))}
        /\ disturbed' = TRUE
  /\ UNCHANGED <<status, token_cache>>

\* The worker and the administrator move the row and leave the issue.
MoveSilently ==
  /\ \E s \in {"open", "claimed", "submitted", "rejected", "disputed", "closed"} :
       s # status /\ status' = s
  /\ disturbed' = TRUE
  /\ UNCHANGED <<labels, token_cache, update>>

\* A call or an exchange does not outlive the time-out of the client.
Punctual == \A h \in Updating : now - update[h].since < CallTime

-----------------------------------------------------------------------------
LabelNext ==
  \/ \E h \in Handlers :
       \/ \E op \in Ops : Move(h, op)
       \/ Exchanged(h) \/ ExchangeFailed(h) \/ CallEnds(h)
  \/ MoveSilently

Next ==
  \/ BrokerNext /\ (now' # now => Punctual) /\ UNCHANGED labelVars
  \/ LabelNext /\ UNCHANGED <<brokerVars, limiterVars>>

Spec == Init /\ [][Next]_vars

-----------------------------------------------------------------------------
\* The work labels an issue should have.
LabelsOf(s) ==
  CASE s \in {"open", "rejected"} -> {{}}
    [] s = "claimed" -> {{"claimed"}}
    [] s = "submitted" -> {{"submitted"}}
    [] s = "disputed" -> {{"disputed"}, {"disputed", "submitted"}}
    [] s = "closed" -> {{"completed"}, {"approved"}}

\* Whichever way a bounty takes through its reviews, once the updates are over
\* its issue has the labels of its status and none of an earlier one, unless
\* updates overlapped, a call failed or the row moved without an update
\* (post_github_comment_and_labels and its callers).
CalmLabelsFollow ==
  Updating = {} /\ ~disturbed => labels \in LabelsOf(status)

\* No call of an update is sent with a token that has expired, although the
\* token is fetched once and the calls follow each other (the margin of
\* get_github_bot_token).
TokenOutlivesUpdate ==
  \A h \in Handlers :
    update[h].at = "calling" => update[h].since < update[h].token
=============================================================================
