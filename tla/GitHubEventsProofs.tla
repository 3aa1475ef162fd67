------------------------- MODULE GitHubEventsProofs -------------------------
(***************************************************************************)
(* Proofs about WebhookDelivery and GitHubEvents, for any deliveries,      *)
(* requests, calls, people and merges.                                     *)
(*                                                                         *)
(* DeliveryOnce is not inductive: a delivery that was dispatched must keep *)
(* a record, which is what stops the next attempt.  The events run the     *)
(* delivery protocol, so its theorem holds of them.                        *)
(* AwardedOnce rests on who is between a release and its award: with an    *)
(* application, at most one session, only after the application has paid,  *)
(* and only while no karma was given.                                      *)
(***************************************************************************)
EXTENDS GitHubEvents, TLAPS

-----------------------------------------------------------------------------
(* The delivery protocol.                                                  *)

AttemptTypes ==
  {NotSent, Answered} \cup [at : {"insert", "dispatched"}, delivery : Deliveries]

DeliveryTypeOK ==
  /\ record \in [Deliveries -> RecordStates]
  /\ attempt \in [Attempts -> AttemptTypes]
  /\ dispatched \in [Deliveries -> Nat]

\* A delivery was dispatched exactly if it has a record, and then once.
RecordedDispatch ==
  \A d \in Deliveries :
    dispatched[d] = IF record[d] = "none" THEN 0 ELSE 1

\* A request that is being handled has a record.
HandledRecorded ==
  \A t \in Attempts :
    attempt[t].at = "dispatched" => record[attempt[t].delivery] # "none"

DeliveryInv == DeliveryTypeOK /\ RecordedDispatch /\ HandledRecorded

\* The record of a delivery never disappears while a step is taken.
LEMMA DeliveryStep ==
  DeliveryInv /\ [DeliveryNext]_deliveryVars => DeliveryInv'
<1> SUFFICES ASSUME DeliveryInv, [DeliveryNext]_deliveryVars
             PROVE  DeliveryInv'
  OBVIOUS
<1> USE DEF DeliveryInv, DeliveryTypeOK, RecordedDispatch, HandledRecorded
<1>1. ASSUME NEW t \in Attempts, NEW d \in Deliveries, Receive(t, d)
      PROVE  DeliveryInv'
  BY <1>1 DEF Receive, Answer, NotSent, Answered, AttemptTypes
<1>2. ASSUME NEW t \in Attempts, Insert(t)
      PROVE  DeliveryInv'
  <2> DEFINE d == attempt[t].delivery
  <2>1. d \in Deliveries /\ attempt[t] = [at |-> "insert", delivery |-> d]
    BY <1>2 DEF Insert, AttemptTypes, NotSent, Answered
  <2>2. CASE Inserts(d)
    <3>1. /\ record' = [record EXCEPT ![d] = "processing"]
          /\ attempt' = [attempt EXCEPT ![t].at = "dispatched"]
          /\ dispatched' = [dispatched EXCEPT ![d] = @ + 1]
      BY <1>2, <2>2 DEF Insert
    <3>2. attempt'[t] = [at |-> "dispatched", delivery |-> d]
      BY <3>1, <2>1
    <3>3. record[d] = "none" /\ dispatched[d] = 0
      BY <2>1, <2>2 DEF Inserts
    <3>4. DeliveryTypeOK'
      BY <3>1, <3>2, <2>1 DEF AttemptTypes, RecordStates
    <3>5. RecordedDispatch'
      BY <3>1, <3>3, <2>1
    <3>6. HandledRecorded'
      BY <3>1, <3>2, <2>1
    <3> QED BY <3>4, <3>5, <3>6
  <2>3. CASE ~Inserts(d)
    BY <1>2, <2>3 DEF Insert, Answer, Answered, AttemptTypes
  <2> QED BY <2>2, <2>3
<1>3. ASSUME NEW t \in Attempts, NEW status \in {"success", "failed"},
             Finish(t, status)
      PROVE  DeliveryInv'
  <2> DEFINE d == attempt[t].delivery
  <2>1. d \in Deliveries /\ record[d] # "none"
    BY <1>3 DEF Finish, AttemptTypes, NotSent, Answered
  <2>2. /\ record' \in {record, [record EXCEPT ![d] = status]}
        /\ attempt' = [attempt EXCEPT ![t] = Answered]
        /\ dispatched' = dispatched
    BY <1>3 DEF Finish, Answer
  <2>3. \A e \in Deliveries : record'[e] = "none" <=> record[e] = "none"
    BY <2>1, <2>2
  <2>4. DeliveryTypeOK'
    BY <2>1, <2>2 DEF AttemptTypes, RecordStates
  <2>5. RecordedDispatch'
    BY <2>2, <2>3
  <2>6. HandledRecorded'
    BY <2>2, <2>3 DEF AttemptTypes, NotSent, Answered
  <2> QED BY <2>4, <2>5, <2>6
<1>4. ASSUME NEW t \in Attempts, Crash(t)
      PROVE  DeliveryInv'
  BY <1>4 DEF Crash, Answer, Answered, AttemptTypes
<1>5. CASE UNCHANGED deliveryVars
  BY <1>5 DEF deliveryVars
<1> QED BY <1>1, <1>2, <1>3, <1>4, <1>5 DEF DeliveryNext

\* github_webhook dispatches every delivery at most once, for any number of
\* deliveries and attempts: DeliveryOnce.
THEOREM DeliveryAlwaysOnce == DeliverySpec => []DeliveryOnce
<1>1. DeliveryInit => DeliveryInv
  BY DEF DeliveryInit, DeliveryInv, DeliveryTypeOK, RecordedDispatch,
         HandledRecorded, RecordStates, AttemptTypes, NotSent, Answered
<1>2. DeliveryInv => DeliveryOnce
  <2> SUFFICES ASSUME RecordedDispatch, NEW d \in Deliveries
               PROVE  dispatched[d] <= 1
    BY DEF DeliveryInv, DeliveryOnce
  <2>1. dispatched[d] = 0 \/ dispatched[d] = 1
    BY DEF RecordedDispatch
  <2> QED BY <2>1
<1> QED BY <1>1, <1>2, DeliveryStep, PTL DEF DeliverySpec

-----------------------------------------------------------------------------
(* The events run it.                                                      *)

\* Every step of the events is a step of the deliveries or leaves them alone
\* (github_webhook around handle_issue_event and handle_pr_event).
LEMMA EventsRunDeliveries ==
  [Next]_vars => [DeliveryNext]_deliveryVars
<1> SUFFICES ASSUME [Next]_vars PROVE [DeliveryNext]_deliveryVars
  OBVIOUS
<1>1. ASSUME NEW s \in Attempts \cup Calls, Return(s) \/ Raise(s)
      PROVE  [DeliveryNext]_deliveryVars
  BY <1>1 DEF Return, Raise, DeliveryNext
<1>2. ASSUME NEW s, NEW at, NEW op, NEW user, Start(s, at, op, user)
      PROVE  UNCHANGED deliveryVars
  BY <1>2 DEF Start
<1>3. ASSUME NEW t \in Attempts, Deliver(t)
      PROVE  [DeliveryNext]_deliveryVars
  BY <1>3 DEF Deliver, DeliveryNext
<1>4. ASSUME NEW t \in Attempts, CreatePending(t) \/ CommitPush(t)
      PROVE  [DeliveryNext]_deliveryVars
  BY <1>1, <1>4 DEF CreatePending, CommitPush
<1>5. ASSUME NEW t \in Attempts, NEW user \in People,
             \/ IssueOpened(t, user) \/ IssueClosed(t, user)
             \/ PrPushed(t, user) \/ PrMerged(t, user)
      PROVE  [DeliveryNext]_deliveryVars
  <2>1. Return(t) \/ \E at, op : Start(t, at, op, user)
    BY <1>5 DEF IssueOpened, IssueClosed, PrPushed, PrMerged, StartPayout
  <2> QED BY <2>1, <1>1, <1>2
<1>6. ASSUME NEW c \in Calls, ListBounty(c) \/ CommitReady(c)
      PROVE  [DeliveryNext]_deliveryVars
  BY <1>1, <1>6 DEF ListBounty, CommitReady
<1>7. ASSUME NEW c \in Calls, NEW user \in People,
             \/ CreateBounty(c, user) \/ SyncGithub(c, user)
             \/ ClaimPayout(c, user)
      PROVE  UNCHANGED deliveryVars
  BY <1>7 DEF CreateBounty, SyncGithub, ClaimPayout, StartPayout, Start
<1>8. ASSUME NEW s \in Attempts \cup Calls,
             ReleaseTrustless(s) \/ ClosePaid(s) \/ Award(s)
      PROVE  [DeliveryNext]_deliveryVars
  <2>1. Return(s) \/ UNCHANGED deliveryVars
    BY <1>8 DEF ReleaseTrustless, ClosePaid, Award, Refused
  <2> QED BY <2>1, <1>1
<1>9. ASSUME NEW s \in Attempts \cup Calls, Dies(s)
      PROVE  [DeliveryNext]_deliveryVars
  BY <1>9 DEF Dies, DeliveryNext
<1>10. ASSUME \/ \E user \in People : LinkGithub(user) \/ ClaimThroughApi(user)
              \/ ChainMoves \/ RowFollows
       PROVE  UNCHANGED deliveryVars
  BY <1>10 DEF LinkGithub, ClaimThroughApi, ChainMoves, RowFollows
<1>11. CASE UNCHANGED vars
  BY <1>11 DEF vars
<1> QED BY <1>3, <1>4, <1>5, <1>6, <1>7, <1>8, <1>9, <1>10, <1>11 DEF Next

\* Among all the handlers and calls of GitHubEvents, every delivery is
\* dispatched at most once: DeliveryOnce.
THEOREM EventsDeliverOnce == Spec => []DeliveryOnce
<1>1. Init => DeliveryInit
  BY DEF Init
<1>2. Spec => DeliverySpec
  BY <1>1, EventsRunDeliveries, PTL DEF Spec, DeliverySpec
<1> QED BY <1>2, DeliveryAlwaysOnce, PTL

-----------------------------------------------------------------------------
(* Payouts.                                                                *)

Ats == {"create", "claim", "submit", "release", "close", "award", "list",
        "activate", "ready"}
Ops == Kinds \cup {"create_bounty", "claim_payout"} \cup Merges

SessionTypes == {Idle, Over} \cup [at : Ats, op : Ops, user : People]

SessionOK ==
  /\ session \in [Attempts \cup Calls -> SessionTypes]
  /\ \A s \in Attempts \cup Calls :
       session[s].at = "ready" => session[s].op \in Merges

\* A session that is about to release, and one the application has paid.
Releasing(s) == session[s].at = "release"
Payer(s) == session[s].at \in {"close", "award"}

\* Before the bounty is listed nothing about it can have been paid.
Unlisted ==
  bounty.status = "absent" =>
    /\ ~bounty.deployed /\ karma.awards = 0
    /\ \A s \in Attempts \cup Calls : ~Payer(s) /\ ~Releasing(s)

\* Only an application is asked to release, and it pays one session.
OnePayer ==
  /\ \A s \in Attempts \cup Calls : Releasing(s) => bounty.deployed
  /\ bounty.deployed =>
       \A s \in Attempts \cup Calls : Payer(s) =>
         /\ escrow = "closed" /\ karma.awards = 0
         /\ \A u \in Attempts \cup Calls : Payer(u) => u = s

EventsInv ==
  /\ TypeOK /\ SessionOK /\ Unlisted /\ OnePayer /\ ClosedIsPaid /\ AwardedOnce

\* A step that neither asks for money nor moves any keeps the invariant.
LEMMA CalmStep ==
  ASSUME EventsInv, TypeOK', SessionOK',
         bounty'.deployed = bounty.deployed,
         bounty'.status = "absent" => bounty.status = "absent",
         bounty'.status = "closed" /\ bounty.deployed =>
           bounty.status = "closed" \/ escrow = "closed",
         escrow = "closed" => escrow' = "closed",
         karma'.awards = karma.awards,
         \A s \in Attempts \cup Calls :
           /\ Payer(s)' => Payer(s) \/ (~bounty.deployed /\ bounty'.status # "absent")
           /\ Releasing(s)' => Releasing(s) \/ bounty.deployed
  PROVE  EventsInv'
<1> USE DEF EventsInv
<1>1. Unlisted'
  BY DEF Unlisted
<1>2. OnePayer'
  BY DEF OnePayer
<1>3. ClosedIsPaid'
  BY DEF ClosedIsPaid
<1>4. AwardedOnce'
  <2>1. karma.awards \in Nat
    BY DEF TypeOK
  <2>2. CASE bounty.deployed /\ escrow = "closed"
    BY <2>2 DEF AwardedOnce
  <2>3. CASE bounty.deployed /\ escrow # "closed"
    BY <2>1, <2>3 DEF AwardedOnce
  <2>4. CASE ~bounty.deployed
    BY <2>4 DEF AwardedOnce
  <2> QED BY <2>2, <2>3, <2>4
<1> QED BY <1>1, <1>2, <1>3, <1>4


-----------------------------------------------------------------------------
(* Types.                                                                  *)

LEMMA GotoTyped ==
  ASSUME SessionOK, NEW s \in Attempts \cup Calls,
         NEW at \in Ats, NEW op \in Ops, NEW user \in People,
         at = "ready" => op \in Merges, Goto(s, at, op, user)
  PROVE  /\ SessionOK'
         /\ session'[s] = Session(at, op, user)
         /\ \A u \in (Attempts \cup Calls) \ {s} : session'[u] = session[u]
<1>1. Session(at, op, user) \in SessionTypes
  BY DEF Session, SessionTypes
<1>2. session' = [session EXCEPT ![s] = Session(at, op, user)]
  BY DEF Goto
<1>3. /\ session'[s] = Session(at, op, user)
      /\ \A u \in (Attempts \cup Calls) \ {s} : session'[u] = session[u]
  BY <1>2 DEF SessionOK
<1>4. session' \in [Attempts \cup Calls -> SessionTypes]
  BY <1>1, <1>2 DEF SessionOK
<1>5. \A u \in Attempts \cup Calls :
        session'[u].at = "ready" => session'[u].op \in Merges
  BY <1>3 DEF SessionOK, Session
<1> QED BY <1>3, <1>4, <1>5 DEF SessionOK

LEMMA OverTyped ==
  ASSUME SessionOK, NEW s \in Attempts \cup Calls,
         session' = [session EXCEPT ![s] = Over]
  PROVE  /\ SessionOK'
         /\ session'[s] = Over
         /\ \A u \in (Attempts \cup Calls) \ {s} : session'[u] = session[u]
<1>1. /\ session'[s] = Over
      /\ \A u \in (Attempts \cup Calls) \ {s} : session'[u] = session[u]
  BY DEF SessionOK
<1>2. session' \in [Attempts \cup Calls -> SessionTypes]
  BY DEF SessionOK, SessionTypes
<1>3. \A u \in Attempts \cup Calls :
        session'[u].at = "ready" => session'[u].op \in Merges
  BY <1>1 DEF SessionOK, Over
<1> QED BY <1>1, <1>2, <1>3 DEF SessionOK

\* A session that has started knows its operation and its user.
LEMMA StartedTyped ==
  ASSUME SessionOK, NEW s \in Attempts \cup Calls, session[s].at \in Ats
  PROVE  /\ session[s] = Session(session[s].at, session[s].op, session[s].user)
         /\ session[s].op \in Ops /\ session[s].user \in People
  BY DEF SessionOK, SessionTypes, Session, Idle, Over, Ats

-----------------------------------------------------------------------------
(* Steps.                                                                  *)

\* A handler that has checked the row and goes on.
LEMMA StartStep ==
  ASSUME EventsInv, NEW s \in Attempts \cup Calls,
         NEW at \in Ats, NEW op \in Ops, NEW user \in People,
         at = "ready" => op \in Merges,
         at = "release" => bounty.deployed,
         at \in {"close", "award"} =>
           ~bounty.deployed /\ bounty.status # "absent",
         Start(s, at, op, user)
  PROVE  EventsInv'
<1>1. Goto(s, at, op, user) /\ UNCHANGED rowVars
  BY DEF Start
<1>2. /\ SessionOK'
      /\ session'[s] = Session(at, op, user)
      /\ \A u \in (Attempts \cup Calls) \ {s} : session'[u] = session[u]
  BY <1>1, GotoTyped DEF EventsInv
<1>3. TypeOK'
  BY <1>1 DEF EventsInv, TypeOK, rowVars
<1>4. session'[s].at = at
  BY <1>2 DEF Session
<1>5. \A u \in Attempts \cup Calls :
        /\ Payer(u)' => Payer(u) \/ (~bounty.deployed /\ bounty'.status # "absent")
        /\ Releasing(u)' => Releasing(u) \/ bounty.deployed
  BY <1>1, <1>2, <1>4 DEF Payer, Releasing, rowVars
<1> QED BY <1>1, <1>2, <1>3, <1>5, CalmStep DEF rowVars

\* A handler that ends, with or without a last change of the row.
LEMMA OverStep ==
  ASSUME EventsInv, TypeOK', NEW s \in Attempts \cup Calls,
         session' = [session EXCEPT ![s] = Over],
         bounty'.deployed = bounty.deployed,
         bounty'.status = "absent" => bounty.status = "absent",
         bounty'.status = "closed" /\ bounty.deployed =>
           bounty.status = "closed" \/ escrow = "closed",
         escrow = "closed" => escrow' = "closed",
         karma'.awards = karma.awards
  PROVE  EventsInv'
<1>1. /\ SessionOK'
      /\ session'[s] = Over
      /\ \A u \in (Attempts \cup Calls) \ {s} : session'[u] = session[u]
  BY OverTyped DEF EventsInv
<1>2. \A u \in Attempts \cup Calls :
        /\ Payer(u)' => Payer(u)
        /\ Releasing(u)' => Releasing(u)
  BY <1>1 DEF Payer, Releasing, Over
<1> QED BY <1>1, <1>2, CalmStep

\* A step of the environment: no handler moves.
LEMMA OutsideStep ==
  ASSUME EventsInv, TypeOK', session' = session,
         bounty'.deployed = bounty.deployed,
         bounty'.status = "absent" => bounty.status = "absent",
         bounty'.status = "closed" /\ bounty.deployed =>
           bounty.status = "closed" \/ escrow = "closed",
         escrow = "closed" => escrow' = "closed",
         karma' = karma
  PROVE  EventsInv'
<1>1. SessionOK'
  BY DEF EventsInv, SessionOK
<1>2. \A u \in Attempts \cup Calls :
        /\ Payer(u)' => Payer(u)
        /\ Releasing(u)' => Releasing(u)
  BY DEF Payer, Releasing
<1> QED BY <1>1, <1>2, CalmStep

\* StartPayout asks the application, if there is one.
LEMMA StartPayoutStep ==
  ASSUME EventsInv, NEW s \in Attempts \cup Calls, NEW op \in Ops,
         NEW user \in People, bounty.status # "absent",
         StartPayout(s, op, user)
  PROVE  EventsInv'
<1> DEFINE at == IF bounty.deployed THEN "release" ELSE "close"
<1>1. Start(s, at, op, user)
  BY DEF StartPayout
<1>2. at \in Ats
  BY DEF Ats
<1>3. CASE bounty.deployed
  BY <1>1, <1>2, <1>3, StartStep
<1>4. CASE ~bounty.deployed
  BY <1>1, <1>2, <1>4, StartStep
<1> QED BY <1>3, <1>4

LEMMA EventsStep == EventsInv /\ [Next]_vars => EventsInv'
<1> SUFFICES ASSUME EventsInv, [Next]_vars PROVE EventsInv'
  OBVIOUS
<1>0. TypeOK /\ SessionOK /\ Unlisted /\ OnePayer /\ ClosedIsPaid /\ AwardedOnce
  BY DEF EventsInv
<1>1. ASSUME NEW t \in Attempts, Deliver(t)
      PROVE  EventsInv'
  <2>1. UNCHANGED <<rowVars, session>>
    BY <1>1 DEF Deliver
  <2>2. TypeOK'
    BY <1>0, <2>1 DEF TypeOK, rowVars
  <2> QED BY <2>1, <2>2, OutsideStep, <1>0 DEF rowVars, ClosedIsPaid
<1>2. ASSUME NEW s \in Attempts \cup Calls, Return(s) \/ Raise(s), UNCHANGED rowVars
      PROVE  EventsInv'
  <2>1. session' = [session EXCEPT ![s] = Over]
    BY <1>2 DEF Return, Raise
  <2>2. TypeOK'
    BY <1>0, <1>2 DEF TypeOK, rowVars
  <2> QED BY <1>2, <2>1, <2>2, OverStep DEF rowVars
<1>3. ASSUME NEW t \in Attempts, NEW user \in People, IssueOpened(t, user)
      PROVE  EventsInv'
  <2>1. CASE bounty.status = "absent"
    <3>1. Start(t, "create", "issue_opened", user)
      BY <1>3, <2>1 DEF IssueOpened
    <3> QED BY <3>1, StartStep DEF Ats, Ops, Kinds
  <2>2. CASE bounty.status # "absent"
    BY <1>2, <1>3, <2>2 DEF IssueOpened
  <2> QED BY <2>1, <2>2
<1>4. ASSUME NEW t \in Attempts, CreatePending(t)
      PROVE  EventsInv'
  <2>1. session' = [session EXCEPT ![t] = Over]
    BY <1>4 DEF CreatePending, Return, Raise
  <2>2. UNCHANGED <<escrow, linked, synced, karma>>
    BY <1>4 DEF CreatePending
  <2>3. CASE bounty.status = "absent"
    <3>1. PICK hitm \in BOOLEAN :
            bounty' = [Absent EXCEPT !.status = "pending_payment", !.hitm = hitm]
      BY <1>4, <2>3 DEF CreatePending
    <3>2. /\ bounty'.status = "pending_payment" /\ bounty'.hitm = hitm
          /\ bounty'.deployed = FALSE /\ bounty'.payout = ""
          /\ bounty'.ready = FALSE /\ bounty'.worker = Nobody
          /\ bounty' = [status |-> "pending_payment", worker |-> Nobody,
                        hitm |-> hitm, deployed |-> FALSE, payout |-> "",
                        ready |-> FALSE]
      BY <3>1 DEF Absent
    <3>3. TypeOK'
      BY <1>0, <2>2, <3>2 DEF TypeOK, Statuses
    <3>4. bounty.deployed = FALSE
      BY <1>0, <2>3 DEF Unlisted, TypeOK
    <3> QED BY <2>1, <2>2, <3>2, <3>3, <3>4, OverStep
  <2>4. CASE bounty.status # "absent"
    <3>1. UNCHANGED bounty
      BY <1>4, <2>4 DEF CreatePending
    <3>2. TypeOK'
      BY <1>0, <2>2, <3>1 DEF TypeOK
    <3> QED BY <2>1, <2>2, <3>1, <3>2, OverStep
  <2> QED BY <2>3, <2>4
<1>5. ASSUME NEW t \in Attempts, NEW user \in People,
             IssueClosed(t, user) \/ PrMerged(t, user)
      PROVE  EventsInv'
  <2>1. CASE Return(t) /\ UNCHANGED rowVars
    BY <1>2, <2>1
  <2>2. CASE ~(Return(t) /\ UNCHANGED rowVars)
    <3>1. bounty.status # "absent"
      BY <1>5, <2>2 DEF IssueClosed, PrMerged, UnderWork
    <3>2. \E op \in {"issue_closed", "pr_merged"} : StartPayout(t, op, user)
      BY <1>5, <2>2 DEF IssueClosed, PrMerged
    <3>3. {"issue_closed", "pr_merged"} \subseteq Ops
      BY DEF Ops, Kinds
    <3> QED BY <3>1, <3>2, <3>3, StartPayoutStep
  <2> QED BY <2>1, <2>2
<1>6. ASSUME NEW t \in Attempts, NEW user \in People, PrPushed(t, user)
      PROVE  EventsInv'
  <2>1. \/ Start(t, "claim", "pr_pushed", user)
        \/ Start(t, "submit", "pr_pushed", user)
        \/ Return(t) /\ UNCHANGED rowVars
    BY <1>6 DEF PrPushed
  <2>2. {"claim", "submit"} \subseteq Ats /\ "pr_pushed" \in Ops
    BY DEF Ats, Ops, Kinds
  <2> QED BY <1>2, <2>1, <2>2, StartStep
<1>7. ASSUME NEW t \in Attempts, CommitPush(t)
      PROVE  EventsInv'
  <2>1. /\ session' = [session EXCEPT ![t] = Over]
        /\ UNCHANGED <<escrow, linked, synced, karma>>
    BY <1>7 DEF CommitPush, Return
  <2>2. session[t].user \in People
    BY <1>0, <1>7, StartedTyped DEF CommitPush, Ats
  <2>3. \/ bounty' = [bounty EXCEPT !.status = "claimed",
                                    !.worker = Login(session[t].user)]
        \/ bounty' = [bounty EXCEPT !.status = "submitted"]
    BY <1>7 DEF CommitPush
  <2>4. Login(session[t].user) \in {"login", "wallet"} \X People
    BY <2>2 DEF Login
  <2>5. /\ TypeOK' /\ bounty'.deployed = bounty.deployed
        /\ bounty'.status \in {"claimed", "submitted"}
    BY <1>0, <2>1, <2>3, <2>4 DEF TypeOK, Statuses
  <2> QED BY <2>1, <2>5, OverStep
<1>8. ASSUME NEW s \in Attempts \cup Calls, ReleaseTrustless(s)
      PROVE  EventsInv'
  <2>1. /\ session[s].at = "release"
        /\ UNCHANGED <<bounty, linked, synced, karma>>
    BY <1>8 DEF ReleaseTrustless
  <2>2. escrow' \in {escrow, "closed"}
    BY <1>8 DEF ReleaseTrustless
  <2>3. TypeOK'
    BY <1>0, <2>1, <2>2 DEF TypeOK
  <2>4. CASE session' = [session EXCEPT ![s] = Over]
    BY <2>1, <2>2, <2>3, <2>4, OverStep, <1>0
  <2>5. CASE /\ escrow = "submitted" /\ escrow' = "closed"
             /\ Goto(s, "close", session[s].op, session[s].user)
    <3>1. session[s].op \in Ops /\ session[s].user \in People /\ "close" \in Ats
      BY <1>0, <2>1, StartedTyped DEF Ats
    <3>2. /\ SessionOK'
          /\ session'[s] = Session("close", session[s].op, session[s].user)
          /\ \A u \in (Attempts \cup Calls) \ {s} : session'[u] = session[u]
      BY <1>0, <2>5, <3>1, GotoTyped
    <3>3. bounty.deployed
      BY <1>0, <2>1 DEF OnePayer, Releasing
    <3>4. karma.awards = 0 /\ \A u \in Attempts \cup Calls : ~Payer(u)
      <4>1. karma.awards \in Nat /\ karma.awards <= 0
        BY <1>0, <2>5, <3>3 DEF AwardedOnce, TypeOK
      <4>2. \A u \in Attempts \cup Calls : ~Payer(u)
        BY <1>0, <2>5, <3>3 DEF OnePayer
      <4> QED BY <4>1, <4>2
    <3>5. /\ \A u \in Attempts \cup Calls : Payer(u)' => u = s
          /\ \A u \in Attempts \cup Calls : Releasing(u)' => Releasing(u)
      BY <3>2, <3>4 DEF Payer, Releasing, Session
    <3>6. Unlisted'
      BY <1>0, <2>1, <3>3 DEF Unlisted
    <3>7. OnePayer'
      BY <1>0, <2>1, <2>5, <3>4, <3>5 DEF OnePayer
    <3>8. ClosedIsPaid' /\ AwardedOnce'
      BY <2>1, <2>5, <3>4 DEF ClosedIsPaid, AwardedOnce
    <3> QED BY <2>3, <3>2, <3>6, <3>7, <3>8 DEF EventsInv
  <2> QED BY <1>8, <2>4, <2>5 DEF ReleaseTrustless, Refused, Return
<1>9. ASSUME NEW s \in Attempts \cup Calls, ClosePaid(s)
      PROVE  EventsInv'
  <2>1. /\ session[s].at = "close"
        /\ Goto(s, "award", session[s].op, session[s].user)
        /\ UNCHANGED <<escrow, linked, synced, karma>>
        /\ bounty' = [bounty EXCEPT !.status = "closed", !.payout = "PAYOUT",
                                    !.worker = Payee(s)]
    BY <1>9 DEF ClosePaid
  <2>2. session[s].op \in Ops /\ session[s].user \in People /\ "award" \in Ats
    BY <1>0, <2>1, StartedTyped DEF Ats
  <2>3. /\ SessionOK'
        /\ session'[s] = Session("award", session[s].op, session[s].user)
        /\ \A u \in (Attempts \cup Calls) \ {s} : session'[u] = session[u]
    BY <1>0, <2>1, <2>2, GotoTyped
  <2>4. Payee(s) \in {Nobody} \cup ({"login", "wallet"} \X People)
    BY <1>0, <2>2 DEF Payee, Login, Wallet, TypeOK
  <2>5. /\ TypeOK'
        /\ bounty'.deployed = bounty.deployed /\ bounty'.status = "closed"
    BY <1>0, <2>1, <2>4 DEF TypeOK, Statuses
  <2>6. bounty.deployed => escrow = "closed"
    BY <1>0, <2>1 DEF OnePayer, Payer
  <2>7. \A u \in Attempts \cup Calls :
          /\ Payer(u)' => Payer(u)
          /\ Releasing(u)' => Releasing(u)
    BY <2>1, <2>3 DEF Payer, Releasing, Session
  <2> QED BY <1>0, <2>1, <2>3, <2>5, <2>6, <2>7, CalmStep
<1>10. ASSUME NEW s \in Attempts \cup Calls, Award(s)
       PROVE  EventsInv'
  <2>1. /\ session[s].at = "award"
        /\ session' = [session EXCEPT ![s] = Over]
        /\ UNCHANGED <<bounty, escrow, linked, synced>>
        /\ karma' = [karma EXCEPT !.awards = @ + 1]
    BY <1>10 DEF Award, Return
  <2>2. /\ SessionOK'
        /\ session'[s] = Over
        /\ \A u \in (Attempts \cup Calls) \ {s} : session'[u] = session[u]
    BY <1>0, <2>1, OverTyped
  <2>3. TypeOK' /\ karma'.awards = karma.awards + 1
    <3>1. karma = [awards |-> karma.awards, charges |-> karma.charges]
          /\ karma.awards \in Nat /\ karma.charges \in Nat
      BY <1>0 DEF TypeOK
    <3>2. karma' = [awards |-> karma.awards + 1, charges |-> karma.charges]
      BY <2>1, <3>1
    <3>3. karma' \in [awards : Nat, charges : Nat]
      BY <3>1, <3>2
    <3>4. karma'.awards = karma.awards + 1
      BY <3>2
    <3>5. TypeOK'
      BY <1>0, <2>1, <3>3 DEF TypeOK
    <3> QED BY <3>4, <3>5
  <2>4. /\ \A u \in Attempts \cup Calls : Payer(u)' => Payer(u) /\ u # s
        /\ \A u \in Attempts \cup Calls : Releasing(u)' => Releasing(u)
    BY <2>2 DEF Payer, Releasing, Over
  <2>5. Payer(s)
    BY <2>1 DEF Payer
  <2>6. Unlisted' /\ ClosedIsPaid'
    BY <1>0, <2>1, <2>5 DEF Unlisted, ClosedIsPaid
  <2>7. OnePayer'
    BY <1>0, <2>1, <2>4, <2>5 DEF OnePayer
  <2>8. AwardedOnce'
    <3>1. CASE bounty.deployed
      <4>1. escrow = "closed" /\ karma.awards = 0
        BY <1>0, <2>5, <3>1 DEF OnePayer
      <4> QED BY <2>1, <2>3, <4>1 DEF AwardedOnce
    <3>2. CASE ~bounty.deployed
      BY <2>1, <3>2 DEF AwardedOnce
    <3> QED BY <3>1, <3>2
  <2> QED BY <2>2, <2>3, <2>6, <2>7, <2>8 DEF EventsInv
<1>11. ASSUME NEW c \in Calls, NEW user \in People, CreateBounty(c, user)
       PROVE  EventsInv'
  <2> DEFINE at == IF bounty.status = "absent" THEN "list" ELSE "activate"
  <2>1. /\ Goto(c, at, "create_bounty", user)
        /\ karma' = [karma EXCEPT !.charges = @ + 1]
        /\ UNCHANGED <<bounty, escrow, linked, synced>>
    BY <1>11 DEF CreateBounty
  <2>2. at \in Ats /\ at \in {"list", "activate"} /\ "create_bounty" \in Ops
    BY DEF Ats, Ops
  <2>3. /\ SessionOK'
        /\ session'[c] = Session(at, "create_bounty", user)
        /\ \A u \in (Attempts \cup Calls) \ {c} : session'[u] = session[u]
    BY <1>0, <2>1, <2>2, GotoTyped
  <2>4. TypeOK' /\ karma'.awards = karma.awards
    <3>1. karma = [awards |-> karma.awards, charges |-> karma.charges]
          /\ karma.awards \in Nat /\ karma.charges \in Nat
      BY <1>0 DEF TypeOK
    <3>2. karma' = [awards |-> karma.awards, charges |-> karma.charges + 1]
      BY <2>1, <3>1
    <3>3. karma' \in [awards : Nat, charges : Nat]
      BY <3>1, <3>2
    <3>4. karma'.awards = karma.awards
      BY <3>2
    <3>5. TypeOK'
      BY <1>0, <2>1, <3>3 DEF TypeOK
    <3> QED BY <3>4, <3>5
  <2>5. \A u \in Attempts \cup Calls :
          /\ Payer(u)' => Payer(u)
          /\ Releasing(u)' => Releasing(u)
    BY <2>2, <2>3 DEF Payer, Releasing, Session
  <2> QED BY <2>1, <2>3, <2>4, <2>5, CalmStep
<1>12. ASSUME NEW c \in Calls, ListBounty(c)
       PROVE  EventsInv'
  <2>1. /\ session' = [session EXCEPT ![c] = Over]
        /\ UNCHANGED <<linked, synced, karma>>
    BY <1>12 DEF ListBounty, Return
  <2>2. CASE /\ bounty.status = "absent"
             /\ bounty' = Listed(TRUE, TRUE) /\ escrow' = "open"
    <3>1. bounty' = [status |-> "open", worker |-> Nobody, hitm |-> TRUE,
                     deployed |-> TRUE, payout |-> "", ready |-> FALSE]
      BY <2>2 DEF Listed, Absent
    <3>2. TypeOK'
      <4>1. bounty' \in [status : Statuses, hitm : BOOLEAN, deployed : BOOLEAN,
                        payout : {"", "PAYOUT"}, ready : BOOLEAN,
                        worker : {Nobody} \cup ({"login", "wallet"} \X People)]
        BY <3>1 DEF Statuses
      <4>2. escrow' \in {"none", "open", "claimed", "submitted", "closed"}
        BY <2>2
      <4> QED BY <1>0, <2>1, <4>1, <4>2 DEF TypeOK
    <3>3. /\ SessionOK'
          /\ session'[c] = Over
          /\ \A u \in (Attempts \cup Calls) \ {c} : session'[u] = session[u]
      BY <1>0, <2>1, OverTyped
    <3>4. /\ karma.awards = 0
          /\ \A u \in Attempts \cup Calls : ~Payer(u) /\ ~Releasing(u)
      BY <1>0, <2>2 DEF Unlisted
    <3>5. \A u \in Attempts \cup Calls : ~Payer(u)' /\ ~Releasing(u)'
      BY <3>3, <3>4 DEF Payer, Releasing, Over
    <3>6. Unlisted' /\ OnePayer'
      BY <3>1, <3>5 DEF Unlisted, OnePayer
    <3>7. ClosedIsPaid'
      <4>1. bounty'.status = "open"
        BY <3>1
      <4> QED BY <4>1 DEF ClosedIsPaid
    <3>8. AwardedOnce'
      <4>1. karma'.awards = 0
        BY <2>1, <3>4
      <4> QED BY <4>1 DEF AwardedOnce
    <3> QED BY <3>2, <3>3, <3>6, <3>7, <3>8 DEF EventsInv
  <2>3. CASE UNCHANGED <<bounty, escrow>>
    <3>1. TypeOK'
      BY <1>0, <2>1, <2>3 DEF TypeOK
    <3> QED BY <2>1, <2>3, <3>1, OverStep
  <2>4. CASE /\ bounty' = [bounty EXCEPT !.status = "open", !.hitm = TRUE]
             /\ UNCHANGED escrow
    <3>1. /\ TypeOK' /\ bounty'.deployed = bounty.deployed
          /\ bounty'.status = "open"
      BY <1>0, <2>1, <2>4 DEF TypeOK, Statuses
    <3> QED BY <2>1, <2>4, <3>1, OverStep
  <2> QED BY <1>12, <2>2, <2>3, <2>4 DEF ListBounty
<1>13. ASSUME NEW c \in Calls, NEW user \in People, SyncGithub(c, user)
       PROVE  EventsInv'
  <2>1. PICK sha \in Merges : Start(c, "ready", sha, user)
    BY <1>13 DEF SyncGithub
  <2>2. "ready" \in Ats /\ sha \in Ops
    BY DEF Ats, Ops
  <2> QED BY <2>1, <2>2, StartStep
<1>14. ASSUME NEW c \in Calls, CommitReady(c)
       PROVE  EventsInv'
  <2>1. /\ session' = [session EXCEPT ![c] = Over]
        /\ UNCHANGED <<escrow, linked, karma>>
        /\ session[c].at = "ready"
        /\ \/ /\ bounty' = [bounty EXCEPT !.ready = TRUE]
              /\ synced' = synced \cup {session[c].op}
           \/ UNCHANGED <<bounty, synced>>
    BY <1>14 DEF CommitReady, Return
  <2>2. session[c].op \in Merges
    BY <1>0, <2>1 DEF SessionOK
  <2>3. /\ TypeOK'
        /\ bounty'.deployed = bounty.deployed /\ bounty'.status = bounty.status
    BY <1>0, <2>1, <2>2 DEF TypeOK
  <2> QED BY <2>1, <2>3, OverStep
<1>15. ASSUME NEW c \in Calls, NEW user \in People, ClaimPayout(c, user)
       PROVE  EventsInv'
  <2>1. StartPayout(c, "claim_payout", user) /\ bounty.status # "absent"
    BY <1>15 DEF ClaimPayout
  <2>2. "claim_payout" \in Ops
    BY DEF Ops
  <2> QED BY <2>1, <2>2, StartPayoutStep
<1>16. ASSUME NEW s \in Attempts \cup Calls, Dies(s)
       PROVE  EventsInv'
  <2>1. session' = [session EXCEPT ![s] = Over] /\ UNCHANGED rowVars
    BY <1>16 DEF Dies
  <2>2. TypeOK'
    BY <1>0, <2>1 DEF TypeOK, rowVars
  <2> QED BY <2>1, <2>2, OverStep DEF rowVars
<1>17. ASSUME NEW user \in People, LinkGithub(user)
       PROVE  EventsInv'
  <2>1. /\ UNCHANGED <<bounty, escrow, synced, karma, session>>
        /\ linked' \in {linked \cup {user}, linked \ {user}}
    BY <1>17 DEF LinkGithub
  <2>2. TypeOK'
    BY <1>0, <2>1 DEF TypeOK
  <2> QED BY <2>1, <2>2, OutsideStep
<1>18. ASSUME NEW user \in People, ClaimThroughApi(user)
       PROVE  EventsInv'
  <2>1. /\ UNCHANGED <<escrow, linked, synced, karma, session>>
        /\ bounty' = [bounty EXCEPT !.status = "claimed", !.worker = Wallet(user)]
    BY <1>18 DEF ClaimThroughApi
  <2>2. Wallet(user) \in {"login", "wallet"} \X People
    BY DEF Wallet
  <2>3. /\ TypeOK'
        /\ bounty'.deployed = bounty.deployed /\ bounty'.status = "claimed"
    BY <1>0, <2>1, <2>2 DEF TypeOK, Statuses
  <2> QED BY <2>1, <2>3, OutsideStep
<1>19. ASSUME ChainMoves
       PROVE  EventsInv'
  <2>1. /\ UNCHANGED <<bounty, linked, synced, karma, session>>
        /\ escrow \in {"open", "claimed", "submitted"}
        /\ escrow' \in {"claimed", "submitted", "closed"}
    BY <1>19 DEF ChainMoves, Following
  <2>2. TypeOK'
    BY <1>0, <2>1 DEF TypeOK
  <2> QED BY <2>1, <2>2, OutsideStep
<1>20. ASSUME RowFollows
       PROVE  EventsInv'
  <2>1. /\ bounty.deployed /\ escrow # "none"
        /\ bounty' = [bounty EXCEPT !.status = escrow]
        /\ UNCHANGED <<escrow, linked, synced, karma, session>>
    BY <1>20 DEF RowFollows
  <2>2. /\ TypeOK' /\ bounty'.deployed = bounty.deployed
        /\ bounty'.status = escrow /\ escrow # "absent"
    BY <1>0, <2>1 DEF TypeOK, Statuses
  <2> QED BY <2>1, <2>2, OutsideStep
<1>21. CASE UNCHANGED vars
  <2>1. UNCHANGED <<rowVars, session>>
    BY <1>21 DEF vars
  <2>2. TypeOK'
    BY <1>0, <2>1 DEF TypeOK, rowVars
  <2> QED BY <2>1, <2>2, OutsideStep DEF rowVars
<1> QED
  BY <1>1, <1>3, <1>4, <1>5, <1>6, <1>7, <1>8, <1>9, <1>10, <1>11, <1>12,
     <1>13, <1>14, <1>15, <1>16, <1>17, <1>18, <1>19, <1>20, <1>21 DEF Next

LEMMA EventsStart == Init => EventsInv
<1> SUFFICES ASSUME Init PROVE EventsInv
  OBVIOUS
<1>1. /\ bounty.status \in {"absent", "open"} /\ bounty.worker = Nobody
      /\ bounty.hitm \in BOOLEAN /\ bounty.deployed \in BOOLEAN
      /\ bounty.payout = "" /\ bounty.ready = FALSE
      /\ bounty = [status |-> bounty.status, worker |-> Nobody,
                   hitm |-> bounty.hitm, deployed |-> bounty.deployed,
                   payout |-> "", ready |-> FALSE]
      /\ bounty.status = "absent" => bounty.deployed = FALSE
  <2>1. CASE bounty = Absent
    BY <2>1 DEF Absent
  <2>2. CASE \E deployed \in BOOLEAN : bounty = Listed(FALSE, deployed)
    BY <2>2 DEF Listed, Absent
  <2> QED BY <2>1, <2>2 DEF Init
<1>2. /\ escrow = IF bounty.deployed THEN "open" ELSE "none"
      /\ linked = {} /\ synced = {}
      /\ karma = [awards |-> 0, charges |-> 0]
      /\ session = [s \in Attempts \cup Calls |-> Idle]
  BY DEF Init
<1>3. TypeOK
  BY <1>1, <1>2 DEF TypeOK, Statuses
<1>4. SessionOK /\ \A s \in Attempts \cup Calls : ~Payer(s) /\ ~Releasing(s)
  BY <1>2 DEF SessionOK, SessionTypes, Payer, Releasing, Idle
<1>5. Unlisted /\ OnePayer
  BY <1>1, <1>2, <1>4 DEF Unlisted, OnePayer
<1>6. ClosedIsPaid
  BY <1>1 DEF ClosedIsPaid
<1>7. AwardedOnce
  <2>1. karma.awards = 0
    BY <1>2
  <2> QED BY <2>1 DEF AwardedOnce
<1> QED BY <1>3, <1>4, <1>5, <1>6, <1>7 DEF EventsInv

-----------------------------------------------------------------------------
\* The row and the chain's state keep their types: TypeOK.
THEOREM EventsTypeCorrect == Spec => []TypeOK
<1>1. EventsInv => TypeOK
  BY DEF EventsInv
<1> QED BY <1>1, EventsStart, EventsStep, PTL DEF Spec

\* For any number of events and calls, a bounty with an application is shown
\* as closed only after the application has paid: ClosedIsPaid.
THEOREM ClosedAlwaysPaid == Spec => []ClosedIsPaid
<1>1. EventsInv => ClosedIsPaid
  BY DEF EventsInv
<1> QED BY <1>1, EventsStart, EventsStep, PTL DEF Spec

\* For any number of events and calls, a bounty with an application brings
\* karma once, after the application has paid: AwardedOnce.
THEOREM AwardedAtMostOnce == Spec => []AwardedOnce
<1>1. EventsInv => AwardedOnce
  BY DEF EventsInv
<1> QED BY <1>1, EventsStart, EventsStep, PTL DEF Spec
=============================================================================
