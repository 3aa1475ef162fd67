-------------------------- MODULE EscrowProperties --------------------------
(***************************************************************************)
(* What the escrow contract guarantees, as invariants, action properties,  *)
(* liveness properties and the abstract lifecycle it implements.           *)
(***************************************************************************)
EXTENDS Escrow, FiniteSetsExt

\* The lines the settling methods log; the gateway's indexer parses them.
SettlementLogs == {"work_approved", "auto_released_hitm",
                   "abandoned_refunded_creator", "dispute_resolved_agent_win",
                   "dispute_resolved_creator_win", "dispute_resolved_split",
                   "dispute_auto_resolved_creator_win", "dispute_timeout_split"}

\* The boxes hold what the contract's declarations say (__init__).
TypeOK ==
  /\ state \in States
  /\ terms \in Terms \cup {NoTerms}
  /\ agent \in Roles
  /\ claim_deadline \in Nat /\ review_deadline \in Nat
  /\ last_rejection_timestamp \in Nat /\ dispute_timestamp \in Nat
  /\ rejection_count \in Nat /\ rejections \in Nat
  /\ evaluator \in [Seats -> Roles]
  /\ vote \in [Seats -> 0 .. 3]
  /\ payout_type \in {"", "PAYOUT", "REFUND", "SPLIT"}
  /\ github_status \in {"", "pending", "pass", "fail"}
  /\ settlement_log \in SettlementLogs \cup {""}
  /\ ledger \in [Accounts \cup {App} -> Nat]
  /\ now \in Nat
  /\ opted_in \subseteq Accounts

Posted == {"OPEN", "CLAIMED", "SUBMITTED", "REJECTED", "DISPUTED"}
Engaged == {"CLAIMED", "SUBMITTED", "REJECTED", "DISPUTED", "CLOSED", "DELETED"}

\* Whoever a settlement may pay is known when it can happen: from the claim to
\* the end the agent is a real account other than the creator, so no payout
\* ever goes to the zero address; an open bounty has no agent, so it can be
\* claimed again after an expiry (claim_bounty, expire_claim, approve_work).
AgentAssigned ==
  /\ state = "NONE" => terms = NoTerms
  /\ state # "NONE" => terms \in Terms
  /\ state \in {"NONE", "OPEN"} => agent = Zero
  /\ state \in Engaged => agent \in Accounts \ {terms.creator}

\* Rejections and revisions both advance rejection_count, so its parity tells
\* whose turn it is: a submission under review has 0 or 2 of the 3, a
\* rejected one 1 or 3, and a creator rejects twice at most, not three times as
\* README.md:48 says, see RevisionAvailable (submit_work, reject_work).
RejectionRounds ==
  /\ state \in {"NONE", "OPEN", "CLAIMED"} => rejection_count = 0
  /\ state = "SUBMITTED" => rejection_count \in {0, 2}
  /\ state = "REJECTED" => rejection_count \in {1, 3}
  /\ rejection_count <= MAX_REJECTIONS
  /\ rejections = (rejection_count + 1) \div 2

\* A decided dispute never waits: as long as the bounty is disputed some seat
\* has not voted and no two votes agree, every seat is taken, and before a
\* dispute there is no vote at all (vote_dispute, _select_evaluators).
VotesUndecided ==
  /\ state = "DISPUTED" =>
       /\ \E i \in Seats : vote[i] = 0
       /\ \A i, j \in Seats : i # j /\ vote[i] # 0 => vote[i] # vote[j]
       /\ evaluator \in [Seats -> Accounts]
  /\ state \in {"NONE", "OPEN", "CLAIMED", "SUBMITTED", "REJECTED"} =>
       vote = [i \in Seats |-> 0]

\* The review window restarts with every submission: while a bounty under
\* human review waits for its creator, the deadline after which anybody can
\* release the money is a whole window after the last rejection, never the
\* one of an earlier submission (submit_work, auto_release).
ReviewWindowFresh ==
  state = "SUBMITTED" /\ terms.hitm = 1 =>
    review_deadline >= last_rejection_timestamp + terms.review_days * Day

\* A payout type is only recorded with a settlement, every settlement records
\* one, and nothing is paid before.
SettlementRecorded ==
  /\ state \in Posted \cup {"NONE"} =>
       payout_type = "" /\ \A a \in Accounts : ledger[a] = 0
  /\ state \in {"CLOSED", "DELETED"} =>
       payout_type \in {"PAYOUT", "REFUND", "SPLIT"}

Earners == {terms.treasury, terms.mediator, terms.gateway}
             \cup {evaluator[i] : i \in Seats}

\* The loser of a settlement is not paid, the winner is: an agent that serves
\* in no other role gets nothing from a refund, the creator gets no more than
\* the royalty from a payout, and an account without a role gets nothing.  A
\* split is even only without human review: with it the creator gets the
\* mediator's fee on top of its half, although README.md:50 calls the split
\* 50/50 (_send_fee_split, _execute_arbitration_payout and the methods that
\* call them).
PaidByRole ==
  state = "CLOSED" =>
    /\ payout_type = "REFUND" /\ agent \notin Earners => ledger[agent] = 0
    /\ payout_type = "PAYOUT" /\ terms.creator \notin Earners =>
         ledger[terms.creator] = FeeCreator(terms.amount, PlatformFee)
    /\ payout_type = "SPLIT" /\ {agent, terms.creator} \cap Earners = {} =>
         ledger[terms.creator]
           = ledger[agent] + (IF terms.hitm = 1
                                THEN FeeMediator(terms.amount) ELSE 0)
    /\ \A a \in Accounts \ (Earners \cup {agent, terms.creator}) : ledger[a] = 0

\* The mediator's fee reaches the mediator exactly when a bounty without human
\* review is settled out of a dispute, and the winner otherwise: a mediator
\* that holds no other role receives that fee or nothing (_send_fee_split).
MediatorFeeFollowsDispute ==
  LET disputed == evaluator[1] # Zero
      others   == {terms.creator, agent, terms.treasury, terms.gateway}
                    \cup {evaluator[i] : i \in Seats}
  IN  state = "CLOSED" /\ terms.mediator \notin others =>
        ledger[terms.mediator] = IF terms.hitm = 0 /\ disputed
                                   THEN FeeMediator(terms.amount) ELSE 0

\* What all accounts have received together, in a ledger.
Received(L) == MapThenSumSet(LAMBDA a : L[a], Accounts)

\* A settlement of this type has paid this number of units in full.
InFull(type, units) ==
  LET royalty == FeeCreator(terms.amount, PlatformFee)
  IN  CASE type = "PAYOUT" -> units = terms.amount
        [] type = "REFUND" -> units = terms.amount - royalty
        [] type = "SPLIT"  ->
             units \in {terms.amount - royalty, terms.amount - royalty - 1}

\* The units that accounts received add up to the escrow amount, except what
\* the split withholds: a payout is complete, a refund or a split lacks the
\* royalty, a split also the odd unit of the halved rest (_send_fee_split and
\* every settling method).
ReceivedInFull == state = "CLOSED" => InFull(payout_type, Received(ledger))

-----------------------------------------------------------------------------
(* Action properties.                                                      *)

\* Work under review cannot be refunded: a call that closes a submitted bounty
\* pays the worker ("the creator cannot unilaterally refund or cancel the
\* escrow while it is pending review"; approve_work, auto_release).
RefundLock ==
  [][state = "SUBMITTED" /\ state' = "CLOSED" => payout_type' = "PAYOUT"]_vars

\* A vote is final: no call changes or clears the vote of a seat, also when
\* one account holds several seats and votes several times (vote_dispute).
VotesFinal ==
  [][\A i \in Seats : vote[i] # 0 => vote'[i] = vote[i]]_vars

-----------------------------------------------------------------------------
(* The abstract lifecycle.                                                 *)

PhaseOf ==
  [s \in States |->
    CASE s = "NONE"      -> "unset"
      [] s = "OPEN"      -> "open"
      [] s = "CLAIMED"   -> "working"
      [] s = "SUBMITTED" -> "delivered"
      [] s = "REJECTED"  -> "delivered"
      [] s = "DISPUTED"  -> "contested"
      [] s = "CLOSED"    -> "settled"
      [] s = "DELETED"   -> "gone"]

Lifecycle == INSTANCE BountyLifecycle WITH
  Workers <- Accounts,
  Nobody  <- Zero,
  phase   <- PhaseOf[state],
  price   <- terms.amount,
  worker  <- agent,
  outcome <- payout_type,
  held    <- ledger[App]

\* The contract keeps the promise of BountyLifecycle: one worker at a time, a
\* single settlement of at most the escrow amount out of a funded escrow, and
\* the leftover only with the deletion.
ImplementsLifecycle == Lifecycle!Spec

-----------------------------------------------------------------------------
(* The contract as the gateway models it.                                  *)

\* The words of the state box the gateway reads.
BoxOf ==
  [s \in States |->
    CASE s = "OPEN"      -> "open"
      [] s = "CLAIMED"   -> "claimed"
      [] s = "SUBMITTED" -> "submitted"
      [] s = "REJECTED"  -> "rejected"
      [] s = "DISPUTED"  -> "disputed"
      [] s = "CLOSED"    -> "closed"
      [] OTHER           -> ""]

Boxes == [state |-> BoxOf[state], agent |-> agent]

\* Only the methods of EscrowApp and the lines IndexerWorker knows are used.
Gateway == INSTANCE IndexerWorker WITH
  Workers <- Accounts, Creator <- App, Nobody <- Zero, Used <- {},
  MaxRound <- 0, MaxPool <- 0, Requests <- {}, InitialKarma <- 0,
  KarmaRequirement <- 0, Stewarded <- {}, Pollers <- {}, TemplateFilter <- FALSE,
  app <- Boxes, round <- 0, logs <- <<>>, pool <- <<>>, bounty <- 0,
  karma <- 0, request <- 0, accepted <- 0, poll <- 0, last_round <- 0

MethodNames == DOMAIN Gateway!Methods
LineOf(method) == Gateway!Methods[method].line

\* The settling methods log nothing else; the others keep what was logged.
TellsOutcome(line) ==
  IF line \in DOMAIN Gateway!Outcome
    THEN settlement_log' = line /\ payout_type' = Gateway!Outcome[line]
    ELSE settlement_log' \notin DOMAIN Gateway!Outcome

\* Whatever happens to the boxes of a posted bounty is one call of a method,
\* from a state and to a state in which EscrowApp expects it; it leaves the
\* log line by which the worker finds it, and the payout type the worker
\* concludes from that line is the one the contract recorded (indexer_worker
\* against the arc4 methods of escrow.py).
GatewayUnderstands ==
  [][state # "NONE" /\ state' # "DELETED" =>
       \/ UNCHANGED <<state, agent, payout_type, settlement_log>>
       \/ \E method \in MethodNames, sender \in Accounts :
            LET call == [method |-> method, sender |-> sender]
            IN  /\ Gateway!Passes(Boxes, call)
                /\ Boxes' = Gateway!After(Boxes, call)
                /\ TellsOutcome(LineOf(method))]_vars

-----------------------------------------------------------------------------
(* Liveness, under FairSpec.                                               *)

\* The application can pay the escrow amount and keep its minimum balance.
Funded ==
  ledger[App] >= terms.amount + (IF terms.asset = 0 THEN MinBalance ELSE 0)

\* No worker blocks a bounty for ever: a claim ends in a submission or
\* expires (expire_claim).
ClaimEnds == state = "CLAIMED" ~> state # "CLAIMED"

\* No creator leaves work under human review for ever: the review of a funded
\* bounty ends, at the latest by the release to the worker (auto_release).
ReviewEnds ==
  state = "SUBMITTED" /\ terms.hitm = 1 /\ Funded ~> state # "SUBMITTED"

\* A funded dispute is settled even if no evaluator votes and the mediator is
\* gone (auto_resolve_creator_win, timeout_dispute).
DisputeEnds == state = "DISPUTED" /\ Funded ~> state = "CLOSED"

-----------------------------------------------------------------------------
(* What the documents say of the contract.                                 *)

\* "Select 3 evaluators (fallback to treasury if pool size is too small)": a
\* party can open a dispute whatever the size of the pool (escrow.py:435).
DisputeAvailable ==
  state \in {"SUBMITTED", "REJECTED"} /\ now <= Horizon =>
    \E s \in Accounts : ENABLED SubmitDispute(s)

\* "Creators can request up to 3 revisions.  A 3rd rejection automatically
\* escalates the bounty" (README.md:48), "Workers can resubmit fixes while
\* rejection_count < 3" (docs/edge_cases_and_abuse_mitigation.md:27): until the
\* third rejection the worker can answer with a revision.
RevisionAvailable ==
  state = "REJECTED" /\ rejections < MAX_REJECTIONS => ENABLED SubmitRevision(agent)
=============================================================================
