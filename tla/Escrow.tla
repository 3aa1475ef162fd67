------------------------------- MODULE Escrow -------------------------------
(***************************************************************************)
(* The escrow contract of escrow.py: one application holds the reward of   *)
(* one bounty from create_bounty to the settlement.  Every ABI method is   *)
(* one action: a call executes atomically and a failed assert rejects the  *)
(* whole call, inner payments included.  What interleaves is the order in  *)
(* which the creator, the worker, the gateway, the evaluators and any      *)
(* bystander call, the clock, deposits, and the accounts' asset opt-ins.   *)
(*                                                                         *)
(* Operators whose name starts with Mutant are deliberately wrong variants  *)
(* of the definition that follows them; no action uses them.               *)
(*                                                                         *)
(* Left out: the proof, reason, URL, hash and token texts, boxes nothing   *)
(* reads (claim_timestamp, dispute_reason, dispute_initiator), the         *)
(* read-only get_bounty_info, and transaction fees.                        *)
(***************************************************************************)
EXTENDS EscrowFees, EvaluatorPool

CONSTANTS
  App,                  \* the application's own account
  Zero,                 \* the zero address
  Deployments,          \* the argument lists create_bounty may be called with
  Registrants,          \* bound: the accounts that use the evaluator pool
  PlatformFee,          \* template variable PLATFORM_FEE
  ClaimTimeout,         \* template variable CLAIM_TIMEOUT
  AbandonmentTimeout,   \* template variable ABANDONMENT_TIMEOUT
  Day,                  \* 86400 seconds
  AutoResolveTimeout,   \* 14 days, in auto_resolve_creator_win
  DisputeTimeout,       \* 30 days, in timeout_dispute
  SeedBytes,            \* length of the selection's seed: 32, a sha256 digest
  MaxUInt64,            \* the largest AVM word
  MinBalance,           \* ALGO the application's account may not go below
  Deposits,             \* amounts a deposit into the application may have
  MaxFunding,           \* bound: the largest balance deposits may build up
  Horizon,              \* bound: the last time a party opens a new phase
  MaxTime               \* bound: the last time of the clock

MAX_REJECTIONS == 3
BtoiMaxBytes == 8       \* the AVM's btoi rejects a longer argument

Roles == Accounts \cup {Zero}

Terms == [creator: Accounts, treasury: Accounts, mediator: Accounts,
          gateway: Roles, amount: Nat, hitm: 0 .. 1, asset: Nat,
          review_days: Nat, authorized_app: Nat]

NoTerms == [creator |-> Zero, treasury |-> Zero, mediator |-> Zero,
            gateway |-> Zero, amount |-> 0, hitm |-> 0, asset |-> 0,
            review_days |-> 0, authorized_app |-> 0]

ASSUME AddressAssumption ==
  /\ Zero \notin Accounts
  /\ App \notin Accounts
  /\ Registrants \subseteq Accounts

ASSUME DeploymentAssumption == Deployments \subseteq Terms

ASSUME NumberAssumption ==
  /\ PlatformFee \in Nat
  /\ ClaimTimeout \in Nat
  /\ AbandonmentTimeout \in Nat
  /\ Day \in Nat
  /\ AutoResolveTimeout \in Nat
  /\ DisputeTimeout \in Nat
  /\ AutoResolveTimeout < DisputeTimeout
  /\ SeedBytes \in Nat
  /\ MaxUInt64 \in Nat
  /\ MinBalance \in Nat
  /\ Deposits \subseteq Nat
  /\ MaxFunding \in Nat
  /\ Horizon \in Nat
  /\ MaxTime \in Nat

VARIABLES
  state,                \* box "state"; "NONE" before create_bounty and
                        \* "DELETED" once the application is gone
  terms,                \* the boxes only create_bounty writes
  agent,                \* box "agent_address"; a missing box reads Zero
  claim_deadline, review_deadline,
  rejection_count, last_rejection_timestamp,
  dispute_timestamp,
  evaluator, vote,      \* boxes "evaluator_i" and "evaluator_i_vote", 0 = none
  payout_type,          \* box "payout_type", "" while it is missing
  github_status,        \* box "github_status", "" while it is missing
  settlement_log,       \* the line the settling call logged
  ledger,               \* the application's balance of the escrowed asset, and
                        \* what each account has received from the application
  now,                  \* Global.latest_timestamp
  opted_in,             \* accounts that hold the reward's asset
  rejections            \* history: calls of reject_work since the claim

phaseVars == <<claim_deadline, review_deadline, last_rejection_timestamp,
               dispute_timestamp>>
panelVars == <<evaluator, vote>>
moneyVars == <<ledger, payout_type, settlement_log>>
worldVars == <<now, opted_in>>
countVars == <<rejection_count, rejections>>

vars == <<state, terms, agent, phaseVars, panelVars, moneyVars, worldVars,
          countVars, github_status, poolVars>>

States == {"NONE", "OPEN", "CLAIMED", "SUBMITTED", "REJECTED", "DISPUTED",
           "CLOSED", "DELETED"}

Seats == 1 .. 3

Init ==
  /\ state = "NONE" /\ terms = NoTerms /\ agent = Zero
  /\ claim_deadline = 0 /\ review_deadline = 0
  /\ last_rejection_timestamp = 0 /\ dispute_timestamp = 0
  /\ rejection_count = 0 /\ rejections = 0
  /\ evaluator = [i \in Seats |-> Zero] /\ vote = [i \in Seats |-> 0]
  /\ payout_type = "" /\ github_status = "" /\ settlement_log = ""
  /\ ledger = [a \in Accounts \cup {App} |-> 0]
  /\ now = 0
  /\ opted_in = Accounts
  /\ PoolInit

-----------------------------------------------------------------------------
(* Payments.                                                               *)

\* _send_payout: an inner transaction out of the application's account.
Pay(L, to, amount) == [L EXCEPT ![App] = @ - amount, ![to] = @ + amount]

Routed == terms.gateway # Zero

MutantRest == terms.amount

\* What the methods pay to the winner, or halve, after the fees.
Rest == AfterFees(terms.amount, PlatformFee, Routed)

MutantPayRoyalty(L, primary) ==
  Pay(L, terms.creator, FeeCreator(terms.amount, PlatformFee))

\* The royalty is skipped, not redirected, when the primary recipient is the
\* creator.
PayRoyalty(L, primary) ==
  IF primary = terms.creator
    THEN L
    ELSE Pay(L, terms.creator, FeeCreator(terms.amount, PlatformFee))

PayGateway(L) ==
  IF Routed
    THEN Pay(L, terms.gateway, FeeGateway(terms.amount, PlatformFee, TRUE))
    ELSE L

PayTreasury(L) ==
  Pay(L, terms.treasury, FeeTreasury(terms.amount, PlatformFee, Routed))

MutantMediatorPayee(primary, is_dispute) ==
  IF terms.hitm = 1 THEN primary ELSE terms.mediator

\* The mediator's fee goes to the primary recipient unless a dispute of a
\* bounty without human review is being settled.
MediatorPayee(primary, is_dispute) ==
  IF terms.hitm = 1 \/ ~is_dispute THEN primary ELSE terms.mediator

\* _send_fee_split.
FeeSplit(L, primary, is_dispute) ==
  Pay(PayTreasury(PayGateway(PayRoyalty(L, primary))),
      MediatorPayee(primary, is_dispute), FeeMediator(terms.amount))

WinnerTakes(winner, is_dispute) ==
  Pay(FeeSplit(ledger, winner, is_dispute), winner, Rest)

MutantHalve(L, rest) ==
  Pay(Pay(L, terms.creator, rest - rest \div 2), agent, rest \div 2)

\* Both halves of a split are rounded down.
Halve(L, rest) ==
  Pay(Pay(L, terms.creator, rest \div 2), agent, rest \div 2)

VoterCount(votes) ==
  LET One(i) == IF votes[i] # 0 THEN 1 ELSE 0 IN One(1) + One(2) + One(3)

PayVoters(L, votes, share) ==
  LET One(M, i) == IF votes[i] # 0 THEN Pay(M, evaluator[i], share) ELSE M
  IN  One(One(One(L, 1), 2), 3)

\* _execute_arbitration_payout: 1 the agent wins, 2 the creator, 3 a split.
ArbitrationPays(option, votes) ==
  LET share  == ArbitratorShare(terms.amount, VoterCount(votes))
      rest   == Rest - share * VoterCount(votes)
      winner == IF option = 1 THEN agent ELSE terms.creator
      paid   == PayVoters(FeeSplit(ledger, winner, TRUE), votes, share)
  IN  IF option = 3 THEN Halve(paid, rest) ELSE Pay(paid, winner, rest)

\* The asset's receivers must hold it; the account that pays in ALGO must
\* keep its minimum balance.
Transferable(L) ==
  /\ L[App] >= (IF terms.asset = 0 THEN MinBalance ELSE 0)
  /\ terms.asset > 0 =>
       \A a \in Accounts : L[a] > ledger[a] => a \in opted_in

MutantClose(type, logged) ==
  /\ UNCHANGED payout_type
  /\ settlement_log' = logged
  /\ state' = "CLOSED"

Close(type, logged) ==
  /\ payout_type' = type
  /\ settlement_log' = logged
  /\ state' = "CLOSED"

\* What every settling method does beside its own guard: check the balance
\* (_verify_escrow_balance), pay, close, log.
Settle(type, logged, L) ==
  /\ ledger[App] >= terms.amount
  /\ Computable(terms.amount, PlatformFee, MaxUInt64)
  /\ Transferable(L)
  /\ ledger' = L
  /\ Close(type, logged)
  /\ UNCHANGED <<terms, agent, phaseVars, worldVars, countVars, github_status,
                 poolVars>>

-----------------------------------------------------------------------------
(* Creation and claim.                                                     *)

MutantBountyTerms(d) ==
  [d EXCEPT !.hitm = IF d.authorized_app = 0 THEN 1 ELSE d.hitm,
            !.creator = Zero]

\* The boxes create_bounty writes: review is forced without an authorised app.
BountyTerms(d) ==
  [d EXCEPT !.hitm = IF d.authorized_app = 0 THEN 1 ELSE d.hitm]

\* create_bounty.  It does not look at the application's balance; of an asset
\* the application holds nothing yet, since it opts in within this call.
CreateBounty(d) ==
  /\ state = "NONE"
  /\ PlatformFee <= MaxPlatformFee
  /\ d.amount > 0
  /\ d.asset > 0 => ledger[App] = 0
  /\ state' = "OPEN"
  /\ terms' = BountyTerms(d)
  /\ UNCHANGED <<agent, phaseVars, panelVars, moneyVars, worldVars, countVars,
                 github_status, poolVars>>

ClaimBounty(s) ==
  /\ state = "OPEN"
  /\ s # terms.creator
  /\ agent = Zero
  /\ terms.asset > 0 => s \in opted_in
  /\ agent' = s
  /\ state' = "CLAIMED"
  /\ claim_deadline' = now + ClaimTimeout
  /\ UNCHANGED <<terms, review_deadline, last_rejection_timestamp,
                 dispute_timestamp, panelVars, moneyVars, worldVars, countVars,
                 github_status, poolVars>>

MutantReopenKeepsAgent ==
  /\ state' = "OPEN"
  /\ UNCHANGED agent

MutantReopenStaysExpired ==
  /\ UNCHANGED state
  /\ agent' = Zero

Reopen ==
  /\ state' = "OPEN"
  /\ agent' = Zero

MutantExpirable == state \in {"CLAIMED", "REJECTED"}

Expirable == state = "CLAIMED"

\* expire_claim: CLAIM_EXPIRED is left again within the call.
ExpireClaim ==
  /\ Expirable
  /\ now > claim_deadline
  /\ Reopen
  /\ rejection_count' = 0
  /\ rejections' = 0
  /\ UNCHANGED <<terms, phaseVars, panelVars, moneyVars, worldVars,
                 github_status, poolVars>>

-----------------------------------------------------------------------------
(* Work, review and revision.                                              *)

MutantReviewDeadline ==
  IF review_deadline = 0 THEN now + terms.review_days * Day ELSE review_deadline

ReviewDeadline == now + terms.review_days * Day

\* Both submissions restart the review window of a bounty under human review.
StartReview ==
  /\ state' = "SUBMITTED"
  /\ IF terms.hitm = 1
       THEN /\ ReviewDeadline <= MaxUInt64
            /\ review_deadline' = ReviewDeadline
       ELSE UNCHANGED review_deadline
  /\ UNCHANGED <<terms, agent, claim_deadline, last_rejection_timestamp,
                 dispute_timestamp, panelVars, moneyVars, worldVars,
                 github_status, poolVars>>

\* submit_work in CLAIMED.
SubmitFirst(s) ==
  /\ state = "CLAIMED"
  /\ s = agent
  /\ StartReview
  /\ UNCHANGED countVars

MutantCountRevision == UNCHANGED rejection_count

CountRevision == rejection_count' = rejection_count + 1

\* submit_work in REJECTED.  The revision counts as a rejection too.
SubmitRevision(s) ==
  /\ state = "REJECTED"
  /\ s = agent
  /\ rejection_count < MAX_REJECTIONS
  /\ CountRevision
  /\ StartReview
  /\ UNCHANGED rejections

ApproveWork(s) ==
  /\ state = "SUBMITTED"
  /\ s \in {terms.creator, terms.gateway}
  /\ s = terms.gateway => terms.hitm = 0
  /\ Settle("PAYOUT", "work_approved", WinnerTakes(agent, FALSE))
  /\ UNCHANGED panelVars

RejectWork(s) ==
  /\ state = "SUBMITTED"
  /\ s = terms.creator
  /\ rejection_count < MAX_REJECTIONS
  /\ rejection_count' = rejection_count + 1
  /\ rejections' = rejections + 1
  /\ last_rejection_timestamp' = now
  /\ state' = "REJECTED"
  /\ UNCHANGED <<terms, agent, claim_deadline, review_deadline,
                 dispute_timestamp, panelVars, moneyVars, worldVars,
                 github_status, poolVars>>

MutantReviewOver == terms.hitm = 0 /\ now >= review_deadline

ReviewOver == terms.hitm = 1 /\ now >= review_deadline

\* auto_release: anyone, once the review window of a submission is over.
AutoRelease ==
  /\ state = "SUBMITTED"
  /\ ReviewOver
  /\ Settle("PAYOUT", "auto_released_hitm", WinnerTakes(agent, FALSE))
  /\ UNCHANGED panelVars

ClaimAbandoned(s) ==
  /\ state = "REJECTED"
  /\ rejection_count >= MAX_REJECTIONS
  /\ s = terms.creator
  /\ now > last_rejection_timestamp + AbandonmentTimeout
  /\ Settle("REFUND", "abandoned_refunded_creator",
            WinnerTakes(terms.creator, FALSE))
  /\ UNCHANGED panelVars

\* github_verify and set_github_status: the gateway's record of the pull
\* request, which no method of the contract reads.
GithubVerify(s) ==
  /\ state = "SUBMITTED"
  /\ s = terms.gateway
  /\ github_status' = "pending"
  /\ UNCHANGED <<state, terms, agent, phaseVars, panelVars, moneyVars,
                 worldVars, countVars, poolVars>>

SetGithubStatus(s, status) ==
  /\ state = "SUBMITTED"
  /\ s = terms.gateway
  /\ github_status' = status
  /\ UNCHANGED <<state, terms, agent, phaseVars, panelVars, moneyVars,
                 worldVars, countVars, poolVars>>

-----------------------------------------------------------------------------
(* Disputes.                                                               *)

\* Opening a dispute, with _select_evaluators.  The start of the ring walk is
\* btoi(sha256(..)) % count: the conversion of the 32-byte digest is only
\* reached when somebody is registered, and the AVM then rejects the call.
OpenDispute ==
  /\ candidate_count > 0 => SeedBytes <= BtoiMaxBytes
  /\ \E start \in 0 .. (IF candidate_count = 0 THEN 0 ELSE candidate_count - 1) :
       evaluator' = SelectEvaluators(start, terms.treasury, terms.creator, agent)
  /\ vote' = [i \in Seats |-> 0]
  /\ state' = "DISPUTED"
  /\ dispute_timestamp' = now
  /\ UNCHANGED <<terms, agent, claim_deadline, review_deadline,
                 last_rejection_timestamp, moneyVars, worldVars, countVars,
                 github_status, poolVars>>

SubmitDispute(s) ==
  /\ state \in {"SUBMITTED", "REJECTED"}
  /\ s \in {terms.creator, agent}
  /\ OpenDispute

EscalateToDispute(s) ==
  /\ state = "REJECTED"
  /\ rejection_count >= MAX_REJECTIONS
  /\ s = agent
  /\ OpenDispute

MutantConsensus(votes) ==
  IF votes[1] # 0 /\ votes[1] = votes[3] THEN votes[1]
  ELSE IF votes[2] # 0 /\ votes[2] = votes[3] THEN votes[2]
  ELSE IF \A i \in Seats : votes[i] # 0 THEN 3 ELSE 0

\* Two equal votes decide; three different ones are a split.
Consensus(votes) ==
  IF votes[1] # 0 /\ votes[1] \in {votes[2], votes[3]} THEN votes[1]
  ELSE IF votes[2] # 0 /\ votes[2] = votes[3] THEN votes[2]
  ELSE IF \A i \in Seats : votes[i] # 0 THEN 3 ELSE 0

MutantOutcome(option) ==
  CASE option = 1 -> [type |-> "PAYOUT", log |-> "dispute_resolved_creator_win"]
    [] option = 2 -> [type |-> "REFUND", log |-> "dispute_resolved_agent_win"]
    [] option = 3 -> [type |-> "SPLIT",  log |-> "dispute_resolved_split"]

Outcome(option) ==
  CASE option = 1 -> [type |-> "PAYOUT", log |-> "dispute_resolved_agent_win"]
    [] option = 2 -> [type |-> "REFUND", log |-> "dispute_resolved_creator_win"]
    [] option = 3 -> [type |-> "SPLIT",  log |-> "dispute_resolved_split"]

MutantPendingSeats(s) == {i \in Seats : evaluator[i] = s}

PendingSeats(s) == {i \in Seats : evaluator[i] = s /\ vote[i] = 0}

\* vote_dispute: the vote takes the caller's first seat that has none, and the
\* vote that makes a consensus settles the bounty within the same call.
VoteDispute(s, option) ==
  /\ state = "DISPUTED"
  /\ \E i \in PendingSeats(s) :
       /\ \A j \in PendingSeats(s) : i <= j
       /\ vote' = [vote EXCEPT ![i] = option]
  /\ UNCHANGED evaluator
  /\ LET decided == Consensus(vote')
     IN  IF decided = 0
           THEN UNCHANGED <<state, terms, agent, phaseVars, moneyVars,
                            worldVars, countVars, github_status, poolVars>>
           ELSE Settle(Outcome(decided).type, Outcome(decided).log,
                       ArbitrationPays(decided, vote'))

\* resolve_dispute: anyone, with the mediator's signature on the resolution.
ResolveDispute(resolution) ==
  /\ state = "DISPUTED"
  /\ \/ /\ resolution = "agent_win"
        /\ Settle("PAYOUT", "dispute_resolved_agent_win",
                  WinnerTakes(agent, TRUE))
     \/ /\ resolution = "creator_win"
        /\ Settle("REFUND", "dispute_resolved_creator_win",
                  WinnerTakes(terms.creator, TRUE))
  /\ UNCHANGED panelVars

MutantAutoResolvable == state \in {"SUBMITTED", "DISPUTED"}

AutoResolvable == state = "DISPUTED"

AutoResolveCreatorWin ==
  /\ AutoResolvable
  /\ now > dispute_timestamp + AutoResolveTimeout
  /\ Settle("REFUND", "dispute_auto_resolved_creator_win",
            WinnerTakes(terms.creator, TRUE))
  /\ UNCHANGED panelVars

TimeoutDispute ==
  /\ state = "DISPUTED"
  /\ now > dispute_timestamp + DisputeTimeout
  /\ Settle("SPLIT", "dispute_timeout_split",
            Halve(FeeSplit(ledger, terms.creator, TRUE), Rest))
  /\ UNCHANGED panelVars

-----------------------------------------------------------------------------
(* The pool of this application, and its end.                              *)

Registration(a) ==
  /\ state # "DELETED"
  /\ RegisterEvaluator(a) \/ DeregisterEvaluator(a)
  /\ UNCHANGED <<state, terms, agent, phaseVars, panelVars, moneyVars,
                 worldVars, countVars, github_status>>

\* delete_bounty: closes the ALGO account out to the creator.  The ledger
\* refuses to close an account that still holds an asset, and nothing opts
\* the application out of the reward's asset again.
DeleteBounty(s) ==
  /\ state = "CLOSED"
  /\ s = terms.creator
  /\ terms.asset = 0
  /\ ledger' = Pay(ledger, terms.creator, ledger[App])
  /\ state' = "DELETED"
  /\ UNCHANGED <<terms, agent, phaseVars, panelVars, payout_type,
                 settlement_log, worldVars, countVars, github_status, poolVars>>

-----------------------------------------------------------------------------
(* The chain around the application.                                       *)

\* A payment or asset transfer to the application's address, by anybody and
\* at any time; clients send one of the escrow amount before create_bounty.
Deposit(amount) ==
  /\ state # "DELETED"
  /\ ledger[App] + amount <= MaxFunding
  /\ ledger' = [ledger EXCEPT ![App] = @ + amount]
  /\ UNCHANGED <<state, terms, agent, phaseVars, panelVars, payout_type,
                 settlement_log, worldVars, countVars, github_status, poolVars>>

\* An account opts in to the reward's asset or out of it.
ToggleOptIn(a) ==
  /\ terms.asset > 0
  /\ opted_in' = IF a \in opted_in THEN opted_in \ {a} ELSE opted_in \cup {a}
  /\ UNCHANGED <<state, terms, agent, phaseVars, panelVars, moneyVars, now,
                 countVars, github_status, poolVars>>

Tick ==
  /\ now < MaxTime
  /\ now' = now + 1
  /\ UNCHANGED <<state, terms, agent, phaseVars, panelVars, moneyVars,
                 opted_in, countVars, github_status, poolVars>>

-----------------------------------------------------------------------------

\* The calls that open a phase with a deadline; Horizon leaves the clock room
\* to reach every deadline they set.
Opening ==
  /\ now <= Horizon
  /\ \/ \E d \in Deployments : CreateBounty(d)
     \/ \E s \in Accounts :
          \/ ClaimBounty(s)
          \/ SubmitFirst(s)
          \/ SubmitRevision(s)
          \/ RejectWork(s)
          \/ SubmitDispute(s)
          \/ EscalateToDispute(s)

Deciding ==
  \/ \E s \in Accounts : ApproveWork(s) \/ ClaimAbandoned(s) \/ DeleteBounty(s)
  \/ \E s \in Accounts, option \in 1 .. 3 : VoteDispute(s, option)
  \/ \E resolution \in {"agent_win", "creator_win"} : ResolveDispute(resolution)

\* Calls any account may make once their time has come.
Expiring ==
  \/ ExpireClaim
  \/ AutoRelease
  \/ AutoResolveCreatorWin
  \/ TimeoutDispute

Recording ==
  \/ \E s \in Accounts : GithubVerify(s)
  \/ \E s \in Accounts, status \in {"pass", "fail", "pending"} :
       SetGithubStatus(s, status)
  \/ \E a \in Registrants : Registration(a)

World ==
  \/ Tick
  \/ \E amount \in Deposits : Deposit(amount)
  \/ \E a \in Accounts : ToggleOptIn(a)

Next == Opening \/ Deciding \/ Expiring \/ Recording \/ World

Spec == Init /\ [][Next]_vars

\* The clock does not stop, and somebody makes each call that anyone may make
\* when it stays possible.  The parties, the mediator and the gateway are
\* never obliged to act.
FairSpec ==
  /\ Spec
  /\ WF_vars(Tick)
  /\ WF_vars(ExpireClaim)
  /\ WF_vars(AutoRelease)
  /\ WF_vars(AutoResolveCreatorWin)
  /\ WF_vars(TimeoutDispute)
=============================================================================
