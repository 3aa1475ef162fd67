# AlgoBounty: TLA+ models, checks and proofs

AlgoBounty pays software bounties out of an escrow on Algorand. One smart
contract (`escrow.py`) holds the reward of one bounty; a Python gateway
(`gateway/`) keeps a database copy of every bounty, relays signed
transactions, listens to GitHub and follows the chain with a polling worker; a
browser dashboard talks to both.

This directory models the contract (all of its methods, the fee arithmetic, the
evaluator pool) and the gateway: the worker, the requests of the API, GitHub's
events, the reputation of agents with its collateral, vouches, panels and
taxes, and what a server process keeps in memory. One property joins the two:
the gateway's view of the contract is checked, and proved, against the
contract itself.

## 1. Inventory

### Components

| Component | State | Operations | What makes it correct |
|---|---|---|---|
| Escrow contract, `escrow.py` | about 30 boxes: state, terms, agent, deadlines, rejection count, evaluators and votes, payout type; the balance | 18 ABI methods | one worker at a time, one settlement, of at most the price, to the right party; every phase with a deadline ends |
| Fee split, `escrow.py:150` | none | `_send_fee_split`, `_execute_arbitration_payout` | parts are non-negative, add up, round the right way; the API's preview agrees |
| Evaluator pool, `escrow.py:434, 897, 922` | count, array boxes, reverse-index boxes | register, deregister, select three | the array and the index agree; the panel is neutral and distinct |
| Indexer worker, `gateway/worker.py`, `gateway/indexer.py` | `last_round` (in memory), the bounty rows, karma | search, sync the state, replay logs, seat and fine evaluators | a closed row has a cause and the outcome of it; karma goes to the right agents |
| Bounty API, `gateway/routers/bounties.py` | rows of bounties, agents, sync records | create, claim, submit, approve, reject, dispute, sync-github, claim-payout | what closed a row can be named; a payout gives karma once |
| GitHub, `gateway/github.py`, `routers/webhooks.py` | delivery records, the row, the token cache, the issue's labels | issue and pull-request events, label updates | a delivery is dispatched once; closed means paid; labels follow |
| Administration, `routers/admin.py` | bounty rows, penalties | resolve dispute, resolve quarantine | next to settlements and approvals, a resolution is the only cause of a closed row |
| Evaluator API, `routers/evaluators.py` | evaluator and assignment rows | register, deregister, vote | a row has a cause: a selection, a vote, a missed deadline |
| Cold start, `routers/coldstart.py` | deposits, vouches, counters | deposit, vouch, resolve, release | flags and counters agree with the rows they are derived from |
| Agents, terms, `routers/agents.py`, `terms.py`, `auth.py` | login, tax columns, acceptances, blacklist | link, accept, record a payout, change jurisdiction | what is withheld is explained by what was paid |
| Limits and streams, `rate_limiter.py`, `broker.py`, `routers/events.py` | request log, connection counters, queues | admit, subscribe, publish, clean up | limits hold in every window; open streams are the listed ones; an event arrives once |
| Chain client, `algod_client.py` | none | build, sign, send, release and wait | modelled as its callers see it |
| Middlewares, tokens, notifications, schema, dashboard, deployment | single checks or rows | | section 7 |

### Interaction

A party signs a contract call in the dashboard; the gateway broadcasts it
(`send_signed_transaction`) and writes its row, in most handlers without
waiting for the confirmation. The worker of each server process polls the
chain, copies the `state` box into the row and replays the contract's logs to
the rest of the row and to karma. GitHub events change the same rows and, for
bounties without human review, release the escrow as the gateway. Inside the
contract a call is atomic: what interleaves is the order of the calls of the
creator, the worker, the gateway, the evaluators, the mediator and bystanders,
with the clock, deposits and opt-ins between them. Inside the gateway nothing
is: handlers run in two processes and a thread pool, read rows into a session
and write them back, and a session that does not flush writes what it computed
from what it read.

### Hard behaviours

`PROJECT.json` lists them under `hazards`, each at its line. In the contract:
long sequences of swap-removals and ring walks; rounding; timed exits that
overlap and settle differently; one account in several roles or seats; calls
racing at the same submission; a settlement with several receivers of which
one refuses; parties that never act. In the gateway: sessions that write over
each other's commits; transactions that were accepted and never confirmed;
logs skipped between polls and replayed after a restart; two pollers over the
same rows; deliveries repeated or lost half-way; two events that release the
same escrow; a list or dictionary that changes under a walk; a token that
expires between calls. Between the two: a worker that knows the contract only
by words and log lines.

## 2. Modules

| Module | Models or states | Code |
|---|---|---|
| `EvaluatorPool` | the pool's array and reverse index; the three ring walks | `escrow.py:434-494, 896-953` |
| `EvaluatorRegistry` | the plain set it implements: who is registered and whom a dispute can seat change together | |
| `EscrowFees` | the fee arithmetic, and the previews the API shows of it | `escrow.py:161-199, 564-579`, `bounties.py` |
| `Escrow` | the whole contract; EXTENDS the two above | `escrow.py` |
| `BountyLifecycle` | what the contract promises the two parties, abstractly | |
| `EscrowProperties` | the contract's properties, its refinement mapping, and its relation to the gateway's view of it | |
| `EscrowApp` | the contract as the gateway meets it: state box, log lines, pending transactions | `escrow.py`, `algod_client.py`, `indexer.py` |
| `BountyApi` | the requests of one bounty, as sessions; EXTENDS `EscrowApp` | `routers/bounties.py`, `routers/admin.py` |
| `IndexerWorker` | the pollers; EXTENDS `BountyApi` | `worker.py`, `indexer.py` |
| `GatewayProperties` | what the row and the karma promise | |
| `WebhookDelivery` | a delivery of GitHub, its record, its attempts | `routers/webhooks.py` |
| `GitHubEvents` | the events, creation, sync-github, claim-payout over one row; EXTENDS `WebhookDelivery` | `github.py`, `bounties.py`, `algod_client.py` |
| `ColdStart` | sessions over karma, collateral and vouches | `routers/coldstart.py`, `admin.py`, `auth.py` |
| `DisputePanel` | the evaluators' rows; EXTENDS `ColdStart` | `routers/evaluators.py`, `worker.py` |
| `AgentRecords` | logins, taxes, terms; EXTENDS `DisputePanel` | `routers/agents.py`, `routers/terms.py` |
| `RateLimiter` | the sliding windows and the counter of calls in flight | `rate_limiter.py` |
| `EventBroker` | streams and publications; EXTENDS `RateLimiter` | `broker.py`, `routers/events.py` |
| `GitHubLabels` | the token cache and the label updates; EXTENDS `EventBroker` | `github.py` |
| `MC*` | instances for TLC, bounded inputs | |
| `*Proofs`, `EscrowFeesLemmas` | theorems and proofs | |

### `Escrow`, variable by variable

- A box is a variable; a box that may be missing has the value its getter
  falls back on (`Zero`, 0, ""). `state` keeps the names of the constants;
  "NONE" is the application before `create_bounty`, "DELETED" after
  `delete_bounty`. `DISPUTED_TIMEOUT` is never assigned, and `CLAIM_EXPIRED`
  is overwritten within the call that assigns it, so neither is a state.
- `terms` is the record of the boxes only `create_bounty` writes, with the
  override of the review flag (`BountyTerms`).
- `ledger` is the application's balance of the escrowed asset and the amount
  every account has received from it. An inner payment is `Pay`.
- `now` is `Global.latest_timestamp`; `opted_in` the holders of the asset.
- `rejections` is a history variable, the number of calls of `reject_work`
  since the claim.

One action per ABI method; `submit_work` is two (`SubmitFirst`,
`SubmitRevision`), one per branch. `VoteDispute` contains the consensus and
the settlement it triggers. What all settling methods share is `Settle`: the
balance check, the payments, the closing, the log. A failed `assert`, an
overflow or a refused inner transaction rejects the whole call, so each is a
conjunct of the guard.

Left out: the proof, reason, URL, hash and token texts and their length
checks; boxes nothing reads (`claim_timestamp`, `dispute_reason`,
`dispute_initiator`, `bounty_id`); the unused bond fields of the mediator; the
read-only `get_bounty_info`; the empty `deploy`; transaction fees, which the
callers pay.

### The gateway's modules

**Sessions.** A handler is a record in a function from sessions to what the
session knows (`request`, `poll`, `session`, `handler`, `update`): where it is,
what it has loaded and what it is going to write. A step is what the code does
between two points at which another thread, process or coroutine may run: a
query, a call that is awaited, a commit. A commit writes the columns whose
value the session changed and leaves the others (`Flush`); a unique key is the
only thing that refuses one. A handler that is refused with an error changes
nothing and has no action. A crash of a process, or an exception, drops a
session at any of these points (`Abort`, `PollFails`, `Restart`, `Crash`).

**`EscrowApp`, `BountyApi`, `IndexerWorker`** follow one bounty from its
activation. `app` holds the boxes the gateway reads, `pool` the transactions
the node has accepted, `logs` what the indexer returns, by round. `Send` is
refused when the transaction would fail on top of the pending ones, as the node
does; `Confirm` and `Expire` decide about it later, while the handler goes on to
`CommitRow` and `CommitKarma`. The gateway does not look at the transaction it
sends: `Hand` is any call of the application by anybody, or none. What the
gateway itself vouches for, the claims, approvals and decisions it accepted, is
the history `accepted`. `CallDirectly` is any party that uses the contract
without the gateway. A poll is `SyncState` (the search and the copy of
the state box), `LoadActive` (the active rows and the agents' karma are
loaded), `FetchLogs` (the lines since `last_round`), `ApplyLine` for one line
after the other, in the session, and `CommitPoll`. The constant
`TemplateFilter` says whether the search is restricted to one application, as
the deployment's setting makes it. Amounts, votes, deadlines and the rights of
callers are `Escrow`'s business: here a deadline may pass at any time and a
method asks only for the states it accepts.

**Composition.** That this small contract is the large one is not left to
the reader. `GatewayUnderstands` takes `Escrow` through an `INSTANCE` of
`IndexerWorker` whose `app` is the boxes of the contract: every step that
changes them is one call of `EscrowApp!Methods`, from and to the states listed
there, with the agent as `After` has it; and if the method's line is one from
which the worker concludes an outcome, the contract logged that line and
recorded that payout type; if it is not, the contract logged none of them.

**`WebhookDelivery`, `GitHubEvents`.** A delivery has a record, an attempt
inserts it or finds it. A dispatched event and a call of the API are sessions
of the same kind. Every handler that may pay loads the row, checks it, releases
the escrow (`algod_client.release_trustless`, which answers after the
confirmation, after four rounds without one, or with a refusal), closes the
row, comments on GitHub, awards the karma: other sessions, and the poller, act
between the steps. The column `worker` holds a login or a wallet, whichever
handler wrote it.

**`ColdStart`, `DisputePanel`, `AgentRecords`** are one system over the rows of
agents and what refers to them. A successful release ends its deposit, then
looks for another locked one in a second query (`LookForLocked`); since sessions
do not flush, the query finds the deposit it is about to end, unless another
session has ended that one. A payout may be any whole number of dollars, of
either sign. History variables say what a property needs and
no column holds: the penalties and fines, whom a session has written over
(`raced`, `misread`), whose deposit was ended twice (`twice`), the payouts that
were added and taken (`credited`, `debited`), the votes that were cast, the
deadlines that have passed.

**`RateLimiter`, `EventBroker`, `GitHubLabels`** are the memory of one process.
A publication from the thread pool (`BeginWalk`, `PutNext`, `NextAddress`)
visits addresses and queues one at a time; one from the event loop is a single
step (`PublishOnLoop`). The update of an issue is a list
of calls, each of which takes less than the client's time-out (`Punctual`).

Left out of each module, with the reason, is what its header lists.

### What is assumed of the chain (the map's `external` entries)

- A call is atomic; `btoi` rejects more than eight bytes; arithmetic that
  leaves 64 bits rejects the call.
- A payment of amount zero is allowed, also to an account that does not hold
  the asset. An asset transfer of more needs a receiver that holds it.
- The ALGO account may not go below `MinBalance`; an account that holds an
  asset cannot be closed, so an asset bounty cannot be deleted.
- Anybody may deposit at any time until the deletion; the mediator's signature
  is available or not, nondeterministically (`ResolveDispute` has no other
  guard); the hash that picks the start of the ring is any position.
- The receivers' own minimum balance, and the minimum balance the boxes bind
  when the application is deleted, are ignored.

## 3. Runs

| Run | Configuration | Shows | States |
|---|---|---|---|
| `pool` | five accounts | `PoolConsistent`, `SelectionIndependent`, `SelectionFillsPanel`, implements `EvaluatorRegistry` | 326 |
| `fees` | amounts 0 to 2100, seven rates, with and without a gateway | three properties of the split, and `PreviewIsPaid`: what the API shows before a payout is signed is what is paid | 88,200 |
| `reviewed` | human review, ALGO, deposits that are too small or enough, one account that joins the pool | the invariants of the contract, `RefundLock`, `VotesFinal`, implements `BountyLifecycle`, `GatewayUnderstands` | 814,386 |
| `automatic` | the gateway may approve; a flag that is overridden; an asset with opt-ins | `MediatorFeeFollowsDispute`, `ReceivedInFull` | 2,289,656 |
| `live` | as `reviewed`, funded at once, fairness | `ClaimEnds`, `ReviewEnds`, `DisputeEnds` | 89,058 |
| `gateway` | two workers, two requests with any transaction, two pollers, two sessions at a time, four rounds | `SettlementHasCause`, `StrangersKeepKarma` | 1,946,450 |
| `github` | two deliveries, two attempts, two calls of the API, two people, one merge | `DeliveryOnce`, `ClosedIsPaid`, `AwardedOnce` | 667,715 |
| `limits` | two addresses, three streams, two events, two handlers of labels | `WindowRespected`, `OpenStreamsListed`, `ReceivedOnce`, `CalmWalkReachesAll`, `CalmLabelsFollow`, `TokenOutlivesUpdate` | 482,885 |
| `reputation` | two agents, two sessions, two pollers, two deposits, payouts of 400 and -300 | `LockedIsFlagged`, `KarmaExplained`, `RowsJustified`, `WithholdingExplained` | 1,391,408 |
| `doc_dispute`, `doc_revisions`, `doc_sync` | small instances | three disagreements of documents and code, below | |

### Bounds of the contract's runs

- **Roles.** Creator, worker, treasury, mediator and gateway are accounts;
  every account may claim, so the treasury, the mediator or the gateway is
  also the worker in some behaviours. The treasury holds all three seats
  whenever the pool is empty, which is when a dispute can be opened at all
  (finding `doc_dispute`). Panels of several members are covered by the run
  `pool` and the theorem `SelectionAlwaysIndependent`.
- **Amount.** The reward is 10007: every division of a settlement has a
  remainder, and the odd unit of the halved rest shows. All other amounts are
  the business of the run `fees` and of the theorems about `EscrowFees`.
- **Time.** Timeouts are 1, except the 30-day timeout, which is 2: their
  order is kept and the clock stops at `MaxTime`. Calls that open a phase are
  possible until `Horizon`, so that every deadline they set lies within the
  clock's range: without `Horizon` a behaviour would end because the clock
  does, and liveness would fail for that reason alone.
- **Deposits.** 10010 covers the reward and the minimum balance of 3; 10007
  covers the reward only. `MaxFunding` caps the balance deposits build up.
- `MaxUInt64` is scaled to 10^8; no product of these runs reaches it.
- `CHECK_DEADLOCK FALSE`: a deleted bounty whose clock has stopped is done.

### Bounds of the gateway's runs

- **`gateway`.** Two of everything that races: workers that claim, requests,
  pollers. Four rounds hold three calls: a claim, a submission and a release,
  or a claim, its expiry and a second claim, whose log lines a restarted poller
  meets again. The node holds one pending transaction; a
  second would only be sent on top of the first, and the row cannot see which
  of the two is missing. `ClaimToRelease` has the methods that fit in four
  rounds; a request may bring any of them, whatever it asks for, or a
  transaction of another kind. `TwoSessions` lets two sessions, of requests or
  pollers, be open at once: the properties relate what one session has read to
  what another has committed, and the theorems hold for any number.
- **`github`.** Two deliveries with two attempts are a redelivery or two events
  that race; two calls of the API beside them reach the three sessions that
  have all passed the check of the row before any of them pays.
- **`reputation`.** Requests that share no row are explored in the groups of
  `SmallMixes`; `SmallDispute` has two sessions at a time, two rows of a panel,
  one vote through the API and one on the chain, one missed deadline. Two deposits
  are one that two sessions end and a later one that stays locked. 400 and -300
  cross the threshold of 600 in two steps, and a lost -300 leaves it crossed;
  `MaxTurnover` stops after 1200 dollars moved. A third session over one row
  repeats what the second may do to the first.
- **`limits`.** The three topics share the clock only, so `Apart` follows one
  at a time. Three streams at two addresses, two at most at one, give a list
  from which a stream leaves under a walk, and another address that appears or
  goes meanwhile. Five ticks hold two whole windows of two.
- The groups of interchangeable values are declared as symmetries where only
  invariants are checked. A constraint cuts behaviours and never a property
  of one state; the runs with liveness have neither.
- `CHECK_DEADLOCK FALSE`: a behaviour ends when its rounds, sessions or ticks
  are used up.

### Fairness

`Escrow!FairSpec` lets the clock go on and has somebody make each call the
contract lets anyone make (`expire_claim`, `auto_release`,
`auto_resolve_creator_win`, `timeout_dispute`) when it stays possible: the
worker, the counterparty or any bystander has a reason to. Nothing is assumed
of the creator, the worker, the mediator, the gateway or the evaluators.

`IndexerWorker!FairSpec` serves a refutation only, `doc_sync`. It is as
favourable to the document as it can be: pending transactions leave the node,
a request that was received ends, a poll that has begun goes on, and the search
succeeds again and again (strong fairness of `SyncState`). The code does not
give the last of these: the search asks for one hundred applications and no
further page (`indexer.py:36`), so even without the template filter the
application of a bounty need not be among them, which `BoxUnread` has. No
property that passes assumes it, and no liveness of the row is claimed.

### Disagreements of documents and code

| Run | Document | Code |
|---|---|---|
| `doc_dispute` | three evaluators, with the treasury as a fallback (`escrow.py:435`) | with anybody registered, `btoi` of a 32-byte digest rejects every dispute |
| `doc_revisions` | a creator can request three revisions, the third rejection escalates (`README.md:48`); workers resubmit while `rejection_count < 3` (`docs/edge_cases_and_abuse_mitigation.md:27`) | a revision advances `rejection_count` as well (`escrow.py:346`): after the second rejection the worker cannot resubmit, and there is no third |
| `doc_sync` | the worker synchronizes the database with the chain (`README.md:125`) | with `ESCROW_TEMPLATE_APP_ID` set, as the deployment sets it, the search never returns the application of a bounty |

The models also show, without a run of their own, where other sentences of the
documents are not what the code does:

- The last rejection escalates by itself (`README.md:48`,
  `docs/rules_of_the_game.md:17`): `reject_work` only counts
  (`escrow.py:410`), the worker has to call `escalate_to_dispute`, and a silent
  one loses to `claim_abandoned`.
- A timed-out dispute ends in a 50/50 split (`README.md:50`): with human review
  the creator gets the mediator's fee on top of its half (`escrow.py:195`).
  `PaidByRole` states the sums as they are.
- `create_bounty` verifies the funding
  (`docs/adr/0001-teal-escrow-contract.md:190`): `_verify_escrow_funding` is
  never called (`escrow.py:206`).
- A refund's payments add up to the escrow
  (`specs/archive/006-fee-split-payouts/quickstart.md:88`): the skipped royalty
  stays in the contract (`escrow.py:184`); ALGO leaves with `delete_bounty`, an
  asset does not. `ReceivedInFull` counts it.
- 30 days of inactivity end in a split (`docs/rules_of_the_game.md:56`): after
  14 days anybody can refund the creator, also after 30 (`escrow.py:695`).
- Funds can never be trapped (`docs/rules_of_the_game.md:31`), a dispute never
  freezes them (`README.md:50`): nothing takes an OPEN bounty back
  (`escrow.py:278`), and one receiver without the asset fails every settlement
  (`escrow.py:143`). The run `live` shows what does hold: a funded ALGO bounty
  that somebody works on ends.
- An approval through the gateway has released the funds
  (`bounties.py:773`): the gateway sends whatever transaction the request
  brings and closes the row (`bounties.py:739-751`). `SettlementHasCause` says
  what a closed row can be traced to instead.
- `vouched_by_count` is the number of active vouches
  (`supabase_migration.py:493`): it counts every vouch ever received, as
  nothing lowers it when a vouch is resolved (`coldstart.py:239`).
  `KarmaExplained` states the latter.
- An evaluator is fined when the bounty or its assignment is older than the
  deadline (`worker.py:20`): the code measures from the evaluator's
  registration (`worker.py:53`), so a long-registered evaluator is fined at the
  first poll after it was seated. `RowsJustified` takes the deadline the code
  measures.

## 4. Proofs

All for every value of the constants, under the named assumptions of the
modules: the zero address and the application are not accounts, accounts are
finitely many, deployments are well-typed, numbers are naturals, the 14-day
timeout is below the 30-day one, rates are at most 1000. Every invariant a
passing run checks is a theorem, and so are `RefundLock`, `VotesFinal`,
`GatewayUnderstands` and the two refinements.

| Proof module | Theorems about |
|---|---|
| `EvaluatorPoolProofs` | the pool, its refinement of `EvaluatorRegistry`, the selection of a panel |
| `EscrowFeesLemmas`, `EscrowFeesProofs` | the fee split, the API's preview of it |
| `EscrowProofs` | the contract, its refinement of `BountyLifecycle`, what the gateway understands of it |
| `GatewayProofs` | the API's requests and the indexer worker |
| `GitHubEventsProofs` | deliveries, and the handlers of GitHub's events |
| `AgentRecordsProofs` | deposits, taxes, karma and panel rows |
| `ServerProofs` | limiter, broker, installation token and labels |

**Pool** (`EvaluatorPoolProofs`). `PoolConsistent` is inductive as it stands:
the array and the index are inverse bijections. A removal in the middle moves
the last member; injectivity shows that no other entry is touched. From it,
`PoolImplementsRegistry`: the range of the array gains or loses exactly the
caller. `SelectionAlwaysIndependent` rests on `RingSearchSound`: a walk returns
a member outside the excluded set or the treasury. `SelectionAlwaysFillsPanel`
needs the other half, that a walk which falls back to the treasury has come
past every position of the ring (`RingReaches`), so that no eligible member was
left: with three neutral members there is still one for the third walk.

**Fees** (`EscrowFeesLemmas`, `EscrowFeesProofs`). Each fee is a rounded
division; the lemmas bound it between its exact value and one unit below, and
the properties of the split follow for every amount and rate.
`PreviewAlwaysPaid`: for every amount and rate, each part of the API's breakdown
is the part the contract pays. `HalvesAlwaysOfPlatformFee` is proved for every
amount and is not checked by a run.

**Contract** (`EscrowProofs`). The inductive invariant is

    IInv == TypeOK /\ AgentAssigned /\ VotesUndecided /\ Priced

Type correctness alone is not inductive. A settlement subtracts from the
application's balance, and for the result to be a natural number the sum of
its payments must not exceed the amount: that needs the fee lemmas, hence a
rate within the limit and a positive amount (`Priced`), a worker and
evaluators that are accounts (`AgentAssigned`, `VotesUndecided`), and at least
one vote to divide by. The payments are followed one by one with the relation
`Moves(L, M, n)`: M results from L by moving exactly n units out of the
application, no account loses, and what the accounts have received grows by n.
It composes (`MovesAdd`); each operator that pays is followed to the unit, and
the settling methods all end in `SettleSettles`.

`StepKinds` then classifies every step by what it does to the phase (settles,
disputes, votes, moves aside, ...), and the remaining theorems are proved from
that classification and `AlwaysIInv`: the rounds of rejections, the review
window, the recorded settlement, `RefundLock`, `VotesFinal`, and
`EscrowImplementsLifecycle`, the refinement of `BountyLifecycle`.
`EscrowRunsPool` carries the pool's theorems into the contract.

**The contract's payments** (`EscrowProofs`). `AlwaysReceivedInFull` adds up
over accounts. The sum is a fold over the set of accounts; `SumExists` and
`SumChanges` show with a smallest set of accounts as counterexample, in place
of an induction, that the sum exists and that one payment raises it by its
amount. The rest is `Moves`, with the exact amount of each kind of settlement
(`Settled`). Who receives what is followed account by account with
`Receives`: `PaidAsDue` says that a settlement has paid every account but the
evaluators exactly `SettlementDue`, a function of the roles, the outcome and
whether the bounty was disputed; `PanelSeated` (no panel before a dispute) lets
the evaluators' boxes tell the last of these. `AlwaysPaidByRole` and
`MediatorFeeAlwaysFollowsDispute` are read off it, for every coincidence of
roles the properties leave open.

Two theorems are the parts of the liveness properties that the prover does
reach; no run checks them on its own. `FundedAlwaysPayable`: a funded bounty
never lacks the money for its settlement, whatever method settles it and however
the votes fall, as long as the receivers hold its asset. `WaitsAlwaysBounded`:
the deadline after which anybody may end a claim, a human review or a dispute is
never further away than one timeout.

**The contract and the gateway** (`EscrowProofs`). `GatewayAlwaysUnderstands`
needs two facts besides `IInv`: nothing has been logged before the settlement
(`NothingLogged`), and votes that decide have a verdict (`ConsensusTyped`). The
tables of the gateway are written out once (`MethodTable`, `OutcomeTable`,
`SettlerTable`); then each method of the contract is matched with its entry.

**Gateway** (`GatewayProofs`). `GatewayInvariant` is

    ChainTypeOK /\ LogsSettle /\ DatabaseGood /\ RequestsGood /\ PollsGood

`SettlementHasCause` and `StrangersKeepKarma` speak of the database, which is
written by requests and polls that have read it long before. So every copy a
session keeps must be good in the same sense as the row and the table of
karma: the claim of the worker it names was accepted, a closed row has a
settlement or an accepted decision as its cause, a stranger's karma is the
initial one. What makes a copy good are the claims and outcomes the gateway
accepted, the log and the closed application, and these only grow; so a good copy stays good however long the
session waits, and a stale commit is as good as a fresh one. `LogsSettle` says
that a line of the log with an outcome comes from an application that has
closed; with it a poll may apply its lines one by one.

**Deliveries** (`GitHubEventsProofs`). `DeliveryOnce` is not inductive: a
dispatched delivery must still have a record, which is what stops the next
attempt (`DeliveryInv`). `EventsDeliverOnce` carries the theorem to
`GitHubEvents`, which runs the same protocol.

**GitHub's events** (`GitHubEventsProofs`). `AwardedAtMostOnce` counts who is
between a release and an award: with an application at most one session is
(`OnePayer`), only after the application has paid, and only while no karma has
been given. The application itself is what serializes them: of any number of
sessions that passed the check of the row, one has its release confirmed.
`ClosedAlwaysPaid` follows the same invariant, because every handler that closes
a row with an application has such a release behind it, and nobody reopens the
application. The row's type (`EventsTypeCorrect`) is part of it.

**Agents' records** (`AgentRecordsProofs`). `LockedAlwaysFlagged` and
`WithholdingAlwaysExplained` are about columns that are derived from others and
written by stale sessions. The invariant says what a session still knows at its
commit. A release never puts a deposit back to locked, and one that is about
to lower the flag has found its own deposit ended by another session, which puts
the agent into `twice` (`ReleaseSession`). The sum a tax session has read lies
between what was taken and what was added by then, as these histories only
grow, and is their difference as long as nobody is `misread`. `RowsAlwaysJustified`: each vote
a session or a poll holds has its cause already (`PanelInv`), and causes only
accumulate. `KarmaAlwaysExplained`: `KarmaInv` says by how much a session is
going to move each agent's karma and which row will account for it; the step
counts rows, with lemmas for one that is added and one that is replaced, and
the agents a session writes over (`raced`) are those the property exempts.

**One process** (`ServerProofs`). *Limiter*: the log that is pruned while it is
counted is always an end of what was let through (`LogIsEnd`), long enough to
hold all that the window still covers (`LimiterInv`). *Lists and counters*
(`ListsInv`, `CountInv`): where each call is between the limiter and the broker
decides in which of the two it is entered. *Walks* (`WalkInv`): a queue is
behind a walk or still before it (`Pending`). A stream still before it has not got
the event (`AlwaysReceivedOnce`); one behind it that was there at the start
has, unless a stream ended meanwhile, which shifts the list under the walk
(`Told`, `CalmWalksAlwaysReachAll`). *Token*: an update with n calls left has a
token that is good for the next n - 1 calls as well (`LabelsInv`); an update
has at most a comment, one call that adds and two that remove, and
`LabelsAssumption` says that the margin of the cache covers the calls after the
first. *Labels* (`CalmInv`): the labels of the issue and the calls an update has
left amount together to the labels of the row it has written.

**Only model-checked.** The liveness properties `ClaimEnds`, `ReviewEnds`
and `DisputeEnds`: temporal reasoning with fairness and ENABLED is
outside the prover's reach. The disagreements of documents and code are found
by TLC.

## 5. Mutants

Every property has a wrong variant of a definition that breaks it: the bug it
is there to find. They stand before the definition they vary, as operators whose
name starts with `Mutant`, and no action uses them.

## 6. Plan

Done: the contract, the worker, the API's requests, GitHub's events and labels,
reputation and panels, limits and streams; the theorems above. Left, in this
order:

1. Several bounties in one gateway: karma is the only thing they share, and
   `StrangersKeepKarma` is stated for one.
2. The rows of pull requests and the choice of the row in `sync-github`.
3. How far a row may be behind: with pages in the search, a property of the
   rounds between a change of the box and the poll that copies it.

## 7. Not modelled

- **Request middlewares.** Each checks one request: a signature over the body,
  headers. The payment middleware (x402) is mounted only when `TESTING` is set
  and asks a service outside the repository.
- **Tokens, OIDC, notifications.** Pure checks, and rows that are inserted once
  and marked as read.
- **Parts of modelled components.** Lists, searches and the validation of
  schemas; the rows of pull requests, commit statuses and the texts of
  comments; the status of a quarantine, which only refuses creations; the
  stored tax form, the steward, the challenge of a login; how transactions are
  built, the compilation and the deployment of the contract.
- **Dashboard, generated client, migrations, deployment scripts**: user
  interface, generated code, or steps that run once.
- **The sandbox** (`ALGORAND_NETWORK`), in which requests need no transaction
  and a release succeeds without a payment (`algod_client.py:512`). `BountyApi`
  includes the former, `GitHubEvents` leaves the latter out.
- Signatures, GitHub's own API and the indexer are outside the code; the models
  take their outcome as an input.
