---------------------------- MODULE DisputePanel ----------------------------
(***************************************************************************)
(* The evaluators of one dispute in the database: routers/evaluators.py    *)
(* and the parts of worker.py that seat them, read their votes from the    *)
(* contract's logs and fine those who miss the deadline.                   *)
(*                                                                         *)
(* Each process has a poller.  A poll reads the logs the contract wrote    *)
(* since a round it remembers (any round: it starts again at 0, and moves  *)
(* on without having applied what it skips), decides what to write, looks  *)
(* for missed votes and commits all of it.  Queries see what is committed, *)
(* not what the session has pending.                                       *)
(*                                                                         *)
(* Left out: the settlement's own karma (IndexerWorker); several seats of  *)
(* one account, which have a single row; a vote the table cannot map.      *)
(***************************************************************************)
EXTENDS ColdStart

CONSTANTS Pollers, Votes

ASSUME PanelAssumption == {"none", "abstained"} \cap Votes = {}

VARIABLES
  panel,                \* accounts the contract has selected
  chain,                \* the logs of the contract
  status,               \* table bounties: column status of the disputed one
  evaluators,           \* table evaluators, by address
  assignments,          \* table dispute_evaluators, by id
  poll,                 \* the session of each poller
  spoken,               \* history: votes recorded by the API
  late                  \* history: evaluators whose deadline has passed once

panelVars == <<panel, chain, status, evaluators, assignments, poll, spoken, late>>

PanelInit ==
  /\ ColdInit
  /\ panel = {} /\ chain = <<>>
  /\ status = "submitted"
  /\ evaluators = [a \in {} |-> 0] /\ assignments = <<>>
  /\ poll = [p \in Pollers |-> Idle]
  /\ spoken = {} /\ late = {}

-----------------------------------------------------------------------------
(* The contract, and what moves the row of the bounty.                     *)

Disputed == chain # <<>> /\ Last(chain).log # "settled"
Voters(logs) == {logs[i].by : i \in {j \in DOMAIN logs : logs[j].log = "voted"}}

Logs(entry) ==
  /\ chain' = Append(chain, entry)
  /\ UNCHANGED <<coldVars, status, evaluators, assignments, poll, spoken, late>>

ContractLogs ==
  \/ /\ chain = <<>> /\ Logs([log |-> "disputed"])
     /\ panel' \in SUBSET Agents \ {{}}
  \/ Disputed /\ Logs([log |-> "settled"]) /\ UNCHANGED panel
  \/ \E a \in panel \ Voters(chain), v \in Votes :
       /\ Disputed /\ Logs([log |-> "voted", by |-> a, vote |-> v])
       /\ UNCHANGED panel

\* The handlers of BountyApi and the worker's SyncState, whatever they read.
RowMoves(s) ==
  /\ status' = s
  /\ UNCHANGED <<coldVars, panel, chain, evaluators, assignments, poll, spoken, late>>

-----------------------------------------------------------------------------
(* routers/evaluators.py.                                                  *)

Active == [status |-> "active", overdue |-> FALSE]
Listed == DOMAIN evaluators

Enrol(table) ==
  /\ evaluators' = table
  /\ UNCHANGED <<coldVars, panel, chain, status, assignments, poll, spoken>>

\* Registering again starts the deadline again.
RegisterEvaluator(a) ==
  /\ a \in Known /\ karma[a] >= 50
  /\ a \in Listed => evaluators[a].status = "inactive"
  /\ Enrol(Over(Only(a, Active), evaluators)) /\ UNCHANGED late

DeregisterEvaluator(a) ==
  /\ a \in Listed /\ evaluators[a].status = "active"
  /\ Enrol([evaluators EXCEPT ![a].status = "inactive"]) /\ UNCHANGED late

\* The registration becomes older than the deadline.
Age(a) ==
  /\ a \in Listed
  /\ Enrol([evaluators EXCEPT ![a].overdue = TRUE]) /\ late' = late \cup {a}

MutantRowsOf(a) == DOMAIN assignments

\* The rows .first() may return.
RowsOf(a) == {i \in DOMAIN assignments : assignments[i].who = a}

\* The vote of the body is recorded whatever the transaction sent with it does.
VoteDispute(h, a, v) ==
  /\ status = "disputed"
  /\ \E i \in RowsOf(a) :
       /\ assignments[i].vote = "none"
       /\ Decide(h, "cast", i, [agent |-> a, vote |-> v], NoChange)
  /\ UNCHANGED panelVars

CommitVote(h) ==
  LET s == handler[h]
  IN  /\ s.at = "cast"
      /\ assignments' = [assignments EXCEPT ![s.id].vote = s.row.vote]
      /\ spoken' = spoken \cup {s.row}
      /\ handler' = [handler EXCEPT ![h] = Idle]
      /\ UNCHANGED <<tables, histories, panel, chain, status, evaluators, poll, late>>

-----------------------------------------------------------------------------
(* A poll.                                                                 *)

Has(logs, log) == \E i \in DOMAIN logs : logs[i].log = log

VoteOf(logs, a) ==
  logs[CHOOSE i \in DOMAIN logs : logs[i].log = "voted" /\ logs[i].by = a].vote

\* The votes of the logs that find an empty row; the rows this session is
\* about to add are not found.
VotesRead(logs, first) ==
  [i \in {j \in DOMAIN assignments : /\ assignments[j].vote = "none"
                                     /\ \E a \in Voters(logs) : first[a] = j} |->
     VoteOf(logs, CHOOSE a \in Voters(logs) : first[a] = i)]

\* The row a query for one agent's row returns, 0 for none.
FirstRows ==
  {f \in [Agents -> 0 .. Len(assignments)] :
     \A a \in Agents : IF RowsOf(a) = {} THEN f[a] = 0 ELSE f[a] \in RowsOf(a)}

NewEvaluators(logs) == IF Has(logs, "disputed") THEN panel \ Listed ELSE {}

NewRows(logs) ==
  IF Has(logs, "disputed") THEN {a \in panel : RowsOf(a) = {}} ELSE {}

\* A closed row is not among those whose logs are read.
PollLogs(p, from) ==
  /\ poll[p] = Idle
  /\ LET logs == IF status = "closed" THEN <<>> ELSE SubSeq(chain, from, Len(chain))
     IN  \E first \in FirstRows :
           poll' = [poll EXCEPT ![p] =
                [at |-> "check", enrol |-> NewEvaluators(logs),
                 seat |-> NewRows(logs), votes |-> VotesRead(logs, first),
                 status |-> CASE Has(logs, "settled") -> {"closed"}
                              [] Has(logs, "disputed") -> {"disputed"}
                              [] OTHER -> {}]]
  /\ UNCHANGED <<coldVars, panel, chain, status, evaluators, assignments, spoken, late>>

\* Empty rows of evaluators who have registered before the deadline.
Missed ==
  IF status # "disputed" THEN {}
  ELSE {i \in DOMAIN assignments : /\ assignments[i].vote = "none"
                                   /\ assignments[i].who \in Listed
                                   /\ evaluators[assignments[i].who].overdue}

\* check_inactive_evaluators: it finds the rows whose vote is only pending,
\* and fines one agent once for each of its rows.
CheckInactive(p) ==
  LET Rows(a) == Missed \cap RowsOf(a)
      fees == [a \in Agents |-> 5 * Cardinality(Rows(a))]
      due  == {a \in Known : Rows(a) # {}}
  IN  /\ poll[p].at = "check"
      /\ poll' = [poll EXCEPT ![p] =
           [at |-> "commit", enrol |-> @.enrol, seat |-> @.seat, status |-> @.status,
            votes |-> Over([i \in Missed |-> "abstained"], @.votes),
            changes |-> [a \in {b \in due : Floor(karma[b] - fees[b]) # karma[b]} |->
                           [seen |-> karma[a], karma |-> Floor(karma[a] - fees[a])]]]]
      /\ UNCHANGED <<coldVars, panel, chain, status, evaluators, assignments, spoken, late>>

\* One transaction; an evaluator another session has added meanwhile makes it
\* fail, a second row for the same seat does not.
CommitPoll(p) ==
  LET s == poll[p]
  IN  /\ s.at = "commit" /\ s.enrol \cap Listed = {}
      /\ status' \in IF s.status = {} THEN {status} ELSE s.status
      /\ evaluators' = Over([a \in s.enrol |-> Active], evaluators)
      /\ assignments' =
           [i \in DOMAIN assignments |->
              IF i \in DOMAIN s.votes THEN [assignments[i] EXCEPT !.vote = s.votes[i]]
              ELSE assignments[i]]
           \o SetToSeq({[who |-> a, vote |-> "none"] : a \in s.seat})
      /\ karma' = KarmaAfter(s.changes)
      /\ fined' = Fine(Agents, s.changes)
      /\ raced' = raced \cup Overwritten(s.changes)
      /\ poll' = [poll EXCEPT ![p] = Idle]
      /\ UNCHANGED <<mix, has_collateral, vouched_by_count, deposits, vouches, handler,
                     penalties, twice, panel, chain, spoken, late>>

PollFails(p) ==
  /\ poll[p] # Idle
  /\ poll' = [poll EXCEPT ![p] = Idle]
  /\ UNCHANGED <<coldVars, panel, chain, status, evaluators, assignments, spoken, late>>

-----------------------------------------------------------------------------
PanelNext ==
  \/ ColdNext /\ UNCHANGED panelVars
  \/ /\ "cast" \in mix
     /\ \/ ContractLogs
        \/ \E s \in {"disputed", "closed"} : RowMoves(s)
        \/ \E a \in Agents : \/ RegisterEvaluator(a) \/ DeregisterEvaluator(a)
                             \/ Age(a)
        \/ \E h \in Handlers : \/ \E a \in Agents, v \in Votes : VoteDispute(h, a, v)
                              \/ CommitVote(h)
        \/ \E p \in Pollers :
             \/ \E from \in 1 .. Len(chain) + 1 : PollLogs(p, from)
             \/ CheckInactive(p) \/ CommitPoll(p) \/ PollFails(p)

-----------------------------------------------------------------------------
(* Properties.                                                             *)

\* An agent with a locked deposit is shown to have collateral when deposits and
\* releases of the same agent cross, unless two sessions have ended the same
\* deposit: the second may lower the flag beside a deposit made since
\* (deposit_collateral, release_collateral).
LockedIsFlagged ==
  \A a \in Agents : Locked(a) # {} /\ ~has_collateral[a] => a \in twice

Count(rows, Test(_)) == Cardinality({i \in DOMAIN rows : Test(rows[i])})

\* The karma of an agent is its initial karma and what its deposits, its
\* vouches and its fines add and take: every handler and every poll moves karma
\* in the transaction that writes the row which explains the move, once, unless
\* a session has written over another's commit (coldstart.py,
\* check_inactive_evaluators, resolve_quarantine).  The amount of a fine is
\* what it took.  The count of vouches is of all that were ever made for the
\* agent, resolved and slashed ones too: gateway/supabase_migration.py:493 calls
\* it the "Number of active vouches received", which the code does not keep.
KarmaExplained ==
  \A a \in Known \ raced :
    LET Deposits(st) == Count(deposits, LAMBDA d : d.agent = a /\ d.status = st)
        By(st)  == Count(vouches, LAMBDA v : v.by = a /\ v.status = st)
        For(st) == Count(vouches, LAMBDA v : v.for = a /\ v.status = st)
    IN  /\ karma[a] = (IF a \in Veterans THEN OldKarma ELSE NewKarma)
                      + 10 * Count(deposits, LAMBDA d : d.agent = a /\ d.large)
                      + 15 * Deposits("released") - 5 * Deposits("slashed")
                      + 5 * Count(vouches, LAMBDA v : v.by = a /\ v.elite)
                      + 5 * By("resolved") + 3 * For("resolved")
                      - For("slashed") - fined[a]
        /\ vouched_by_count[a] = Count(vouches, LAMBDA v : v.for = a)

\* A row of the panel has a cause outside the database: only accounts the
\* contract selected have one, "abstained" is written only for an evaluator
\* whose deadline has passed at some time, and any other vote was cast by the
\* evaluator itself, through the API or on the chain (vote_dispute,
\* indexer_worker, check_inactive_evaluators).  The deadline is the one the code
\* measures, from the evaluator's registration (worker.py:53): the docstring,
\* worker.py:20-22, speaks of the bounty's creation or assignment.
RowsJustified ==
  \A i \in DOMAIN assignments :
    LET who == assignments[i].who
        v   == assignments[i].vote
    IN  /\ who \in panel /\ who \in Listed
        /\ v = "abstained" => who \in late
        /\ v \in Votes =>
             \/ [agent |-> who, vote |-> v] \in spoken
             \/ [log |-> "voted", by |-> who, vote |-> v] \in Range(chain)
=============================================================================
