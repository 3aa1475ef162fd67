--------------------------- MODULE IndexerWorker ---------------------------
(***************************************************************************)
(* The polling worker of worker.py and indexer.py, which keeps the row of  *)
(* a bounty in step with the chain, next to the requests of BountyApi.     *)
(* Every server process starts a poller of its own.  A poll searches the   *)
(* indexer for applications, copies the state box into the row, loads the  *)
(* active rows, applies the log lines from last_round on to its session,   *)
(* and commits; the chain, the requests and the other poller move between  *)
(* these steps, and any of them may fail.                                  *)
(*                                                                         *)
(* Left out: the platform fee and treasury copied from the boxes; the      *)
(* evaluators' rows, which are the subject of DisputePanel.                *)
(***************************************************************************)
EXTENDS BountyApi

CONSTANTS
  Pollers,              \* processes that run indexer_worker
  TemplateFilter        \* ESCROW_TEMPLATE_APP_ID is set: the search only
                        \* returns the template application

ASSUME WorkerAssumption == TemplateFilter \in BOOLEAN

VARIABLES
  poll,                 \* the session of each poller
  last_round            \* the round each poller fetches logs from

workerVars == <<poll, last_round>>

vars == <<appVars, apiVars, workerVars>>

Asleep == [at |-> "asleep"]

Init ==
  /\ AppInit /\ ApiInit
  /\ poll = [p \in Pollers |-> Asleep]
  /\ last_round = [p \in Pollers |-> 0]

Set(p, session) == poll' = [poll EXCEPT ![p] = session]

-----------------------------------------------------------------------------
(* Search and state.  Between the answer of the indexer and the commit of  *)
(* the status nothing is awaited, and what another process commits there   *)
(* is overwritten as by a box that changes later: one step.                *)

Active == {"open", "claimed", "submitted", "rejected", "disputed"}

MutantSyncedStates(row) ==
  [row EXCEPT !.status = IF app.state = "rejected" THEN "closed" ELSE app.state]

\* sync_bounty_from_chain: only the status follows the state box.
Synced(row) == [row EXCEPT !.status = app.state]

\* The rows that are still active are loaded with their agents, whatever the
\* search brought.
LoadActive(p) ==
  Set(p, IF bounty'.status \in Active
           THEN [at |-> "loaded", row |-> bounty', karma |-> karma] ELSE Asleep)

\* The application is among those the search returns, and its box is read; the
\* status is committed and last_round moves to the round of the search.
SyncState(p) ==
  /\ poll[p] = Asleep
  /\ bounty' = IF TemplateFilter THEN bounty ELSE Synced(bounty)
  /\ last_round' = [last_round EXCEPT ![p] = round]
  /\ LoadActive(p)
  /\ UNCHANGED <<appVars, karma, request, accepted>>

\* The search goes through, but the application is not among the first hundred,
\* which is all it ever asks for, or the box gives no value: last_round moves
\* all the same.
BoxUnread(p) ==
  /\ poll[p] = Asleep
  /\ UNCHANGED bounty
  /\ last_round' = [last_round EXCEPT ![p] = round]
  /\ LoadActive(p)
  /\ UNCHANGED <<appVars, karma, request, accepted>>

\* An error of the indexer gives an empty list: last_round stays.
SearchFails(p) ==
  /\ poll[p] = Asleep
  /\ UNCHANGED bounty
  /\ LoadActive(p)
  /\ UNCHANGED <<appVars, karma, request, accepted, last_round>>

-----------------------------------------------------------------------------
(* Log lines.                                                              *)

Settle(s, payout, forWorker, forCreator) ==
  [s EXCEPT !.row   = Closed(@, payout),
            !.karma = Bump(Bump(@, s.row.worker, forWorker), Creator, forCreator)]

OpenAgain(row) ==
  [row EXCEPT !.status = "open", !.worker = Nobody, !.rejections = 0]

MutantReopened(s) ==
  [s EXCEPT !.row = OpenAgain(@), !.karma = Bump(@, app.agent, -20)]

Reopened(s) ==
  [s EXCEPT !.row = OpenAgain(@), !.karma = Bump(@, s.row.worker, -20)]

Outcome == [auto_released_hitm           |-> "PAYOUT",
            dispute_timeout_split        |-> "SPLIT",
            dispute_resolved_agent_win   |-> "PAYOUT",
            dispute_resolved_creator_win |-> "REFUND",
            dispute_resolved_split       |-> "SPLIT"]

\* Karma for the worker and the creator.
Award == [auto_released_hitm           |-> <<3, 2>>,
          dispute_timeout_split        |-> <<-1, -1>>,
          dispute_resolved_agent_win   |-> <<5, -5>>,
          dispute_resolved_creator_win |-> <<-5, 5>>,
          dispute_resolved_split       |-> <<0, 0>>]

Apply(s, entry) ==
  CASE entry.line \in DOMAIN Outcome ->
         IF s.row.status = "closed" THEN s
         ELSE Settle(s, Outcome[entry.line], Award[entry.line][1],
                     Award[entry.line][2])
    [] entry.line = "claim_expired" ->
         IF s.row.status = "open" THEN s ELSE Reopened(s)
    [] OTHER ->
         [s EXCEPT !.row.status = "disputed"]

\* fetch_app_logs: the lines from last_round on.
Fetched(p) == {i \in DOMAIN logs : logs[i].round >= last_round[p]}

\* The indexer answers with the lines, or with an error that counts as none.
FetchLogs(p) ==
  /\ poll[p].at = "loaded"
  /\ \E lines \in {Fetched(p), {}} :
       Set(p, IF lines = {} THEN Asleep
              ELSE [at |-> "applying", todo |-> lines,
                    loaded |-> poll[p].row, row |-> poll[p].row,
                    seen |-> poll[p].karma, karma |-> poll[p].karma])
  /\ UNCHANGED <<appVars, apiVars, last_round>>

\* The next line is applied to the session; last_round follows the lines.
ApplyLine(p) ==
  /\ poll[p].at = "applying"
  /\ \E i \in poll[p].todo :
       /\ \A j \in poll[p].todo : i <= j
       /\ Set(p, [Apply(poll[p], logs[i]) EXCEPT !.todo = @ \ {i}])
       /\ last_round' = [last_round EXCEPT ![p] =
            IF logs[i].round > @ THEN logs[i].round ELSE @]
  /\ UNCHANGED <<appVars, apiVars>>

CommitPoll(p) ==
  LET s == poll[p]
  IN  /\ s.at = "applying" /\ s.todo = {}
      /\ bounty' = Flush(bounty, s.loaded, s.row)
      /\ karma' = Flush(karma, s.seen, s.karma)
      /\ Set(p, Asleep)
      /\ UNCHANGED <<appVars, request, accepted, last_round>>

\* An exception: the session is dropped, last_round stays where it is.
PollFails(p) ==
  /\ poll[p] # Asleep /\ Set(p, Asleep)
  /\ UNCHANGED <<appVars, apiVars, last_round>>

\* The process starts again, with last_round = 0.
Restart(p) ==
  /\ Set(p, Asleep)
  /\ last_round' = [last_round EXCEPT ![p] = 0]
  /\ UNCHANGED <<appVars, apiVars>>

Poll(p) == SyncState(p) \/ FetchLogs(p) \/ ApplyLine(p) \/ CommitPoll(p)

WorkerNext ==
  \E p \in Pollers : \/ Poll(p) \/ BoxUnread(p) \/ SearchFails(p)
                      \/ PollFails(p) \/ Restart(p)

Next ==
  \/ AppNext /\ UNCHANGED <<apiVars, workerVars>>
  \/ ApiNext /\ UNCHANGED workerVars
  \/ WorkerNext

Spec == Init /\ [][Next]_vars

-----------------------------------------------------------------------------
(* Fairness, as favourable to the documents as it can be: pending          *)
(* transactions leave the pool, a request that was received ends, a poll   *)
(* goes on, and again and again the search returns the application.  The   *)
(* last is more than the code has (it asks for one hundred applications    *)
(* and no further page); only the refutation of RowCatchesUp rests on it.  *)

Fairness ==
  /\ WF_vars((Confirm \/ Expire) /\ UNCHANGED <<apiVars, workerVars>>)
  /\ \A r \in Requests :
       WF_vars((CommitRow(r) \/ CommitKarma(r) \/ Abort(r))
               /\ UNCHANGED workerVars)
  /\ \A p \in Pollers :
       WF_vars(FetchLogs(p) \/ ApplyLine(p) \/ CommitPoll(p))
       /\ SF_vars(SyncState(p))

FairSpec == Spec /\ Fairness
=============================================================================
