------------------------- MODULE GatewayProperties -------------------------
(***************************************************************************)
(* What the row of a bounty and the karma of its parties promise, whatever *)
(* the order of the requests, the polls and the chain.  The events of      *)
(* GitHub that also close rows are the subject of GitHubEvents.            *)
(***************************************************************************)
EXTENDS IndexerWorker

LoggedOutcomes == {Outcome[e.line] : e \in {f \in Range(logs) :
                                              f.line \in DOMAIN Outcome}}

\* A bounty shown as closed has been settled by the application, or the
\* gateway has accepted its creator's approval of submitted work or decided its
\* dispute; and the outcome it shows is that of a log line or of such a
\* decision, never of another.  That the transaction of an approval settles
\* anything, as the notice "Funds released." has it (bounties.py:773), the code
\* does not check (approve_work, admin_resolve_dispute, indexer_worker).
SettlementHasCause ==
  /\ bounty.status = "closed" =>
       app.state = "closed" \/ accepted \cap Payouts # {}
  /\ bounty.payout # "" => bounty.payout \in accepted \cup LoggedOutcomes

\* Awards and penalties only ever reach the creator and agents whose claim the
\* gateway accepted, also when claims race, expiries are replayed from the log
\* or sessions overwrite one another (approve_work, reject_work,
\* indexer_worker).
StrangersKeepKarma ==
  \A w \in Workers \ accepted : karma[w] = InitialKarma

-----------------------------------------------------------------------------
(* What the documents say of the worker.                                   *)

\* "Real-time Algorand blockchain event poller & database state synchronizer":
\* the row shows the state of the application again and again (README.md:125,
\* sync_bounty_from_chain).
RowCatchesUp == []<>(bounty.status = app.state)
=============================================================================
