----------------------------- MODULE BountyApi -----------------------------
(***************************************************************************)
(* The row of one bounty in the gateway's database, the karma of its       *)
(* parties, and the requests of routers/bounties.py and routers/admin.py   *)
(* that change them.                                                       *)
(*                                                                         *)
(* A handler loads what it checks into a session of its own, hands the     *)
(* signed transaction of the request to the node, whatever it is, and      *)
(* writes the row without waiting for the confirmation; karma follows in   *)
(* commits of its own.                                                     *)
(* Handlers run in two server processes (and a thread pool), so anything   *)
(* may happen between a handler's steps.  The session writes the values it *)
(* changed from what it loaded: a change made in between is overwritten.   *)
(*                                                                         *)
(* Left out: notifications, events, comments on GitHub, the counters that  *)
(* move together with the karma (completed_bounties, disputes_lost), and   *)
(* requests refused with an error, which change nothing.  The rows a       *)
(* session loads again after a commit are loaded with that commit.         *)
(***************************************************************************)
EXTENDS EscrowApp, Integers

CONSTANTS
  Requests,             \* bound: one slot for each request that is served
  InitialKarma,
  KarmaRequirement,     \* karma_requirement of the bounty
  Stewarded             \* agents with a verified steward

ASSUME ApiAssumption ==
  /\ InitialKarma \in Int /\ KarmaRequirement \in Int
  /\ Stewarded \subseteq Agents

VARIABLES
  bounty,               \* table bounties: the row of the bounty
  karma,                \* table agents: column karma
  request,              \* the sessions of the handlers
  accepted              \* history: the agents whose claim, and the outcomes
                        \* whose approval or decision, the gateway accepted

dbVars == <<bounty, karma>>
apiVars == <<bounty, karma, request, accepted>>

Payouts == {"", "PAYOUT", "REFUND", "SPLIT"}

Session(at, op, user, row, seen) ==
  [at |-> at, op |-> op, user |-> user, row |-> row, seen |-> seen]

\* A slot nobody has used, or that will not be used again.
Unused == [at |-> "new"]
Served == [at |-> "served"]

ApiInit ==
  /\ bounty = [status |-> "open", worker |-> Nobody, rejections |-> 0,
               payout |-> ""]
  /\ karma = [a \in Agents |-> InitialKarma]
  /\ request = [r \in Requests |-> Unused]
  /\ accepted = {}

\* The handler's first step: what it has loaded stays in its session.
Load(r, op, user) ==
  /\ request[r] = Unused
  /\ request' = [request EXCEPT ![r] = Session("row", op, user, bounty, karma)]
  /\ UNCHANGED dbVars

\* send_signed_transaction sends what the request brings: any call of this
\* application, signed by anybody, or a transaction it has no part in.  A
\* rejection, a dispute and, in the sandbox, any request need not bring one.
Hand == (\E call \in Calls : Send(call)) \/ UNCHANGED appVars

-----------------------------------------------------------------------------
(* Guards and the call to the node.                                        *)

ClaimBounty(r, user) ==
  /\ bounty.status = "open" /\ user # Creator
  /\ karma[user] >= KarmaRequirement /\ user \in Stewarded
  /\ Hand
  /\ Load(r, "claim", user)
  /\ accepted' = accepted \cup {user}

SubmitWork(r, user) ==
  /\ bounty.status \in {"claimed", "rejected"} /\ bounty.worker = user
  /\ Hand
  /\ Load(r, "submit", user)
  /\ UNCHANGED accepted

ApproveWork(r, user) ==
  /\ user = Creator /\ bounty.status = "submitted"
  /\ Hand
  /\ Load(r, "approve", user)
  /\ accepted' = accepted \cup {"PAYOUT"}

RejectWork(r, user) ==
  /\ user = Creator /\ bounty.status = "submitted"
  /\ Hand
  /\ Load(r, "reject", user)
  /\ UNCHANGED accepted

DisputeWork(r, user) ==
  /\ user \in {Creator, bounty.worker}
  /\ bounty.status \in {"submitted", "rejected"}
  /\ Hand
  /\ Load(r, "dispute", user)
  /\ UNCHANGED accepted

Resolutions == [worker_win |-> "PAYOUT", creator_win |-> "REFUND",
                split |-> "SPLIT"]

\* The administrator decides in the database alone.
AdminResolveDispute(r, resolution) ==
  /\ bounty.status = "disputed"
  /\ Load(r, resolution, Creator)
  /\ accepted' = accepted \cup {Resolutions[resolution]}
  /\ UNCHANGED appVars

-----------------------------------------------------------------------------
(* Commits.                                                                *)

Claimed(row, s) == [row EXCEPT !.status = "claimed", !.worker = s.user]

Closed(row, payout) == [row EXCEPT !.status = "closed", !.payout = payout]

\* What the session makes of the row it has loaded.
Written(row, s) ==
  CASE s.op = "claim"   -> Claimed(row, s)
    [] s.op = "submit"  -> [row EXCEPT !.status = "submitted"]
    [] s.op = "approve" -> Closed(row, "PAYOUT")
    [] s.op = "reject"  -> [row EXCEPT !.status = "rejected", !.rejections = @ + 1]
    [] s.op = "dispute" -> [row EXCEPT !.status = "disputed"]
    [] OTHER            -> Closed(row, Resolutions[s.op])

Bump(k, agent, by) == IF agent \in DOMAIN k THEN [k EXCEPT ![agent] = @ + by] ELSE k

\* Values of a session replace the table's where the session changed them.
Flush(table, loaded, changed) ==
  [f \in DOMAIN table |->
     IF changed[f] # loaded[f] THEN changed[f] ELSE table[f]]

\* The commit of the row.  Approving and rejecting go on to the karma of the
\* parties; an administrator's award for the worker is part of this commit.
CommitRow(r) ==
  LET s == request[r]
      award == IF s.op = "worker_win" THEN Bump(s.seen, s.row.worker, 5)
                                      ELSE s.seen
  IN  /\ s.at = "row"
      /\ bounty' = Flush(bounty, s.row, Written(s.row, s))
      /\ karma' = Flush(karma, s.seen, award)
      /\ request' = [request EXCEPT ![r] =
           IF s.op \in {"approve", "reject"}
             THEN Session("karma", s.op, s.user, bounty', karma') ELSE Served]
      /\ UNCHANGED <<appVars, accepted>>

WorkerPenalty(rejections) ==
  CASE rejections = 1 -> 1 [] rejections = 2 -> 2 [] OTHER -> 5

CreatorPenalty(rejections) == IF rejections = 1 THEN 2 ELSE 5

\* An approval awards both parties in one commit; a rejection fines the worker
\* in one and the creator in the next.
KarmaAfter(s) ==
  CASE s.op = "approve"   -> Bump(Bump(s.seen, s.row.worker, 10), Creator, 5)
    [] s.at = "karma"     ->
         Bump(s.seen, s.row.worker, -WorkerPenalty(s.row.rejections))
    [] OTHER              ->
         Bump(s.seen, Creator, -CreatorPenalty(s.row.rejections))

CommitKarma(r) ==
  LET s == request[r]
  IN  /\ s.at \in {"karma", "creator"}
      /\ karma' = Flush(karma, s.seen, KarmaAfter(s))
      /\ request' = [request EXCEPT ![r] =
           IF s.at = "karma" /\ s.op = "reject"
             THEN Session("creator", s.op, s.user, bounty, karma') ELSE Served]
      /\ UNCHANGED <<appVars, bounty, accepted>>

\* The process dies, or the database refuses the commit.
Abort(r) ==
  /\ request[r].at \in {"row", "karma", "creator"}
  /\ request' = [request EXCEPT ![r] = Served]
  /\ UNCHANGED <<appVars, dbVars, accepted>>

ApiNext ==
  \E r \in Requests :
    \/ \E user \in Agents :
         \/ ClaimBounty(r, user) \/ SubmitWork(r, user)
         \/ ApproveWork(r, user) \/ RejectWork(r, user)
         \/ DisputeWork(r, user)
    \/ \E resolution \in DOMAIN Resolutions : AdminResolveDispute(r, resolution)
    \/ CommitRow(r) \/ CommitKarma(r) \/ Abort(r)
=============================================================================
