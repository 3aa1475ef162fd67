---------------------------- MODULE GitHubEvents ----------------------------
(***************************************************************************)
(* What GitHub makes of one bounty: the events of issues and pull requests *)
(* that WebhookDelivery dispatches, and the calls of the API that read     *)
(* GitHub or write the same row: creation and activation, sync-github,     *)
(* claim-payout.  A handler checks the row it has loaded, releases the     *)
(* escrow and waits for the confirmation, closes the row, writes a comment *)
(* on GitHub, and gives karma; other handlers, here or in the other server *)
(* process, move between these steps.                                      *)
(*                                                                         *)
(* A person has a wallet and a GitHub login; the login belongs to the      *)
(* wallet once it is linked.  The column worker holds a login when an      *)
(* event wrote it and a wallet when the API did.                           *)
(*                                                                         *)
(* Left out: comments, labels, commit statuses and notifications; the rows *)
(* of pull requests, which only tell sync-github where to look first;      *)
(* events of other repositories or without a bounty's number; the checks   *)
(* of the creator's account, which refuse a creation before it starts; the *)
(* sandbox, in which a release succeeds without a payment                  *)
(* (algod_client.py:512).                                                  *)
(***************************************************************************)
EXTENDS WebhookDelivery

CONSTANTS
  Calls,                \* bound: calls of the API
  People,
  Nobody,               \* the column worker is NULL
  Merges                \* merge commits that name the bounty

ASSUME EventsAssumption == Attempts \cap Calls = {}

VARIABLES
  bounty,               \* the row of the bounty
  escrow,               \* state box of its application
  linked,               \* people whose login is linked to their wallet
  synced,               \* table sync_records: the merges they stand for
  karma,                \* awards given and charges taken for this bounty
  session               \* the handler of each dispatched event or call

rowVars == <<bounty, escrow, linked, synced, karma>>
vars == <<deliveryVars, rowVars, session>>

Login(p) == <<"login", p>>
Wallet(p) == <<"wallet", p>>

Kinds == {"issue_opened", "issue_closed", "pr_pushed", "pr_merged"}

Absent == [status |-> "absent", worker |-> Nobody, hitm |-> TRUE,
           deployed |-> FALSE, payout |-> "", ready |-> FALSE]

Listed(hitm, deployed) ==
  [Absent EXCEPT !.status = "open", !.hitm = hitm, !.deployed = deployed]

Session(at, op, user) == [at |-> at, op |-> op, user |-> user]
Idle == [at |-> "idle"]
Over == [at |-> "over"]

\* A bounty of earlier versions may go without human review; the ones listed
\* now may not.
Init ==
  /\ DeliveryInit
  /\ bounty \in {Absent} \cup {Listed(FALSE, deployed) : deployed \in BOOLEAN}
  /\ escrow = IF bounty.deployed THEN "open" ELSE "none"
  /\ linked = {} /\ synced = {}
  /\ karma = [awards |-> 0, charges |-> 0]
  /\ session = [s \in Attempts \cup Calls |-> Idle]

Goto(s, at, op, user) ==
  session' = [session EXCEPT ![s] = Session(at, op, user)]

Start(s, at, op, user) ==
  /\ Goto(s, at, op, user)
  /\ UNCHANGED <<deliveryVars, rowVars>>

\* The handler returns; github_webhook calls that a success.
Return(s) ==
  /\ session' = [session EXCEPT ![s] = Over]
  /\ IF s \in Attempts THEN Finish(s, "success") ELSE UNCHANGED deliveryVars

Raise(s) ==
  /\ session' = [session EXCEPT ![s] = Over]
  /\ IF s \in Attempts THEN Finish(s, "failed") ELSE UNCHANGED deliveryVars

Authorized(worker, author) ==
  \/ worker = Login(author)
  \/ worker = Wallet(author) /\ author \in linked

-----------------------------------------------------------------------------
(* Events.  A delivery is dispatched once, so its event is chosen here.    *)

Dispatched(t) == attempt[t].at = "dispatched" /\ session[t] = Idle

\* handle_issue_event, opened or labeled: a row in pending_payment.  The
\* primary key admits one.
IssueOpened(t, user) ==
  /\ Dispatched(t)
  /\ IF bounty.status = "absent" THEN Start(t, "create", "issue_opened", user)
     ELSE Return(t) /\ UNCHANGED rowVars

CreatePending(t) ==
  /\ session[t].at = "create"
  /\ IF bounty.status = "absent"
       THEN /\ \E hitm \in BOOLEAN :
                 bounty' = [Absent EXCEPT !.status = "pending_payment",
                                          !.hitm = hitm]
            /\ Return(t)
       ELSE Raise(t) /\ UNCHANGED bounty
  /\ UNCHANGED <<escrow, linked, synced, karma>>

UnderWork == {"claimed", "submitted"}

\* Only a bounty with an application has something to release.
StartPayout(s, op, user) ==
  Start(s, IF bounty.deployed THEN "release" ELSE "close", op, user)

\* handle_issue_event, closed: whoever closes the issue is paid.
IssueClosed(t, user) ==
  /\ Dispatched(t)
  /\ IF bounty.status \in UnderWork /\ ~bounty.hitm /\ user \in linked
       THEN StartPayout(t, "issue_closed", user)
       ELSE Return(t) /\ UNCHANGED rowVars

\* handle_pr_event, opened or synchronize: the first push claims, the next
\* one submits.
PrPushed(t, user) ==
  /\ Dispatched(t)
  /\ CASE bounty.status = "open" -> Start(t, "claim", "pr_pushed", user)
       [] bounty.status = "claimed" /\ Authorized(bounty.worker, user) ->
            Start(t, "submit", "pr_pushed", user)
       [] OTHER -> Return(t) /\ UNCHANGED rowVars

CommitPush(t) ==
  /\ session[t].at \in {"claim", "submit"}
  /\ bounty' =
       IF session[t].at = "claim"
         THEN [bounty EXCEPT !.status = "claimed",
                             !.worker = Login(session[t].user)]
         ELSE [bounty EXCEPT !.status = "submitted"]
  /\ Return(t)
  /\ UNCHANGED <<escrow, linked, synced, karma>>

\* handle_pr_event, merged: the author is paid if nobody else holds the claim.
PrMerged(t, user) ==
  /\ Dispatched(t)
  /\ IF /\ bounty.status \in UnderWork /\ ~bounty.hitm /\ user \in linked
        /\ bounty.worker = Nobody \/ Authorized(bounty.worker, user)
       THEN StartPayout(t, "pr_merged", user)
       ELSE Return(t) /\ UNCHANGED rowVars

-----------------------------------------------------------------------------
(* release_trustless, and what follows a release.                          *)

MutantRefused(s) ==
  /\ Goto(s, "close", session[s].op, session[s].user)
  /\ UNCHANGED deliveryVars

MutantRefusedAsPaid(s) ==
  IF escrow = "closed" THEN MutantRefused(s) ELSE Return(s)

\* The handler gives up, and leaves the row as it is.
Refused(s) == Return(s)

\* The contract accepts approve_work for submitted work only.  A confirmation
\* that comes after four rounds is reported as a failure.
ReleaseTrustless(s) ==
  /\ session[s].at = "release"
  /\ \/ /\ escrow = "submitted" /\ escrow' = "closed"
        /\ \/ /\ Goto(s, "close", session[s].op, session[s].user)
              /\ UNCHANGED deliveryVars
           \/ Return(s)
     \/ UNCHANGED escrow /\ Refused(s)
  /\ UNCHANGED <<bounty, linked, synced, karma>>

Payee(s) ==
  CASE session[s].op = "issue_closed" -> Login(session[s].user)
    [] session[s].op = "claim_payout" -> Wallet(session[s].user)
    [] OTHER -> bounty.worker

ClosePaid(s) ==
  /\ session[s].at = "close"
  /\ bounty' = [bounty EXCEPT !.status = "closed", !.payout = "PAYOUT",
                              !.worker = Payee(s)]
  /\ Goto(s, "award", session[s].op, session[s].user)
  /\ UNCHANGED <<deliveryVars, escrow, linked, synced, karma>>

Award(s) ==
  /\ session[s].at = "award"
  /\ karma' = [karma EXCEPT !.awards = @ + 1]
  /\ Return(s)
  /\ UNCHANGED <<bounty, escrow, linked, synced>>

-----------------------------------------------------------------------------
(* The API.                                                                *)

Free(c) == session[c] = Idle

\* create_bounty: the charge is committed before the row.
CreateBounty(c, user) ==
  /\ Free(c)
  /\ bounty.status # "pending_payment"
  /\ karma' = [karma EXCEPT !.charges = @ + 1]
  /\ Goto(c, IF bounty.status = "absent" THEN "list" ELSE "activate",
          "create_bounty", user)
  /\ UNCHANGED <<deliveryVars, bounty, escrow, linked, synced>>

\* A new row, which the primary key may refuse; or the creator's own row,
\* whose status is set to open whatever it was.
ListBounty(c) ==
  /\ \/ /\ session[c].at = "list" /\ bounty.status = "absent"
        /\ bounty' = Listed(TRUE, TRUE) /\ escrow' = "open"
     \/ /\ session[c].at = "list" /\ bounty.status # "absent"
        /\ UNCHANGED <<bounty, escrow>>
     \/ /\ session[c].at = "activate"
        /\ bounty' = [bounty EXCEPT !.status = "open", !.hitm = TRUE]
        /\ UNCHANGED escrow
  /\ Return(c)
  /\ UNCHANGED <<linked, synced, karma>>

\* sync_github_endpoint, after GitHub has answered with a merge.
SyncGithub(c, user) ==
  /\ Free(c) /\ bounty.status # "absent"
  /\ \E sha \in Merges \ synced : Start(c, "ready", sha, user)

\* idempotency_key is unique.
CommitReady(c) ==
  /\ session[c].at = "ready"
  /\ LET sha == session[c].op
     IN  IF sha \notin synced
           THEN /\ bounty' = [bounty EXCEPT !.ready = TRUE]
                /\ synced' = synced \cup {sha}
           ELSE UNCHANGED <<bounty, synced>>
  /\ Return(c)
  /\ UNCHANGED <<escrow, linked, karma>>

\* claim_payout_endpoint: without an application the release of application 0
\* is refused.
ClaimPayout(c, user) ==
  /\ Free(c)
  /\ bounty.status \notin {"absent", "closed"} /\ bounty.ready
  /\ bounty.worker \in {Nobody, Wallet(user)} /\ bounty.deployed
  /\ StartPayout(c, "claim_payout", user)

\* link_github_username, also of another login.
LinkGithub(user) ==
  /\ linked' \in {linked \cup {user}, linked \ {user}}
  /\ UNCHANGED <<deliveryVars, bounty, escrow, synced, karma, session>>

-----------------------------------------------------------------------------
(* What other modules model in detail: claims through the API, the calls   *)
(* of the contract, and the poller, which copies the state of the chain.   *)

ClaimThroughApi(user) ==
  /\ bounty.status = "open"
  /\ bounty' = [bounty EXCEPT !.status = "claimed", !.worker = Wallet(user)]
  /\ UNCHANGED <<deliveryVars, escrow, linked, synced, karma, session>>

Following == [open |-> "claimed", claimed |-> "submitted", submitted |-> "closed"]

ChainMoves ==
  /\ escrow \in DOMAIN Following /\ escrow' = Following[escrow]
  /\ UNCHANGED <<deliveryVars, bounty, linked, synced, karma, session>>

RowFollows ==
  /\ bounty.deployed /\ escrow # "none"
  /\ bounty' = [bounty EXCEPT !.status = escrow]
  /\ UNCHANGED <<deliveryVars, escrow, linked, synced, karma, session>>

\* The process that serves a request dies.
Dies(s) ==
  /\ session[s] \notin {Idle, Over}
  /\ session' = [session EXCEPT ![s] = Over]
  /\ IF s \in Attempts THEN Crash(s) ELSE UNCHANGED deliveryVars
  /\ UNCHANGED rowVars

Deliver(t) ==
  /\ \/ \E d \in Deliveries : Receive(t, d)
     \/ Insert(t)
     \/ session[t] = Idle /\ Crash(t)
  /\ UNCHANGED <<rowVars, session>>

Next ==
  \/ \E t \in Attempts :
       \/ Deliver(t) \/ CreatePending(t) \/ CommitPush(t)
       \/ \E user \in People :
            \/ IssueOpened(t, user) \/ IssueClosed(t, user)
            \/ PrPushed(t, user) \/ PrMerged(t, user)
  \/ \E c \in Calls :
       \/ ListBounty(c) \/ CommitReady(c)
       \/ \E user \in People :
            CreateBounty(c, user) \/ SyncGithub(c, user) \/ ClaimPayout(c, user)
  \/ \E s \in Attempts \cup Calls :
       ReleaseTrustless(s) \/ ClosePaid(s) \/ Award(s) \/ Dies(s)
  \/ \E user \in People : LinkGithub(user) \/ ClaimThroughApi(user)
  \/ ChainMoves \/ RowFollows

Spec == Init /\ [][Next]_vars

-----------------------------------------------------------------------------
Statuses == {"absent", "pending_payment", "open", "claimed", "submitted", "closed"}

\* The row keeps values its readers know, whoever wrote it last.
TypeOK ==
  /\ bounty \in [status : Statuses, hitm : BOOLEAN, deployed : BOOLEAN,
                 payout : {"", "PAYOUT"}, ready : BOOLEAN,
                 worker : {Nobody} \cup ({"login", "wallet"} \X People)]
  /\ escrow \in {"none", "open", "claimed", "submitted", "closed"}
  /\ linked \subseteq People /\ synced \subseteq Merges
  /\ karma \in [awards : Nat, charges : Nat]

\* A bounty with an application is only ever shown as closed after the
\* application has paid, whichever of two events, the worker's claim-payout
\* and the poller closes it, and also when the release is refused or its
\* confirmation is late (handle_issue_event, handle_pr_event,
\* claim_payout_endpoint, release_trustless).
ClosedIsPaid ==
  bounty.deployed /\ bounty.status = "closed" => escrow = "closed"

\* However many events and calls pay out the same bounty, in whatever order
\* and after whatever reset of its status, karma is given at most once and
\* only for a payment of the application.  It takes the application to ensure
\* this: two payouts of a bounty without one both give karma.
AwardedOnce ==
  bounty.deployed => karma.awards <= (IF escrow = "closed" THEN 1 ELSE 0)
=============================================================================
