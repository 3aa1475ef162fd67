----------------------------- MODULE EscrowApp -----------------------------
(***************************************************************************)
(* The escrow application of one bounty as the gateway meets it: a state   *)
(* box, the log lines its methods leave in the indexer, and the pending    *)
(* transactions of the node.  Who may call what, fees, votes and deadlines *)
(* are the subject of Escrow; here a method only asks for the states it    *)
(* accepts, and a deadline may pass at any time.                           *)
(*                                                                         *)
(* A transaction the node accepted is not yet part of a block: it may be   *)
(* confirmed later or expire unseen.                                       *)
(***************************************************************************)
EXTENDS Naturals, SequencesExt

CONSTANTS
  Workers,              \* agents that may claim
  Creator,
  Nobody,               \* no worker
  Used,                 \* bound: the methods that are called
  MaxRound,             \* bound: the last round of the chain
  MaxPool               \* bound: pending transactions

ASSUME AppAssumption ==
  /\ Creator \notin Workers /\ Nobody \notin Workers \cup {Creator}
  /\ MaxRound \in Nat /\ MaxPool \in Nat

VARIABLES
  app,                  \* boxes "state" and "agent_address"
  round,                \* last round of the chain
  logs,                 \* the log lines in the order of their rounds
  pool                  \* transactions the node accepted, oldest first

appVars == <<app, round, logs, pool>>

Agents == Workers \cup {Creator}

\* The states a method accepts, the state it leaves and the log line the
\* gateway looks for ("" when it looks for none).
Method(accepts, leaves, line) ==
  [accepts |-> accepts, leaves |-> leaves, line |-> line]

Methods ==
  [claim_bounty    |-> Method({"open"}, "claimed", ""),
   submit_work     |-> Method({"claimed", "rejected"}, "submitted", ""),
   approve_work    |-> Method({"submitted"}, "closed", ""),
   reject_work     |-> Method({"submitted"}, "rejected", ""),
   submit_dispute  |-> Method({"submitted", "rejected"}, "disputed",
                              "dispute_submitted"),
   auto_release    |-> Method({"submitted"}, "closed", "auto_released_hitm"),
   claim_abandoned |-> Method({"rejected"}, "closed", ""),
   expire_claim    |-> Method({"claimed"}, "open", "claim_expired"),
   timeout_dispute |-> Method({"disputed"}, "closed", "dispute_timeout_split"),
   auto_resolve_creator_win |-> Method({"disputed"}, "closed", ""),
   agent_win       |-> Method({"disputed"}, "closed",
                              "dispute_resolved_agent_win"),
   creator_win     |-> Method({"disputed"}, "closed",
                              "dispute_resolved_creator_win"),
   split           |-> Method({"disputed"}, "closed",
                              "dispute_resolved_split")]

ASSUME UsedAssumption == Used \subseteq DOMAIN Methods

Call == [method : DOMAIN Methods, sender : Agents]

\* Who calls makes a difference for a claim only.
Calls == {call \in Call : /\ call.method \in Used
                          /\ call.method # "claim_bounty" => call.sender = Creator}

\* The application after a call, and whether the call passes its asserts.
Passes(a, call) ==
  /\ a.state \in Methods[call.method].accepts
  /\ call.method = "claim_bounty" => call.sender \in Workers

After(a, call) ==
  [state |-> Methods[call.method].leaves,
   agent |-> CASE call.method = "claim_bounty" -> call.sender
               [] call.method = "expire_claim" -> Nobody
               [] OTHER -> a.agent]

AppInit ==
  /\ app = [state |-> "open", agent |-> Nobody]
  /\ round = 1 /\ logs = <<>> /\ pool = <<>>

\* The application once the pending transactions are through.
Ahead == FoldLeft(After, app, pool)

\* The node evaluates a transaction on top of the pending ones and refuses it
\* when it would fail there.
Send(call) ==
  /\ Len(pool) < MaxPool
  /\ Passes(Ahead, call)
  /\ pool' = Append(pool, call)
  /\ UNCHANGED <<app, round, logs>>

Execute(call) ==
  /\ round < MaxRound
  /\ Passes(app, call)
  /\ app' = After(app, call)
  /\ round' = round + 1
  /\ LET line == Methods[call.method].line
     IN  logs' = IF line = "" THEN logs
                 ELSE Append(logs, [round |-> round', line |-> line])

\* The oldest pending transaction enters a block.
Confirm == pool # <<>> /\ Execute(Head(pool)) /\ pool' = Tail(pool)

\* It expires, or what it needs is no longer there.
Expire == pool # <<>> /\ pool' = Tail(pool) /\ UNCHANGED <<app, round, logs>>

\* A party, a bystander or an evaluator calls the application itself.
CallDirectly == (\E call \in Calls : Execute(call)) /\ UNCHANGED pool

\* A block without a call to this application.
EmptyBlock ==
  /\ round < MaxRound /\ round' = round + 1
  /\ UNCHANGED <<app, logs, pool>>

AppNext == Confirm \/ Expire \/ CallDirectly \/ EmptyBlock
=============================================================================
