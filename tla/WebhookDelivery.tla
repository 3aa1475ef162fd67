-------------------------- MODULE WebhookDelivery --------------------------
(***************************************************************************)
(* How github_webhook takes a delivery of GitHub once.  GitHub sends the   *)
(* same delivery again after an error or a timeout, and by hand; requests  *)
(* are served by two processes, so two attempts at one delivery overlap.   *)
(* The first attempt to insert the record of a delivery dispatches its     *)
(* event, every other is answered already_processed.                       *)
(*                                                                         *)
(* Left out: a request without a delivery id, which GitHub does not send,  *)
(* and the check of the signature in front of the handler.                 *)
(***************************************************************************)
EXTENDS Naturals

CONSTANTS
  Deliveries,           \* values of X-GitHub-Delivery
  Attempts              \* bound: requests that carry one

VARIABLES
  record,               \* table webhook_delivery_records: column status
  attempt,              \* where each request is, and its delivery
  dispatched            \* history: how often each delivery was dispatched

deliveryVars == <<record, attempt, dispatched>>

\* "none": no row has this delivery id.
RecordStates == {"none", "processing", "success", "failed"}

NotSent == [at |-> "new"]
Answered == [at |-> "answered"]

DeliveryInit ==
  /\ record = [d \in Deliveries |-> "none"]
  /\ attempt = [t \in Attempts |-> NotSent]
  /\ dispatched = [d \in Deliveries |-> 0]

Answer(t) == attempt' = [attempt EXCEPT ![t] = Answered]

\* The request looks for the record of its delivery.
Receive(t, d) ==
  /\ attempt[t] = NotSent
  /\ IF record[d] = "none"
       THEN attempt' = [attempt EXCEPT ![t] = [at |-> "insert", delivery |-> d]]
       ELSE Answer(t)
  /\ UNCHANGED <<record, dispatched>>

MutantInserts(d) == TRUE

\* delivery_id is unique: only one insertion is committed.
Inserts(d) == record[d] = "none"

Insert(t) ==
  /\ attempt[t].at = "insert"
  /\ LET d == attempt[t].delivery
     IN  IF Inserts(d)
           THEN /\ record' = [record EXCEPT ![d] = "processing"]
                /\ attempt' = [attempt EXCEPT ![t].at = "dispatched"]
                /\ dispatched' = [dispatched EXCEPT ![d] = @ + 1]
           ELSE Answer(t) /\ UNCHANGED <<record, dispatched>>

\* The handler returned, or raised, and the record says so; an error while
\* writing the record is swallowed.
Finish(t, status) ==
  /\ attempt[t].at = "dispatched"
  /\ record' \in {record, [record EXCEPT ![attempt[t].delivery] = status]}
  /\ Answer(t)
  /\ UNCHANGED dispatched

\* The process dies: nobody goes on with the request or with its record.
Crash(t) ==
  /\ attempt[t].at \in {"insert", "dispatched"}
  /\ Answer(t)
  /\ UNCHANGED <<record, dispatched>>

DeliveryNext ==
  \E t \in Attempts :
    \/ \E d \in Deliveries : Receive(t, d)
    \/ Insert(t) \/ Crash(t)
    \/ \E status \in {"success", "failed"} : Finish(t, status)

DeliverySpec == DeliveryInit /\ [][DeliveryNext]_deliveryVars

-----------------------------------------------------------------------------
\* The event of a delivery is dispatched at most once, however often and
\* however late GitHub repeats it, and over crashes and failures
\* (github_webhook and the unique column of WebhookDeliveryRecord).
DeliveryOnce == \A d \in Deliveries : dispatched[d] <= 1
=============================================================================
