-------------------------- MODULE BountyLifecycle --------------------------
(***************************************************************************)
(* What one escrow promises the two parties, without review rounds, votes, *)
(* deadlines, fees or addresses:                                           *)
(*   - a posted bounty goes to one worker at a time, and a worker who has  *)
(*     delivered keeps it until the settlement;                            *)
(*   - money leaves the escrow in a single settlement, when the escrow     *)
(*     holds the price, and never more than the price;                     *)
(*   - the settlement follows a delivery, and only a contested bounty can  *)
(*     be split;                                                           *)
(*   - what is left over leaves with the escrow itself, afterwards.        *)
(***************************************************************************)
EXTENDS Integers

CONSTANTS Workers, Nobody

VARIABLES phase, price, worker, outcome, held

lifecycle == <<phase, price, worker, outcome, held>>

Init ==
  /\ phase = "unset" /\ price = 0 /\ worker = Nobody /\ outcome = ""
  /\ held = 0

Fund ==
  /\ phase # "gone"
  /\ held' \in Nat /\ held' >= held
  /\ UNCHANGED <<phase, price, worker, outcome>>

Post ==
  /\ phase = "unset" /\ phase' = "open"
  /\ price' \in Nat \ {0}
  /\ UNCHANGED <<worker, outcome, held>>

Engage ==
  /\ phase = "open" /\ phase' = "working"
  /\ worker' \in Workers
  /\ UNCHANGED <<price, outcome, held>>

GiveUp ==
  /\ phase = "working" /\ phase' = "open"
  /\ worker' = Nobody
  /\ UNCHANGED <<price, outcome, held>>

Deliver ==
  /\ phase = "working" /\ phase' = "delivered"
  /\ UNCHANGED <<price, worker, outcome, held>>

Contest ==
  /\ phase = "delivered" /\ phase' = "contested"
  /\ UNCHANGED <<price, worker, outcome, held>>

Settle ==
  /\ phase \in {"delivered", "contested"} /\ phase' = "settled"
  /\ outcome' \in IF phase = "contested" THEN {"PAYOUT", "REFUND", "SPLIT"}
                                         ELSE {"PAYOUT", "REFUND"}
  /\ held >= price
  /\ held' <= held /\ held - held' <= price
  /\ UNCHANGED <<price, worker>>

Close ==
  /\ phase = "settled" /\ phase' = "gone"
  /\ held' = 0
  /\ UNCHANGED <<price, worker, outcome>>

Next == Fund \/ Post \/ Engage \/ GiveUp \/ Deliver \/ Contest \/ Settle \/ Close

Spec == Init /\ [][Next]_lifecycle
=============================================================================
