------------------------------ MODULE MCEscrow ------------------------------
(***************************************************************************)
(* Instances of the escrow contract for TLC.  An account may play any role *)
(* the contract allows it: treasury, mediator and gateway can claim, too.  *)
(***************************************************************************)
EXTENDS EscrowProperties

CONSTANTS creator, worker, treasury, mediator, gateway, zero

\* An odd amount, so that every division of the settlement has a remainder.
Reward == 10007

Bounty(hitm, app, gw, asset, days) ==
  [creator |-> creator, treasury |-> treasury, mediator |-> mediator,
   gateway |-> gw, amount |-> Reward, hitm |-> hitm, asset |-> asset,
   review_days |-> days, authorized_app |-> app]

\* Human review, paid in ALGO, without a gateway.
Reviewed == {Bounty(1, 0, zero, 0, 1)}

\* The gateway may approve, and shares the treasury's fee.
Automatic == {Bounty(0, 1, gateway, 0, 0)}

\* Without an authorised app the flag is overridden: human review.
Overridden == {Bounty(0, 0, gateway, 0, 1)}

\* Paid in an asset whose receivers opt in and out.
InAsset == {Bounty(0, 1, zero, 1, 0)}

AutomaticOrAsset == Automatic \cup Overridden \cup InAsset
=============================================================================
