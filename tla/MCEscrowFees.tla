---------------------------- MODULE MCEscrowFees ----------------------------
(***************************************************************************)
(* Walks the fee arithmetic over every small amount, several fee rates,    *)
(* with and without a gateway, for one to three voters.  The properties    *)
(* speak of the amounts the contract moves, against reference formulas in  *)
(* rational arithmetic (a share s of n units is within one unit of s * n). *)
(***************************************************************************)
EXTENDS EscrowFees

CONSTANTS
  MaxAmount,            \* bound: the largest amount
  Rates                 \* platform fees create_bounty accepts

ASSUME RatesAssumption == Rates \subseteq 0 .. MaxPlatformFee

VARIABLES amount, bps, routed, voters

vars == <<amount, bps, routed, voters>>

Init ==
  /\ amount = 1
  /\ bps \in Rates
  /\ routed \in BOOLEAN
  /\ voters \in 1 .. 3

Next ==
  /\ amount < MaxAmount
  /\ amount' = amount + 1
  /\ UNCHANGED <<bps, routed, voters>>

Spec == Init /\ [][Next]_vars

ArbitrationPaid == ArbitratorShare(amount, voters) * voters

\* No subtraction of the settlement underflows, whatever the amount down to a
\* single unit: the winner's part that is left after the fees and after the
\* voters' shares is never negative (_execute_arbitration_payout).
WinnerPartNonNegative ==
  /\ FeeTreasury(amount, bps, routed) >= 0
  /\ AfterFees(amount, bps, routed) - ArbitrationPaid >= 0

\* A gateway is paid out of the treasury's half only: naming one never
\* changes the royalty or the winner's part, and it gets no more than the
\* treasury keeps (_send_fee_split).
GatewayOnlyCostsTreasury ==
  /\ AfterFees(amount, bps, TRUE) = AfterFees(amount, bps, FALSE)
  /\ FeeGateway(amount, bps, TRUE) <= FeeTreasury(amount, bps, TRUE)
  /\ FeeGateway(amount, bps, TRUE) + FeeTreasury(amount, bps, TRUE)
       = FeeTreasury(amount, bps, FALSE)

\* The royalty and the treasury side are the two halves of the platform fee;
\* the odd unit of an odd fee goes to the treasury side, never to the creator
\* (_send_fee_split).
HalvesOfPlatformFee ==
  LET treasurySide == FeeGateway(amount, bps, routed)
                      + FeeTreasury(amount, bps, routed)
  IN  treasurySide - FeeCreator(amount, bps) \in {0, 1}

\* Rounding is in the winner's favour and bounded: the winner's part is at
\* least the exact rational share of the escrow and less than two units above
\* it, one for each fee that is rounded down (_send_fee_split).
WinnerPartExact ==
  LET exact == amount * (10000 - bps - 25)      \* in 1/10000 of a unit
      part  == 10000 * AfterFees(amount, bps, routed)
  IN  exact <= part /\ part < exact + 2 * 10000

\* The breakdown shown before signing is what an approval then moves, whether
\* or not a gateway shares the treasury's side: the worker receives the split's
\* remainder and, out of dispute, the mediator's fee; after a dispute it would
\* lack exactly the estimate.  The fee must be the contract's: a row has it
\* once the worker has read the box (get_claim_txn, get_approve_txn,
\* _send_fee_split).
PreviewIsPaid ==
  \A p \in {ClaimPreview(amount, bps), ApprovePreview(amount, bps)} :
    LET rest == AfterFees(amount, bps, routed)
    IN  /\ p.royalty = FeeCreator(amount, bps)
        /\ p.treasury = FeeGateway(amount, bps, routed)
                        + FeeTreasury(amount, bps, routed)
        /\ p.payout = rest + FeeMediator(amount)
        /\ p.payout - p.estimated_mediator = rest
=============================================================================
