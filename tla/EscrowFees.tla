----------------------------- MODULE EscrowFees -----------------------------
(***************************************************************************)
(* The fee arithmetic of escrow.py: _send_fee_split and the evaluators'    *)
(* share of _execute_arbitration_payout; and the breakdown the gateway     *)
(* shows with an unsigned transaction.  Amounts are integer units of the   *)
(* escrowed asset, every division rounds down and every word has 64 bits;  *)
(* the AVM rejects the call when a product leaves the word or a            *)
(* difference goes below zero.                                             *)
(*                                                                         *)
(* bps is the platform fee in hundredths of a percent (box platform_fee,   *)
(* written by create_bounty from the template variable PLATFORM_FEE, which *)
(* is also what _send_fee_split falls back on); routed says that the       *)
(* bounty names a gateway to share the treasury's half with.               *)
(*                                                                         *)
(* Operators whose name starts with Mutant are deliberately wrong variants  *)
(* of the definition that follows them.                                    *)
(***************************************************************************)
EXTENDS Integers

MaxPlatformFee == 1000          \* create_bounty: "cannot exceed 10%"

MutantFeePlatform(amount, bps) == (amount * bps) \div 1000

FeePlatform(amount, bps) == (amount * bps) \div 10000

FeeCreator(amount, bps) == FeePlatform(amount, bps) \div 2

FeeGateway(amount, bps, routed) ==
  IF routed THEN FeePlatform(amount, bps) \div 4 ELSE 0

MutantFeeTreasury(amount, bps, routed) ==
  FeePlatform(amount, bps) - FeeCreator(amount, bps)

FeeTreasury(amount, bps, routed) ==
  FeePlatform(amount, bps) - FeeCreator(amount, bps)
                           - FeeGateway(amount, bps, routed)

MutantFeeMediator(amount) == (amount \div 10000) * 25

FeeMediator(amount) == (amount * 25) \div 10000

\* What _send_fee_split returns: the part its callers pay out themselves.
\* The royalty is subtracted whether or not it was paid.
AfterFees(amount, bps, routed) ==
  amount - FeeCreator(amount, bps) - FeeGateway(amount, bps, routed)
         - FeeTreasury(amount, bps, routed) - FeeMediator(amount)

\* Each of the voters receives the same whole share of the 0.05%.
ArbitratorShare(amount, voters) == ((amount * 5) \div 10000) \div voters

\* What get_claim_txn shows a worker before it signs: the gateway computes the
\* split itself, from its row.
MutantClaimPreview(amount, bps) ==
  LET platform == (amount * bps) \div 10000
      half     == platform \div 2
  IN  [royalty |-> half, treasury |-> half,
       estimated_mediator |-> (amount * 25) \div 10000,
       payout |-> amount - half - half]

ClaimPreview(amount, bps) ==
  LET platform == (amount * bps) \div 10000
      half     == platform \div 2
      other    == platform - half
  IN  [royalty |-> half, treasury |-> other,
       estimated_mediator |-> (amount * 25) \div 10000,
       payout |-> amount - half - other]

\* get_approve_txn repeats it.
ApprovePreview(amount, bps) == ClaimPreview(amount, bps)

\* The products of the split fit the machine word: otherwise every call that
\* would settle the bounty is rejected.
Computable(amount, bps, maxWord) ==
  amount * bps <= maxWord /\ amount * 25 <= maxWord
=============================================================================
