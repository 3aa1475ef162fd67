-------------------------- MODULE EscrowFeesLemmas --------------------------
(***************************************************************************)
(* Facts about the fee arithmetic for every amount and every legal rate.   *)
(* The divisions are by constants, so once a product is named the solver   *)
(* reasons about linear arithmetic only.                                   *)
(***************************************************************************)
EXTENDS EscrowFees, TLAPS

\* A product of naturals is a natural, and grows with its second factor.
LEMMA ProductBound ==
  ASSUME NEW a \in Nat, NEW r \in Nat, NEW top \in Nat, r <= top
  PROVE  a * r \in Nat /\ a * r <= a * top
<1>1. a * r \in Nat /\ a * top \in Nat /\ a * (top - r) \in Nat
  <2>1. top - r \in Nat
    OBVIOUS
  <2> QED
    BY <2>1
<1>2. a * top = a * r + a * (top - r)
  OBVIOUS
<1> QED
  BY <1>1, <1>2

\* Division by a positive constant rounds down.
LEMMA RoundedDown ==
  ASSUME NEW p \in Nat
  PROVE  /\ p \div 10000 \in Nat
         /\ 10000 * (p \div 10000) <= p /\ p < 10000 * (p \div 10000) + 10000
         /\ p \div 4 \in Nat /\ 4 * (p \div 4) <= p
         /\ p \div 2 \in Nat /\ 2 * (p \div 2) <= p /\ p <= 2 * (p \div 2) + 1
OBVIOUS

\* The platform fee is rounded down from the exact share.
LEMMA PlatformFeeExact ==
  ASSUME NEW amount \in Nat, NEW bps \in 0 .. MaxPlatformFee
  PROVE  /\ FeePlatform(amount, bps) \in Nat
         /\ amount * bps \in Nat /\ amount * bps <= amount * 1000
         /\ 10000 * FeePlatform(amount, bps) <= amount * bps
         /\ amount * bps < 10000 * FeePlatform(amount, bps) + 10000
<1> DEFINE p == amount * bps
<1>1. p \in Nat /\ p <= amount * 1000
  BY ProductBound DEF MaxPlatformFee
<1>2. FeePlatform(amount, bps) = p \div 10000
  BY DEF FeePlatform
<1> HIDE DEF p
<1>3. /\ p \div 10000 \in Nat
      /\ 10000 * (p \div 10000) <= p /\ p < 10000 * (p \div 10000) + 10000
  BY <1>1, RoundedDown
<1> QED
  BY <1>1, <1>2, <1>3 DEF p

\* The platform fee is at most a tenth of the amount.
LEMMA PlatformFeeBound ==
  ASSUME NEW amount \in Nat, NEW bps \in 0 .. MaxPlatformFee
  PROVE  /\ FeePlatform(amount, bps) \in Nat
         /\ 10 * FeePlatform(amount, bps) <= amount
<1> DEFINE p == amount * bps
<1>1. p \in Nat /\ p <= amount * 1000
  BY ProductBound DEF MaxPlatformFee
<1>2. FeePlatform(amount, bps) = p \div 10000
  BY DEF FeePlatform
<1> HIDE DEF p
<1>3. p \div 10000 \in Nat /\ 10000 * (p \div 10000) <= p
  BY <1>1, RoundedDown
<1>4. 10 * (p \div 10000) <= amount
  BY <1>1, <1>3
<1> QED
  BY <1>2, <1>3, <1>4

\* The parts of the platform fee are naturals and add up to it, with or
\* without a gateway.
LEMMA PlatformFeeParts ==
  ASSUME NEW amount \in Nat, NEW bps \in 0 .. MaxPlatformFee,
         NEW routed \in BOOLEAN
  PROVE  /\ FeeCreator(amount, bps) \in Nat
         /\ FeeGateway(amount, bps, routed) \in Nat
         /\ FeeTreasury(amount, bps, routed) \in Nat
         /\ FeeGateway(amount, bps, routed) <= FeeTreasury(amount, bps, routed)
         /\ FeeCreator(amount, bps) + FeeGateway(amount, bps, routed)
              + FeeTreasury(amount, bps, routed) = FeePlatform(amount, bps)
         /\ FeePlatform(amount, bps) - 2 * FeeCreator(amount, bps) \in {0, 1}
<1>1. FeePlatform(amount, bps) \in Nat
  BY PlatformFeeBound
<1> QED
  BY <1>1, RoundedDown DEF FeeCreator, FeeGateway, FeeTreasury

\* The mediator's fee is rounded down from a quarter of a percent.
LEMMA MediatorFeeBound ==
  ASSUME NEW amount \in Nat
  PROVE  /\ FeeMediator(amount) \in Nat
         /\ 400 * FeeMediator(amount) <= amount
         /\ amount < 400 * FeeMediator(amount) + 400
BY RoundedDown DEF FeeMediator

\* What remains after the fees is the amount without the platform fee and the
\* mediator's; it is not negative.
LEMMA AfterFeesBound ==
  ASSUME NEW amount \in Nat, NEW bps \in 0 .. MaxPlatformFee,
         NEW routed \in BOOLEAN
  PROVE  /\ AfterFees(amount, bps, routed) \in Nat
         /\ AfterFees(amount, bps, routed)
              = amount - FeePlatform(amount, bps) - FeeMediator(amount)
         /\ AfterFees(amount, bps, routed) <= amount
<1>1. AfterFees(amount, bps, routed)
        = amount - FeePlatform(amount, bps) - FeeMediator(amount)
  BY PlatformFeeBound, PlatformFeeParts, MediatorFeeBound DEF AfterFees
<1>2. FeePlatform(amount, bps) \in Nat /\ 10 * FeePlatform(amount, bps) <= amount
  BY PlatformFeeBound
<1>3. FeeMediator(amount) \in Nat /\ 400 * FeeMediator(amount) <= amount
  BY MediatorFeeBound
<1> QED
  BY <1>1, <1>2, <1>3

\* The voters' shares together are at most 0.05% of the amount, so they fit in
\* what the fees leave.
LEMMA ArbitratorShareBound ==
  ASSUME NEW amount \in Nat, NEW bps \in 0 .. MaxPlatformFee,
         NEW routed \in BOOLEAN, NEW voters \in 1 .. 3
  PROVE  /\ ArbitratorShare(amount, voters) \in Nat
         /\ ArbitratorShare(amount, voters) * voters
              <= AfterFees(amount, bps, routed)
<1> DEFINE pot == (amount * 5) \div 10000
<1>1. pot \in Nat /\ 10000 * pot <= amount * 5
  BY RoundedDown
<1>2. pot <= AfterFees(amount, bps, routed)
  <2>1. AfterFees(amount, bps, routed)
          = amount - FeePlatform(amount, bps) - FeeMediator(amount)
    BY AfterFeesBound
  <2>2. FeePlatform(amount, bps) \in Nat /\ 10 * FeePlatform(amount, bps) <= amount
    BY PlatformFeeBound
  <2>3. FeeMediator(amount) \in Nat /\ 400 * FeeMediator(amount) <= amount
    BY MediatorFeeBound
  <2> QED
    BY <1>1, <2>1, <2>2, <2>3
<1>3. ArbitratorShare(amount, voters) = pot \div voters
  BY DEF ArbitratorShare
<1> HIDE DEF pot
<1>4. pot \div voters \in Nat /\ (pot \div voters) * voters <= pot
  <2>1. CASE voters = 1
    BY <1>1, <2>1
  <2>2. CASE voters = 2
    BY <1>1, <2>2
  <2>3. CASE voters = 3
    BY <1>1, <2>3
  <2> QED
    BY <2>1, <2>2, <2>3
<1> QED
  BY <1>1, <1>2, <1>3, <1>4, AfterFeesBound
=============================================================================
