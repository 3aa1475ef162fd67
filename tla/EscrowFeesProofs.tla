-------------------------- MODULE EscrowFeesProofs --------------------------
(***************************************************************************)
(* What the run of MCEscrowFees checks for small amounts and a few rates,  *)
(* proved for every amount and every rate create_bounty accepts.           *)
(***************************************************************************)
EXTENDS MCEscrowFees, EscrowFeesLemmas

\* What the walk enumerates.
Enumerated ==
  /\ amount \in Nat /\ bps \in 0 .. MaxPlatformFee
  /\ routed \in BOOLEAN /\ voters \in 1 .. 3

\* The walk never leaves the inputs the lemmas are about.
LEMMA AlwaysEnumerated == Spec => []Enumerated
<1>1. Init => Enumerated
  BY RatesAssumption DEF Init, Enumerated
<1>2. Enumerated /\ [Next]_vars => Enumerated'
  BY DEF Enumerated, Next, vars
<1> QED
  BY <1>1, <1>2, PTL DEF Spec

\* No subtraction of a settlement underflows: the treasury's part and what is
\* left for the winner after the fees and the voters' shares are not negative.
THEOREM WinnerPartAlwaysNonNegative == Spec => []WinnerPartNonNegative
<1>1. Enumerated => WinnerPartNonNegative
  <2> SUFFICES ASSUME Enumerated PROVE WinnerPartNonNegative
    OBVIOUS
  <2> USE DEF Enumerated
  <2> DEFINE share == ArbitratorShare(amount, voters) * voters
             rest  == AfterFees(amount, bps, routed)
  <2>1. FeeTreasury(amount, bps, routed) \in Nat
    BY PlatformFeeParts
  <2>2. rest \in Nat
    BY AfterFeesBound
  <2>3. share \in Nat /\ share <= rest
    <3>1. ArbitratorShare(amount, voters) \in Nat
      BY ArbitratorShareBound
    <3>2. share <= rest
      BY ArbitratorShareBound
    <3> QED
      BY <3>1, <3>2, ProductBound
  <2>4. ArbitrationPaid = share
    BY DEF ArbitrationPaid
  <2> HIDE DEF share, rest
  <2>5. rest - ArbitrationPaid >= 0
    BY <2>2, <2>3, <2>4
  <2> QED
    BY <2>1, <2>5 DEF WinnerPartNonNegative, rest
<1> QED
  BY <1>1, AlwaysEnumerated, PTL

\* A gateway is paid out of the treasury's half and nothing else.
THEOREM GatewayAlwaysCostsTreasury == Spec => []GatewayOnlyCostsTreasury
<1>1. Enumerated => GatewayOnlyCostsTreasury
  <2> SUFFICES ASSUME Enumerated PROVE GatewayOnlyCostsTreasury
    OBVIOUS
  <2> USE DEF Enumerated
  <2>1. AfterFees(amount, bps, TRUE) = AfterFees(amount, bps, FALSE)
    BY AfterFeesBound
  <2>2. FeeGateway(amount, bps, TRUE) <= FeeTreasury(amount, bps, TRUE)
    BY PlatformFeeParts
  <2> DEFINE p == FeePlatform(amount, bps)
             c == FeeCreator(amount, bps)
             g == FeeGateway(amount, bps, TRUE)
             t == FeeTreasury(amount, bps, TRUE)
             u == FeeTreasury(amount, bps, FALSE)
  <2>3. c \in Nat /\ g \in Nat /\ t \in Nat /\ c + g + t = p
    BY PlatformFeeParts
  <2>4. u \in Nat /\ c + 0 + u = p
    <3>1. FeeGateway(amount, bps, FALSE) = 0
      BY DEF FeeGateway
    <3>2. u \in Nat /\ c + FeeGateway(amount, bps, FALSE) + u = p
      BY PlatformFeeParts
    <3> QED
      BY <3>1, <3>2
  <2>5. g + t = u
    <3> HIDE DEF p, c, g, t, u
    <3> QED
      BY <2>3, <2>4
  <2> QED
    BY <2>1, <2>2, <2>5 DEF GatewayOnlyCostsTreasury
<1> QED
  BY <1>1, AlwaysEnumerated, PTL

\* The royalty and the treasury side are equal halves up to the odd unit.
THEOREM HalvesAlwaysOfPlatformFee == Spec => []HalvesOfPlatformFee
<1>1. Enumerated => HalvesOfPlatformFee
  <2> SUFFICES ASSUME Enumerated PROVE HalvesOfPlatformFee
    OBVIOUS
  <2> USE DEF Enumerated
  <2>1. /\ FeeCreator(amount, bps) \in Nat
        /\ FeeGateway(amount, bps, routed) \in Nat
        /\ FeeTreasury(amount, bps, routed) \in Nat
        /\ FeeCreator(amount, bps) + FeeGateway(amount, bps, routed)
             + FeeTreasury(amount, bps, routed) = FeePlatform(amount, bps)
        /\ FeePlatform(amount, bps) - 2 * FeeCreator(amount, bps) \in {0, 1}
    BY PlatformFeeParts
  <2> QED
    BY <2>1 DEF HalvesOfPlatformFee
<1> QED
  BY <1>1, AlwaysEnumerated, PTL

\* The winner's part is the exact share of the amount, rounded up by less than
\* two units.
THEOREM WinnerPartAlwaysExact == Spec => []WinnerPartExact
<1>1. Enumerated => WinnerPartExact
  <2> SUFFICES ASSUME Enumerated PROVE WinnerPartExact
    OBVIOUS
  <2> USE DEF Enumerated
  <2> DEFINE p == amount * bps
             f == FeePlatform(amount, bps)
             m == FeeMediator(amount)
  <2>1. f \in Nat /\ p \in Nat /\ 10000 * f <= p /\ p < 10000 * f + 10000
    <3>1. f = p \div 10000
      BY DEF FeePlatform
    <3>2. p \in Nat
      BY ProductBound DEF MaxPlatformFee
    <3> HIDE DEF p, f
    <3> QED
      BY <3>1, <3>2, RoundedDown
  <2>2. m \in Nat /\ 400 * m <= amount /\ amount < 400 * m + 400
    BY MediatorFeeBound
  <2>3. AfterFees(amount, bps, routed) = amount - f - m
    BY AfterFeesBound
  <2>4. amount * (10000 - bps - 25) = 9975 * amount - p
    BY DEF MaxPlatformFee
  <2> HIDE DEF p, f, m
  <2>5. /\ 9975 * amount - p <= 10000 * (amount - f - m)
        /\ 10000 * (amount - f - m) < 9975 * amount - p + 2 * 10000
    BY <2>1, <2>2
  <2> QED
    BY <2>3, <2>4, <2>5 DEF WinnerPartExact
<1> QED
  BY <1>1, AlwaysEnumerated, PTL

\* The breakdown the gateway shows is what an approval moves.
THEOREM PreviewAlwaysPaid == Spec => []PreviewIsPaid
<1>1. Enumerated => PreviewIsPaid
  <2> SUFFICES ASSUME Enumerated PROVE PreviewIsPaid
    OBVIOUS
  <2> USE DEF Enumerated
  <2> DEFINE f == FeePlatform(amount, bps)
             c == FeeCreator(amount, bps)
             g == FeeGateway(amount, bps, routed)
             t == FeeTreasury(amount, bps, routed)
             m == FeeMediator(amount)
             rest == AfterFees(amount, bps, routed)
             shown == ClaimPreview(amount, bps)
  <2>1. /\ c \in Nat /\ g \in Nat /\ t \in Nat /\ c + g + t = f
    BY PlatformFeeParts
  <2>2. rest = amount - f - m /\ m \in Nat /\ f \in Nat
    BY AfterFeesBound, MediatorFeeBound, PlatformFeeBound
  <2>3. /\ shown.royalty = c /\ shown.treasury = f - c
        /\ shown.payout = amount - c - (f - c)
        /\ shown.estimated_mediator = m
    BY DEF ClaimPreview, FeePlatform, FeeCreator, FeeMediator
  <2> HIDE DEF f, c, g, t, m, rest
  <2>4. /\ shown.royalty = c /\ shown.treasury = g + t
        /\ shown.payout = rest + m
        /\ shown.payout - shown.estimated_mediator = rest
    <3> HIDE DEF shown
    <3> QED
      BY <2>1, <2>2, <2>3
  <2> QED
    BY <2>4 DEF PreviewIsPaid, ApprovePreview, f, c, g, t, m, rest
<1> QED
  BY <1>1, AlwaysEnumerated, PTL
=============================================================================
