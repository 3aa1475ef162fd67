---------------------------- MODULE EscrowProofs ----------------------------
(***************************************************************************)
(* Proofs about the escrow contract, for any accounts, terms, fee rate,    *)
(* timeouts and bounds.                                                    *)
(*                                                                         *)
(* Payments are followed one by one with the relation Moves: what leaves   *)
(* the application is what the accounts receive together.  IInv makes the  *)
(* settlements well-defined, StepKinds says what a step may do to the      *)
(* phase; most theorems follow from these two.  The amount each account    *)
(* receives is followed separately (Receives), for who is paid what.       *)
(***************************************************************************)
EXTENDS EscrowProperties, EscrowFeesLemmas, EvaluatorPoolProofs,
        FiniteSetTheorems

-----------------------------------------------------------------------------
(* What all accounts have received together.  The fold that adds it up is  *)
(* a recursive function over sets of accounts; that it exists, and how it  *)
(* changes with a payment, is proved with a smallest counterexample.       *)

Some(T) == CHOOSE a \in T : TRUE

\* One step of the sum of L over the set T, given sums over smaller sets.
Adds(L, T, f) == IF T = {} THEN 0 ELSE L[Some(T)] + f[T \ {Some(T)}]

SumOf(L) ==
  CHOOSE f : f = [T \in SUBSET Accounts |-> Adds(L, T, f)]

LEMMA ReceivedIsSum ==
  ASSUME NEW L
  PROVE  Received(L) = SumOf(L)[Accounts]
BY DEF Received, MapThenSumSet, MapThenFoldSet, SumOf, Adds, Some

\* Taking the chosen element leaves a smaller set.
LEMMA SomeOf ==
  ASSUME NEW T, T # {}
  PROVE  Some(T) \in T
BY DEF Some

\* A set of sets of accounts that is not empty has a smallest one.
LEMMA SmallestSet ==
  ASSUME NEW B, B \subseteq SUBSET Accounts, B # {}
  PROVE  \E T \in B : \A U \in B : U \subseteq T => U = T
<1>1. IsWellFoundedOn(StrictSubsetOrdering(Accounts), SUBSET Accounts)
  BY AccountsAssumption, FS_StrictSubsetOrderingWellFounded,
     FS_FiniteSubsetsOfFinite
<1>2. PICK T \in B : \A U \in B : <<U, T>> \notin StrictSubsetOrdering(Accounts)
  BY <1>1, WFMin
<1>3. ASSUME NEW U \in B, U \subseteq T PROVE U = T
  BY <1>2, <1>3 DEF StrictSubsetOrdering
<1> QED
  BY <1>3

\* The sum exists: sums over sets of at most n accounts extend to n + 1.
LEMMA SumExists ==
  ASSUME NEW L
  PROVE  SumOf(L) = [T \in SUBSET Accounts |-> Adds(L, T, SumOf(L))]
<1> DEFINE Sums(n, f) == \A T \in SUBSET Accounts :
             Cardinality(T) <= n => f[T] = Adds(L, T, f)
           Bad == {n \in Nat : ~\E f : Sums(n, f)}
           Less == {p \in Nat \X Nat : p[1] < p[2]}
<1>1. \A T \in SUBSET Accounts :
        /\ Cardinality(T) \in Nat /\ Cardinality(T) <= Cardinality(Accounts)
        /\ Cardinality(T) = 0 => T = {}
        /\ T # {} => /\ T \ {Some(T)} \in SUBSET Accounts
                     /\ Cardinality(T \ {Some(T)}) = Cardinality(T) - 1
  BY AccountsAssumption, FS_Subset, FS_CardinalityType, FS_EmptySet, FS_RemoveElement, SomeOf
<1>2. Bad = {}
  <2> SUFFICES ASSUME Bad # {} PROVE FALSE
    OBVIOUS
  <2>1. IsWellFoundedOn(Less, Nat)
    BY NatLessThanWellFounded DEF OpToRel
  <2>2. PICK n \in Bad : \A m \in Bad : <<m, n>> \notin Less
    <3>1. Bad \subseteq Nat
      OBVIOUS
    <3> HIDE DEF Bad, Less
    <3> QED
      BY <2>1, <3>1, WFMin
  <2>3. n \in Nat /\ ~\E f : Sums(n, f)
    OBVIOUS
  <2>4. CASE n = 0
    <3> DEFINE f == [T \in SUBSET Accounts |-> 0]
    <3>1. ASSUME NEW T \in SUBSET Accounts, Cardinality(T) <= n
          PROVE  f[T] = Adds(L, T, f)
      <4>1. Cardinality(T) \in Nat /\ (Cardinality(T) = 0 => T = {})
        BY <1>1
      <4>2. Cardinality(T) <= 0
        BY <2>4, <3>1
      <4>3. T = {}
        <5> DEFINE k == Cardinality(T)
        <5> HIDE DEF k
        <5>1. k \in Nat /\ k <= 0 => k = 0
          OBVIOUS
        <5> QED
          BY <4>1, <4>2, <5>1 DEF k
      <4> QED
        BY <4>3 DEF Adds
    <3> QED
      BY <2>3, <3>1
  <2>5. CASE n # 0
    <3>1. n - 1 \in Nat /\ <<n - 1, n>> \in Less
      BY <2>3, <2>5
    <3>2. PICK f : Sums(n - 1, f)
      BY <2>2, <3>1
    <3> DEFINE g == [T \in SUBSET Accounts |-> Adds(L, T, f)]
    <3>3. ASSUME NEW T \in SUBSET Accounts, Cardinality(T) <= n
          PROVE  g[T] = Adds(L, T, g)
      <4>1. CASE T = {}
        BY <4>1 DEF Adds
      <4>2. CASE T # {}
        <5> DEFINE U == T \ {Some(T)}
        <5>1. U \in SUBSET Accounts /\ Cardinality(U) <= n - 1
          BY <1>1, <2>3, <3>3, <4>2
        <5>2. f[U] = Adds(L, U, f)
          BY <3>2, <5>1
        <5>3. g[U] = f[U]
          BY <5>1, <5>2
        <5>4. g[T] = L[Some(T)] + f[U] /\ Adds(L, T, g) = L[Some(T)] + g[U]
          BY <4>2 DEF Adds
        <5> QED
          BY <5>3, <5>4
      <4> QED
        BY <4>1, <4>2
    <3>4. Sums(n, g)
      BY <3>3
    <3> QED
      BY <2>3, <3>4
  <2> QED
    BY <2>4, <2>5
<1>3. PICK f : Sums(Cardinality(Accounts), f)
  <2>1. Cardinality(Accounts) \in Nat
    BY AccountsAssumption, FS_CardinalityType
  <2> QED
    BY <1>2, <2>1
<1> DEFINE g == [T \in SUBSET Accounts |-> f[T]]
<1>4. ASSUME NEW T \in SUBSET Accounts PROVE g[T] = Adds(L, T, g)
  <2>1. f[T] = Adds(L, T, f)
    BY <1>1, <1>3
  <2>2. CASE T = {}
    BY <2>1, <2>2 DEF Adds
  <2>3. CASE T # {}
    <3>1. T \ {Some(T)} \in SUBSET Accounts
      BY <1>1, <2>3
    <3> QED
      BY <2>1, <2>3, <3>1 DEF Adds
  <2> QED
    BY <2>2, <2>3
<1>5. g = [T \in SUBSET Accounts |-> Adds(L, T, g)]
  <2>1. g = [T \in SUBSET Accounts |-> g[T]]
    OBVIOUS
  <2> HIDE DEF g
  <2> QED
    BY <1>4, <2>1
<1> HIDE DEF g
<1> QED
  BY <1>5, Zenon DEF SumOf

\* A payment of n units to one account adds n to the sum; without it the sum
\* stays.
LEMMA SumChanges ==
  ASSUME NEW L, NEW M, NEW n \in Int, NEW to,
         \A a \in Accounts :
           /\ L[a] \in Int
           /\ M[a] = L[a] + (IF a = to THEN n ELSE 0)
  PROVE  /\ SumOf(L)[Accounts] \in Int
         /\ SumOf(M)[Accounts]
              = SumOf(L)[Accounts] + (IF to \in Accounts THEN n ELSE 0)
<1> DEFINE Changed(T) == IF to \in T THEN n ELSE 0
           Right(T) == /\ SumOf(L)[T] \in Int
                       /\ SumOf(M)[T] = SumOf(L)[T] + Changed(T)
           Bad == {T \in SUBSET Accounts : ~Right(T)}
<1>1. \A T \in SUBSET Accounts : /\ SumOf(L)[T] = Adds(L, T, SumOf(L))
                                 /\ SumOf(M)[T] = Adds(M, T, SumOf(M))
  <2> DEFINE f == SumOf(L)
             g == SumOf(M)
  <2>1. /\ f = [T \in SUBSET Accounts |-> Adds(L, T, f)]
        /\ g = [T \in SUBSET Accounts |-> Adds(M, T, g)]
    BY SumExists
  <2> HIDE DEF f, g
  <2>2. \A T \in SUBSET Accounts : f[T] = Adds(L, T, f) /\ g[T] = Adds(M, T, g)
    BY <2>1
  <2> QED
    BY <2>2 DEF f, g
<1>2. ASSUME NEW T \in Bad, \A U \in Bad : U \subseteq T => U = T
      PROVE  FALSE
  <2>1. T \in SUBSET Accounts /\ ~Right(T)
    OBVIOUS
  <2>2. T # {}
    <3> SUFFICES ASSUME T = {} PROVE FALSE
      OBVIOUS
    <3>1. SumOf(L)[T] = 0 /\ SumOf(M)[T] = 0
      BY <1>1, <2>1 DEF Adds
    <3>2. Changed(T) = 0
      OBVIOUS
    <3>3. Right(T)
      BY <3>1, <3>2
    <3> QED
      BY <2>1, <3>3
  <2> DEFINE a == Some(T)
             U == T \ {a}
  <2>3. a \in T /\ U \in SUBSET Accounts /\ U \subseteq T /\ U # T
    BY <2>1, <2>2, SomeOf
  <2>4. Right(U)
    BY <1>2, <2>3
  <2>5. /\ SumOf(L)[T] = L[a] + SumOf(L)[U]
        /\ SumOf(M)[T] = M[a] + SumOf(M)[U]
    BY <1>1, <2>1, <2>2 DEF Adds
  <2>6. L[a] \in Int /\ M[a] = L[a] + (IF a = to THEN n ELSE 0)
    BY <2>1, <2>3
  <2>7. Changed(T) = (IF a = to THEN n ELSE 0) + Changed(U)
    <3> HIDE DEF a
    <3> QED
      BY <2>3
  <2>8. Changed(U) \in Int
    OBVIOUS
  <2> DEFINE x == SumOf(L)[U]
             y == SumOf(M)[U]
             c == Changed(U)
             d == IF a = to THEN n ELSE 0
             z == L[a]
  <2>9. d \in Int
    OBVIOUS
  <2>10. /\ SumOf(L)[T] = z + x /\ SumOf(M)[T] = (z + d) + y
         /\ y = x + c /\ x \in Int /\ c \in Int /\ d \in Int /\ z \in Int
         /\ Changed(T) = d + c
    BY <2>4, <2>5, <2>6, <2>7, <2>8, <2>9
  <2> HIDE DEF a, U, x, y, c, d, z, Changed
  <2>11. z + x \in Int /\ (z + d) + y = (z + x) + (d + c)
    BY <2>10
  <2>12. Right(T)
    BY <2>10, <2>11
  <2> QED
    BY <2>1, <2>12
<1>3. Bad = {}
  <2> HIDE DEF Right
  <2>1. Bad \subseteq SUBSET Accounts
    OBVIOUS
  <2> HIDE DEF Bad
  <2> QED
    BY <1>2, <2>1, SmallestSet
<1>4. Right(Accounts)
  <2> HIDE DEF Right
  <2> QED
    BY <1>3
<1> QED
  BY <1>4

-----------------------------------------------------------------------------
(* Payments.                                                               *)

Ledgers == [Accounts \cup {App} -> Int]

\* Ledger M is ledger L after payments of n units in total to accounts.
Moves(L, M, n) ==
  /\ L \in Ledgers /\ M \in Ledgers /\ n \in Nat
  /\ M[App] = L[App] - n
  /\ \A a \in Accounts : M[a] >= L[a]
  /\ Received(M) = Received(L) + n

\* What the accounts have received depends on their entries only.
LEMMA ReceivedStays ==
  ASSUME NEW L, NEW M, \A a \in Accounts : L[a] \in Int /\ M[a] = L[a]
  PROVE  Received(L) \in Int /\ Received(M) = Received(L)
<1> DEFINE n == 0
<1>1. /\ n \in Int
      /\ \A a \in Accounts :
           L[a] \in Int /\ M[a] = L[a] + (IF a = App THEN n ELSE 0)
  OBVIOUS
<1> HIDE DEF n
<1>2. /\ SumOf(L)[Accounts] \in Int
      /\ SumOf(M)[Accounts]
           = SumOf(L)[Accounts] + (IF App \in Accounts THEN n ELSE 0)
  BY <1>1, SumChanges
<1> QED
  BY <1>2, AddressAssumption, ReceivedIsSum

\* It is a number.
LEMMA ReceivedTyped ==
  ASSUME NEW L, \A a \in Accounts : L[a] \in Int
  PROVE  Received(L) \in Int
<1>1. \A a \in Accounts : L[a] \in Int /\ L[a] = L[a]
  OBVIOUS
<1> QED
  BY <1>1, ReceivedStays

\* Accounts that have received nothing have received nothing together.
LEMMA ReceivedNothing ==
  ASSUME NEW L, \A a \in Accounts : L[a] = 0
  PROVE  Received(L) = 0
<1> DEFINE Bad == {T \in SUBSET Accounts : SumOf(L)[T] # 0}
<1>1. \A T \in SUBSET Accounts : SumOf(L)[T] = Adds(L, T, SumOf(L))
  BY SumExists
<1>2. ASSUME NEW T \in Bad, \A U \in Bad : U \subseteq T => U = T
      PROVE  FALSE
  <2>1. T \in SUBSET Accounts /\ SumOf(L)[T] # 0
    OBVIOUS
  <2>2. T # {}
    BY <1>1, <2>1 DEF Adds
  <2> DEFINE U == T \ {Some(T)}
  <2>3. Some(T) \in T /\ U \in SUBSET Accounts /\ U \subseteq T /\ U # T
    BY <2>1, <2>2, SomeOf
  <2>4. SumOf(L)[U] = 0
    BY <1>2, <2>3
  <2>5. SumOf(L)[T] = L[Some(T)] + SumOf(L)[U]
    BY <1>1, <2>1, <2>2 DEF Adds
  <2>6. L[Some(T)] = 0
    BY <2>1, <2>3
  <2> QED
    BY <2>1, <2>4, <2>5, <2>6
<1>3. Bad = {}
  <2>1. Bad \subseteq SUBSET Accounts
    OBVIOUS
  <2> HIDE DEF Bad
  <2> QED
    BY <1>2, <2>1, SmallestSet
<1> QED
  BY <1>3, ReceivedIsSum

\* No payment at all is a movement of nothing.
LEMMA MovesNothing ==
  ASSUME NEW L \in Ledgers
  PROVE  Moves(L, L, 0)
<1>1. \A a \in Accounts : L[a] \in Int /\ L[a] >= L[a]
  BY DEF Ledgers
<1>2. Received(L) \in Int
  BY <1>1, ReceivedTyped
<1>3. Received(L) = Received(L) + 0 /\ L[App] = L[App] - 0
  BY <1>2 DEF Ledgers
<1> QED
  BY <1>1, <1>3 DEF Moves

\* One payment moves its amount out of the application's account.
LEMMA PayMoves ==
  ASSUME NEW L \in Ledgers, NEW to \in Accounts, NEW n \in Nat
  PROVE  Moves(L, Pay(L, to, n), n)
<1> DEFINE M == Pay(L, to, n)
<1>1. /\ M \in Ledgers /\ M[App] = L[App] - n
      /\ \A a \in Accounts : M[a] = L[a] + (IF a = to THEN n ELSE 0)
  BY AddressAssumption DEF Ledgers, Pay
<1>2. \A a \in Accounts : L[a] \in Int
  BY DEF Ledgers
<1>3. \A a \in Accounts : M[a] >= L[a]
  BY <1>1, <1>2
<1>4. Received(M) = Received(L) + n
  <2> HIDE DEF M
  <2>1. SumOf(M)[Accounts] = SumOf(L)[Accounts] + (IF to \in Accounts THEN n ELSE 0)
    BY <1>1, <1>2, SumChanges
  <2> QED
    BY <2>1, ReceivedIsSum
<1> QED
  BY <1>1, <1>3, <1>4 DEF Moves

\* The movements of consecutive payments add up.
LEMMA MovesAdd ==
  ASSUME NEW L, NEW M, NEW N, NEW m, NEW n, Moves(L, M, m), Moves(M, N, n)
  PROVE  Moves(L, N, m + n)
<1>1. /\ L \in Ledgers /\ M \in Ledgers /\ N \in Ledgers
      /\ m \in Nat /\ n \in Nat
      /\ M[App] = L[App] - m /\ N[App] = M[App] - n
      /\ \A a \in Accounts : M[a] >= L[a] /\ N[a] >= M[a]
      /\ Received(M) = Received(L) + m /\ Received(N) = Received(M) + n
  BY DEF Moves
<1>2. /\ \A a \in Accounts : L[a] \in Int /\ M[a] \in Int /\ N[a] \in Int
      /\ L[App] \in Int
  BY <1>1 DEF Ledgers
<1>3. N[App] = L[App] - (m + n)
  BY <1>1, <1>2
<1>4. \A a \in Accounts : N[a] >= L[a]
  BY <1>1, <1>2
<1>5. Received(N) = Received(L) + (m + n)
  BY <1>1, <1>2, ReceivedTyped
<1> QED
  BY <1>1, <1>3, <1>4, <1>5 DEF Moves

\* A payment after a movement of m units.
LEMMA MovesPay ==
  ASSUME NEW L, NEW M, NEW m, Moves(L, M, m),
         NEW to \in Accounts, NEW n \in Nat
  PROVE  Moves(L, Pay(M, to, n), m + n)
<1>1. M \in Ledgers
  BY DEF Moves
<1>2. Moves(M, Pay(M, to, n), n)
  BY <1>1, PayMoves
<1> QED
  BY <1>2, MovesAdd

-----------------------------------------------------------------------------
(* Settlements.                                                            *)

\* What create_bounty leaves for the settlement to read.
Deployed ==
  /\ terms \in Terms
  /\ PlatformFee \in 0 .. MaxPlatformFee
  /\ agent \in Accounts
  /\ ledger \in Ledgers

\* Every role the terms name is an account, the gateway when there is one.
LEMMA TermsTyped ==
  ASSUME terms \in Terms
  PROVE  /\ terms.creator \in Accounts /\ terms.treasury \in Accounts
         /\ terms.mediator \in Accounts
         /\ terms.gateway # Zero => terms.gateway \in Accounts
         /\ terms.amount \in Nat /\ terms.asset \in Nat
         /\ terms.review_days \in Nat
BY DEF Terms, Roles

\* The royalty that is skipped when the creator is the primary recipient.
Skipped(primary) ==
  IF primary = terms.creator THEN FeeCreator(terms.amount, PlatformFee) ELSE 0

\* The fee split moves the amount without what it leaves to the winner and
\* without the royalty it skips, so the winner's part still fits into the
\* escrow amount.
LEMMA FeeSplitMoves ==
  ASSUME Deployed, NEW primary \in Accounts, NEW is_dispute \in BOOLEAN
  PROVE  \E n \in Nat : /\ Moves(ledger, FeeSplit(ledger, primary, is_dispute), n)
                        /\ Rest \in Nat /\ n + Rest <= terms.amount
                        /\ n + Rest = terms.amount - Skipped(primary)
<1> DEFINE c == FeeCreator(terms.amount, PlatformFee)
           g == FeeGateway(terms.amount, PlatformFee, Routed)
           t == FeeTreasury(terms.amount, PlatformFee, Routed)
           m == FeeMediator(terms.amount)
           r == IF primary = terms.creator THEN 0 ELSE c
           L1 == PayRoyalty(ledger, primary)
           L2 == PayGateway(L1)
           L3 == PayTreasury(L2)
<1>1. /\ terms.creator \in Accounts /\ terms.treasury \in Accounts
      /\ terms.mediator \in Accounts /\ terms.amount \in Nat
      /\ terms.gateway # Zero => terms.gateway \in Accounts
      /\ Routed \in BOOLEAN
  BY TermsTyped DEF Deployed, Routed
<1>2. c \in Nat /\ g \in Nat /\ t \in Nat
  BY <1>1, PlatformFeeParts DEF Deployed
<1>3. m \in Nat
  BY <1>1, MediatorFeeBound
<1>4. Rest \in Nat /\ Rest = terms.amount - c - g - t - m
  BY <1>1, AfterFeesBound DEF Deployed, Rest, AfterFees
<1>5. Moves(ledger, L1, r)
  <2> HIDE DEF c
  <2> QED
    BY <1>1, <1>2, MovesNothing, PayMoves DEF Deployed, PayRoyalty, c
<1>6. Moves(ledger, L2, r + g)
  <2>1. CASE Routed
    <3>1. L2 = Pay(L1, terms.gateway, g)
      BY <2>1 DEF PayGateway
    <3>2. terms.gateway \in Accounts
      BY <1>1, <2>1 DEF Routed
    <3> HIDE DEF L1, L2, r, g
    <3> QED
      BY <1>2, <1>5, <3>1, <3>2, MovesPay
  <2>2. CASE ~Routed
    <3>1. L2 = L1
      BY <2>2 DEF PayGateway
    <3>2. g = 0
      BY <2>2 DEF FeeGateway
    <3>3. r \in Nat
      BY <1>2
    <3> HIDE DEF L1, L2, r, g
    <3> QED
      BY <1>5, <3>1, <3>2, <3>3
  <2> QED
    BY <2>1, <2>2
<1>7. Moves(ledger, L3, r + g + t)
  <2>1. L3 = Pay(L2, terms.treasury, t)
    BY DEF PayTreasury
  <2> HIDE DEF L2, L3, r, g, t
  <2> QED
    BY <1>1, <1>2, <1>6, <2>1, MovesPay
<1>8. Moves(ledger, FeeSplit(ledger, primary, is_dispute), r + g + t + m)
  <2>1. FeeSplit(ledger, primary, is_dispute)
          = Pay(L3, MediatorPayee(primary, is_dispute), m)
    BY DEF FeeSplit
  <2>2. MediatorPayee(primary, is_dispute) \in Accounts
    BY <1>1 DEF MediatorPayee
  <2> HIDE DEF L3, r, g, t, m
  <2> QED
    BY <1>3, <1>7, <2>1, <2>2, MovesPay
<1>9. /\ r + g + t + m \in Nat
      /\ r + g + t + m + Rest <= terms.amount
      /\ r + g + t + m + Rest = terms.amount - Skipped(primary)
  <2>1. r \in Nat /\ r <= c /\ Skipped(primary) = c - r
    <3>1. Skipped(primary) = IF primary = terms.creator THEN c ELSE 0
      BY DEF Skipped
    <3> HIDE DEF c
    <3> QED
      BY <1>2, <3>1
  <2> HIDE DEF c, g, t, m, r
  <2> QED
    BY <1>1, <1>2, <1>3, <1>4, <2>1
<1> QED
  BY <1>4, <1>8, <1>9

\* The settlement of one winner moves at most the escrow amount.
LEMMA WinnerTakesMoves ==
  ASSUME Deployed, NEW winner \in Accounts, NEW is_dispute \in BOOLEAN
  PROVE  \E n \in Nat : /\ Moves(ledger, WinnerTakes(winner, is_dispute), n)
                        /\ n <= terms.amount
                        /\ n = terms.amount - Skipped(winner)
<1>1. PICK n \in Nat : /\ Moves(ledger, FeeSplit(ledger, winner, is_dispute), n)
                       /\ Rest \in Nat /\ n + Rest <= terms.amount
                       /\ n + Rest = terms.amount - Skipped(winner)
  BY FeeSplitMoves
<1>2. Moves(ledger, WinnerTakes(winner, is_dispute), n + Rest)
  BY <1>1, MovesPay DEF WinnerTakes
<1> QED
  BY <1>1, <1>2

\* Halving moves what it halves, or leaves one unit.
LEMMA HalveMoves ==
  ASSUME NEW L, NEW M, NEW n, Moves(L, M, n), NEW rest \in Nat,
         terms.creator \in Accounts, agent \in Accounts
  PROVE  \E k \in Nat : /\ Moves(L, Halve(M, rest), k)
                        /\ k \in {n + rest, n + rest - 1}
<1> DEFINE half == rest \div 2
<1>1. half \in Nat /\ half + half \in {rest, rest - 1}
  BY RoundedDown
<1>2. Halve(M, rest) = Pay(Pay(M, terms.creator, half), agent, half)
  BY DEF Halve
<1>3. n \in Nat
  BY DEF Moves
<1> HIDE DEF half
<1>4. Moves(L, Pay(M, terms.creator, half), n + half)
  BY <1>1, MovesPay
<1>5. Moves(L, Halve(M, rest), n + half + half)
  BY <1>1, <1>2, <1>4, MovesPay
<1>6. /\ n + half + half \in Nat
      /\ n + half + half \in {n + rest, n + rest - 1}
  BY <1>1, <1>3
<1> QED
  BY <1>5, <1>6

\* The split of a timed-out dispute moves the escrow amount without the
\* creator's royalty, and without the odd unit.
LEMMA TimeoutMoves ==
  ASSUME Deployed
  PROVE  \E n \in Nat :
           /\ Moves(ledger, Halve(FeeSplit(ledger, terms.creator, TRUE), Rest), n)
           /\ n <= terms.amount /\ InFull("SPLIT", n)
<1> DEFINE royalty == FeeCreator(terms.amount, PlatformFee)
<1>1. terms.creator \in Accounts /\ terms.amount \in Nat /\ agent \in Accounts
  BY TermsTyped DEF Deployed
<1>2. PICK n \in Nat : /\ Moves(ledger, FeeSplit(ledger, terms.creator, TRUE), n)
                       /\ Rest \in Nat /\ n + Rest <= terms.amount
                       /\ n + Rest = terms.amount - Skipped(terms.creator)
  BY <1>1, FeeSplitMoves
<1>3. PICK k \in Nat :
        /\ Moves(ledger, Halve(FeeSplit(ledger, terms.creator, TRUE), Rest), k)
        /\ k \in {n + Rest, n + Rest - 1}
  BY <1>1, <1>2, HalveMoves
<1>4. n + Rest = terms.amount - royalty
  BY <1>2 DEF Skipped
<1>5. InFull("SPLIT", k)
  <2>1. k \in {terms.amount - royalty, terms.amount - royalty - 1}
    <3> HIDE DEF royalty
    <3>1. k = n + Rest \/ k = (n + Rest) - 1
      BY <1>2, <1>3
    <3> QED
      BY <1>4, <3>1, Zenon
  <2> QED
    BY <2>1 DEF InFull
<1>6. k <= terms.amount
  BY <1>1, <1>2, <1>3
<1> QED
  BY <1>3, <1>5, <1>6

\* Paying every voter the share moves the share once for each of them.
LEMMA PayVotersMoves ==
  ASSUME NEW L, NEW M, NEW n, Moves(L, M, n),
         NEW votes, NEW share \in Nat, evaluator \in [Seats -> Accounts]
  PROVE  /\ VoterCount(votes) \in 0 .. 3
         /\ Moves(L, PayVoters(M, votes, share), n + share * VoterCount(votes))
<1> DEFINE One(i) == IF votes[i] # 0 THEN 1 ELSE 0
           Due(i) == IF votes[i] # 0 THEN share ELSE 0
           Step(N, i) == IF votes[i] # 0 THEN Pay(N, evaluator[i], share) ELSE N
<1>1. \A i \in Seats : evaluator[i] \in Accounts
  OBVIOUS
<1>2. n \in Nat
  BY DEF Moves
<1>3. ASSUME NEW N, NEW k \in Nat, Moves(L, N, k), NEW i \in Seats
      PROVE  Moves(L, Step(N, i), k + Due(i))
  <2>1. CASE votes[i] # 0
    BY <1>1, <1>3, <2>1, MovesPay
  <2>2. CASE votes[i] = 0
    BY <1>3, <2>2
  <2> QED
    BY <2>1, <2>2
<1>4. /\ Due(1) \in Nat /\ Due(2) \in Nat /\ Due(3) \in Nat
      /\ 1 \in Seats /\ 2 \in Seats /\ 3 \in Seats
  BY DEF Seats
<1>5. PayVoters(M, votes, share) = Step(Step(Step(M, 1), 2), 3)
  BY DEF PayVoters
<1>6. VoterCount(votes) = One(1) + One(2) + One(3)
  BY DEF VoterCount
<1>7. VoterCount(votes) \in 0 .. 3
  BY <1>6
<1>8. Due(1) + Due(2) + Due(3) = share * VoterCount(votes)
  <2>1. share * 0 = 0 /\ share * 1 = share /\ share * 2 = share + share
        /\ share * 3 = share + share + share
    OBVIOUS
  <2> QED
    BY <1>6, <2>1
<1>9. Moves(L, PayVoters(M, votes, share), n + (Due(1) + Due(2) + Due(3)))
  <2> HIDE DEF Due, Step
  <2>1. Moves(L, Step(M, 1), n + Due(1))
    BY <1>2, <1>3, <1>4
  <2>2. Moves(L, Step(Step(M, 1), 2), n + Due(1) + Due(2))
    BY <1>2, <1>3, <1>4, <2>1
  <2>3. Moves(L, Step(Step(Step(M, 1), 2), 3), n + Due(1) + Due(2) + Due(3))
    BY <1>2, <1>3, <1>4, <2>2
  <2>4. n + Due(1) + Due(2) + Due(3) = n + (Due(1) + Due(2) + Due(3))
    BY <1>2, <1>4
  <2> QED
    BY <1>5, <2>3, <2>4
<1> QED
  BY <1>7, <1>8, <1>9

\* A settlement by votes moves the escrow amount in full, shares included.
LEMMA ArbitrationMoves ==
  ASSUME Deployed, agent # terms.creator, evaluator \in [Seats -> Accounts],
         NEW option \in 1 .. 3, NEW votes, VoterCount(votes) \in 1 .. 3
  PROVE  \E n \in Nat : /\ Moves(ledger, ArbitrationPays(option, votes), n)
                        /\ n <= terms.amount /\ InFull(Outcome(option).type, n)
<1> DEFINE count  == VoterCount(votes)
           share  == ArbitratorShare(terms.amount, count)
           dues   == share * count
           rest   == Rest - dues
           winner == IF option = 1 THEN agent ELSE terms.creator
           split  == FeeSplit(ledger, winner, TRUE)
           paid   == PayVoters(split, votes, share)
<1>1. /\ terms.creator \in Accounts /\ terms.amount \in Nat
      /\ agent \in Accounts /\ winner \in Accounts /\ Routed \in BOOLEAN
  BY TermsTyped DEF Deployed, Routed
<1>2. PICK n \in Nat : /\ Moves(ledger, split, n)
                       /\ Rest \in Nat /\ n + Rest <= terms.amount
                       /\ n + Rest = terms.amount - Skipped(winner)
  <2> HIDE DEF winner
  <2> QED
    BY <1>1, FeeSplitMoves
<1>3. share \in Nat /\ dues <= Rest
  BY <1>1, ArbitratorShareBound DEF Deployed, Rest
<1>4. dues \in Nat
  <2>1. count \in Nat
    OBVIOUS
  <2> HIDE DEF count, share
  <2> QED
    BY <1>3, <2>1, ProductBound
<1>5. Moves(ledger, paid, n + dues)
  <2> HIDE DEF share, split
  <2> QED
    BY <1>2, <1>3, PayVotersMoves
<1>6. /\ rest \in Nat /\ n + dues + rest <= terms.amount
      /\ n + dues + rest = n + Rest
  <2> HIDE DEF dues
  <2> QED
    BY <1>1, <1>2, <1>3, <1>4
<1>7. ArbitrationPays(option, votes)
        = IF option = 3 THEN Halve(paid, rest) ELSE Pay(paid, winner, rest)
  BY DEF ArbitrationPays
<1>8. /\ option = 1 => Outcome(option).type = "PAYOUT" /\ Skipped(winner) = 0
      /\ option # 1 => Skipped(winner) = FeeCreator(terms.amount, PlatformFee)
      /\ option = 2 => Outcome(option).type = "REFUND"
      /\ option = 3 => Outcome(option).type = "SPLIT"
  BY DEF Outcome, Skipped
<1> HIDE DEF paid, rest, winner, dues, split
<1>9. CASE option = 3
  <2>1. PICK k \in Nat : /\ Moves(ledger, Halve(paid, rest), k)
                         /\ k \in {n + dues + rest, n + dues + rest - 1}
    BY <1>1, <1>5, <1>6, HalveMoves
  <2>2. k <= terms.amount
    BY <1>1, <1>2, <1>4, <1>6, <2>1
  <2>3. InFull(Outcome(option).type, k)
    <3> DEFINE royalty == FeeCreator(terms.amount, PlatformFee)
    <3>1. n + dues + rest = terms.amount - royalty
      BY <1>2, <1>6, <1>8, <1>9
    <3>2. k \in {terms.amount - royalty, terms.amount - royalty - 1}
      <4> HIDE DEF royalty
      <4>1. k = n + dues + rest \/ k = (n + dues + rest) - 1
        BY <1>2, <1>4, <1>6, <2>1
      <4> QED
        BY <3>1, <4>1, Zenon
    <3> QED
      BY <1>8, <1>9, <3>2 DEF InFull
  <2> QED
    BY <1>7, <1>9, <2>1, <2>2, <2>3
<1>10. CASE option # 3
  <2>1. Moves(ledger, Pay(paid, winner, rest), n + dues + rest)
    BY <1>1, <1>5, <1>6, MovesPay
  <2>2. n + dues + rest \in Nat
    BY <1>2, <1>4, <1>6
  <2>3. CASE option = 1
    <3>1. n + dues + rest = terms.amount
      BY <1>1, <1>2, <1>6, <1>8, <2>3
    <3>2. InFull(Outcome(option).type, n + dues + rest)
      BY <1>8, <2>3, <3>1 DEF InFull
    <3> QED
      BY <1>6, <1>7, <1>10, <2>1, <2>2, <3>2
  <2>4. CASE option = 2
    <3>1. InFull(Outcome(option).type, n + dues + rest)
      BY <1>2, <1>6, <1>8, <2>4 DEF InFull
    <3> QED
      BY <1>6, <1>7, <1>10, <2>1, <2>2, <3>1
  <2> QED
    BY <1>10, <2>3, <2>4
<1> QED
  BY <1>9, <1>10

-----------------------------------------------------------------------------
(* The pool within the contract.                                           *)

\* Every step of the contract is a step of the pool or leaves it alone, so
\* what is proved of the pool holds of the contract's pool.
THEOREM EscrowRunsPool == Spec => PoolSpec
<1>1. Init => PoolInit
  BY DEF Init
<1>2. [Next]_vars => [PoolNext]_poolVars
  <2> SUFFICES ASSUME [Next]_vars PROVE [PoolNext]_poolVars
    OBVIOUS
  <2>1. CASE Opening
    BY <2>1 DEF Opening, CreateBounty, ClaimBounty, SubmitFirst, SubmitRevision,
                StartReview, RejectWork, SubmitDispute, EscalateToDispute,
                OpenDispute
  <2>2. CASE Deciding
    <3>1. ASSUME NEW type, NEW logged, NEW L, Settle(type, logged, L)
          PROVE  UNCHANGED poolVars
      BY <3>1 DEF Settle
    <3>2. ASSUME NEW s \in Accounts, ApproveWork(s) \/ ClaimAbandoned(s)
          PROVE  UNCHANGED poolVars
      BY <3>1, <3>2 DEF ApproveWork, ClaimAbandoned
    <3>3. ASSUME NEW s \in Accounts, DeleteBounty(s)
          PROVE  UNCHANGED poolVars
      BY <3>3 DEF DeleteBounty
    <3>4. ASSUME NEW s \in Accounts, NEW option \in 1 .. 3, VoteDispute(s, option)
          PROVE  UNCHANGED poolVars
      BY <3>1, <3>4 DEF VoteDispute
    <3>5. ASSUME NEW resolution, ResolveDispute(resolution)
          PROVE  UNCHANGED poolVars
      BY <3>1, <3>5 DEF ResolveDispute
    <3> QED
      BY <2>2, <3>2, <3>3, <3>4, <3>5 DEF Deciding
  <2>3. CASE Expiring
    <3>1. ASSUME NEW type, NEW logged, NEW L, Settle(type, logged, L)
          PROVE  UNCHANGED poolVars
      BY <3>1 DEF Settle
    <3> QED
      BY <2>3, <3>1 DEF Expiring, ExpireClaim, AutoRelease,
                        AutoResolveCreatorWin, TimeoutDispute
  <2>4. CASE Recording
    <3>1. ASSUME NEW a \in Registrants, Registration(a)
          PROVE  PoolNext
      BY <3>1, AddressAssumption DEF Registration, PoolNext
    <3> QED
      BY <2>4, <3>1 DEF Recording, GithubVerify, SetGithubStatus
  <2>5. CASE World
    BY <2>5 DEF World, Tick, Deposit, ToggleOptIn
  <2>6. CASE UNCHANGED vars
    BY <2>6 DEF vars
  <2> QED
    BY <2>1, <2>2, <2>3, <2>4, <2>5, <2>6 DEF Next
<1> QED
  BY <1>1, <1>2, PTL DEF Spec, PoolSpec

\* The pool of the contract is always consistent.
LEMMA EscrowPoolConsistent == Spec => []PoolConsistent
BY EscrowRunsPool, PoolAlwaysConsistent, PTL

\* A panel drawn from a consistent pool consists of accounts.
LEMMA PanelTyped ==
  ASSUME PoolConsistent, NEW treasury \in Accounts, NEW creator, NEW worker,
         NEW start \in 0 .. (IF candidate_count = 0 THEN 0
                                                    ELSE candidate_count - 1)
  PROVE  SelectEvaluators(start, treasury, creator, worker) \in [Seats -> Accounts]
<1> DEFINE one   == RingSearch(start, {creator, worker}, treasury)
           two   == RingSearch(one.stop, {creator, worker, one.seat}, treasury)
           three == RingSearch(two.stop,
                               {creator, worker, one.seat, two.seat}, treasury)
<1>1. \A a, b, c \in Accounts : <<a, b, c>> \in [Seats -> Accounts]
  BY DEF Seats
<1>2. CASE candidate_count = 0
  BY <1>1, <1>2 DEF SelectEvaluators
<1>3. CASE candidate_count # 0
  <2>1. SelectEvaluators(start, treasury, creator, worker)
          = <<one.seat, two.seat, three.seat>>
    BY <1>3 DEF SelectEvaluators
  <2>2. PoolMembers \subseteq Accounts
    BY MembersAreIndexed DEF PoolConsistent
  <2>3. start \in 0 .. candidate_count - 1
    BY <1>3
  <2>4. one.stop \in 0 .. candidate_count - 1 /\ one.seat \in Accounts
    BY <1>3, <2>2, <2>3, RingSearchSound
  <2>5. two.stop \in 0 .. candidate_count - 1 /\ two.seat \in Accounts
    <3> HIDE DEF one
    <3> QED
      BY <1>3, <2>2, <2>4, RingSearchSound
  <2>6. three.seat \in Accounts
    <3> HIDE DEF one, two
    <3> QED
      BY <1>3, <2>2, <2>5, RingSearchSound
  <2> HIDE DEF one, two, three
  <2> QED
    BY <1>1, <2>1, <2>4, <2>5, <2>6
<1> QED
  BY <1>2, <1>3

-----------------------------------------------------------------------------
(* The inductive invariant and the kinds of steps.                         *)

\* create_bounty accepted the fee and the amount.
Priced == state # "NONE" => PlatformFee <= MaxPlatformFee /\ terms.amount > 0

\* AgentAssigned and VotesUndecided are what makes a settlement well typed:
\* its payees are accounts.
IInv == TypeOK /\ AgentAssigned /\ VotesUndecided /\ Priced

\* A call that settles the bounty.
Settled ==
  /\ state \in {"SUBMITTED", "REJECTED", "DISPUTED"} /\ state' = "CLOSED"
  /\ payout_type' \in {"PAYOUT", "REFUND", "SPLIT"}
  /\ state # "DISPUTED" => payout_type' # "SPLIT"
  /\ state = "SUBMITTED" => payout_type' = "PAYOUT"
  /\ settlement_log' \in SettlementLogs
  /\ ledger[App] >= terms.amount /\ ledger'[App] >= 0
  /\ \E n \in Nat : /\ Moves(ledger, ledger', n)
                    /\ n <= terms.amount /\ InFull(payout_type', n)
  /\ vote' \in [Seats -> 0 .. 3]
  /\ \A i \in Seats : vote[i] # 0 => vote'[i] = vote[i]
  /\ UNCHANGED <<terms, agent, phaseVars, worldVars, countVars, github_status,
                 evaluator>>

\* A call that opens a dispute.
Disputed ==
  /\ state \in {"SUBMITTED", "REJECTED"} /\ state' = "DISPUTED"
  /\ evaluator' \in [Seats -> Accounts]
  /\ vote' = [i \in Seats |-> 0]
  /\ dispute_timestamp' = now
  /\ UNCHANGED <<terms, agent, claim_deadline, review_deadline,
                 last_rejection_timestamp, moneyVars, worldVars, countVars,
                 github_status>>

\* A vote that decides nothing yet.
Voted ==
  /\ state = "DISPUTED"
  /\ vote' \in [Seats -> 0 .. 3] /\ Consensus(vote') = 0
  /\ \A i \in Seats : vote[i] # 0 => vote'[i] = vote[i]
  /\ UNCHANGED <<state, terms, agent, phaseVars, moneyVars, worldVars,
                 countVars, github_status, evaluator>>

\* A step that leaves the bounty's own boxes alone: the gateway's record, the
\* pool, a deposit, an opt-in, the clock, or nothing.
Aside ==
  /\ UNCHANGED <<state, terms, agent, phaseVars, panelVars, payout_type,
                 settlement_log, countVars>>
  /\ now' \in Nat /\ now' >= now
  /\ opted_in' \subseteq Accounts
  /\ github_status' \in {"", "pending", "pass", "fail"}
  /\ ledger' \in [Accounts \cup {App} -> Nat]
  /\ \A a \in Accounts : ledger'[a] = ledger[a]
  /\ ledger'[App] >= ledger[App]
  /\ state = "DELETED" => ledger' = ledger

\* In a state that a settlement can start from, the payees are accounts.
LEMMA SettlersDeployed ==
  ASSUME IInv, state \in {"SUBMITTED", "REJECTED", "DISPUTED"}
  PROVE  Deployed
<1>1. terms \in Terms /\ agent \in Accounts
  BY DEF IInv, AgentAssigned, Engaged
<1>2. PlatformFee \in 0 .. MaxPlatformFee
  BY NumberAssumption DEF IInv, Priced, MaxPlatformFee
<1>3. ledger \in Ledgers
  <2>1. ledger \in [Accounts \cup {App} -> Nat]
    BY DEF IInv, TypeOK
  <2> QED
    BY <2>1 DEF Ledgers
<1> QED
  BY <1>1, <1>2, <1>3 DEF Deployed

\* Three votes have a decision between 0, none yet, and 3, a split; none can
\* be missing from a decision but one.
LEMMA ConsensusTyped ==
  ASSUME NEW votes \in [Seats -> 0 .. 3]
  PROVE  /\ Consensus(votes) \in 0 .. 3
         /\ Consensus(votes) # 0 => VoterCount(votes) \in 1 .. 3
<1>1. votes[1] \in 0 .. 3 /\ votes[2] \in 0 .. 3 /\ votes[3] \in 0 .. 3
  BY DEF Seats
<1>2. Consensus(votes) \in 0 .. 3
  BY <1>1 DEF Consensus
<1>3. ASSUME Consensus(votes) # 0 PROVE VoterCount(votes) \in 1 .. 3
  BY <1>1, <1>3 DEF Consensus, VoterCount, Seats
<1> QED
  BY <1>2, <1>3

\* Votes that decide nothing leave a seat open, and no two of them agree.
LEMMA UndecidedVotes ==
  ASSUME NEW votes \in [Seats -> 0 .. 3], Consensus(votes) = 0
  PROVE  /\ \E i \in Seats : votes[i] = 0
         /\ \A i, j \in Seats : i # j /\ votes[i] # 0 => votes[i] # votes[j]
<1>1. votes[1] \in 0 .. 3 /\ votes[2] \in 0 .. 3 /\ votes[3] \in 0 .. 3
  BY DEF Seats
<1> QED
  BY <1>1 DEF Consensus, Seats

\* The common part of the settling methods, around payments that move the
\* escrow amount in full.
LEMMA SettleSettles ==
  ASSUME IInv, state \in {"SUBMITTED", "REJECTED", "DISPUTED"},
         NEW type \in {"PAYOUT", "REFUND", "SPLIT"}, NEW logged \in SettlementLogs,
         state # "DISPUTED" => type # "SPLIT",
         state = "SUBMITTED" => type = "PAYOUT",
         NEW L, Settle(type, logged, L),
         \E n \in Nat : /\ Moves(ledger, L, n)
                        /\ n <= terms.amount /\ InFull(type, n),
         vote' \in [Seats -> 0 .. 3],
         \A i \in Seats : vote[i] # 0 => vote'[i] = vote[i],
         UNCHANGED evaluator
  PROVE  Settled
<1>1. /\ state' = "CLOSED" /\ payout_type' = type /\ settlement_log' = logged
      /\ ledger' = L /\ ledger[App] >= terms.amount
      /\ UNCHANGED <<terms, agent, phaseVars, worldVars, countVars,
                     github_status>>
  BY DEF Settle, Close
<1>2. L[App] \in Int
  BY DEF Moves, Ledgers
<1>3. L[App] >= 0
  BY <1>2, NumberAssumption DEF Settle, Transferable
<1> QED
  BY <1>1, <1>3 DEF Settled

\* The methods that settle without votes.
LEMMA MethodsSettle ==
  ASSUME IInv, NEW s \in Accounts,
         \/ ApproveWork(s) \/ AutoRelease \/ ClaimAbandoned(s)
         \/ \E resolution \in {"agent_win", "creator_win"} :
              ResolveDispute(resolution)
         \/ AutoResolveCreatorWin \/ TimeoutDispute
  PROVE  Settled
<1>1. vote \in [Seats -> 0 .. 3]
  BY DEF IInv, TypeOK
<1>2. state \in {"SUBMITTED", "REJECTED", "DISPUTED"}
  BY DEF ApproveWork, AutoRelease, ClaimAbandoned, ResolveDispute,
         AutoResolveCreatorWin, AutoResolvable, TimeoutDispute
<1>3. Deployed
  BY <1>2, SettlersDeployed
<1>4. terms.creator \in Accounts /\ agent \in Accounts
  BY <1>3, TermsTyped DEF Deployed
<1>5. vote' = vote /\ evaluator' = evaluator
  BY DEF ApproveWork, AutoRelease, ClaimAbandoned, ResolveDispute,
         AutoResolveCreatorWin, TimeoutDispute, panelVars
<1>6. ASSUME NEW type \in {"PAYOUT", "REFUND"}, NEW logged \in SettlementLogs,
             NEW winner \in Accounts, NEW is_dispute \in BOOLEAN,
             Settle(type, logged, WinnerTakes(winner, is_dispute)),
             winner = IF type = "PAYOUT" THEN agent ELSE terms.creator,
             state = "SUBMITTED" => type = "PAYOUT"
      PROVE  Settled
  <2>1. PICK n \in Nat : /\ Moves(ledger, WinnerTakes(winner, is_dispute), n)
                         /\ n <= terms.amount
                         /\ n = terms.amount - Skipped(winner)
    BY <1>3, WinnerTakesMoves
  <2>2. terms.amount \in Nat /\ agent # terms.creator
    BY <1>2, <1>3, TermsTyped DEF Deployed, IInv, AgentAssigned, Engaged
  <2>3. InFull(type, n)
    <3>1. CASE type = "PAYOUT"
      <4>1. n = terms.amount
        BY <1>6, <2>1, <2>2, <3>1 DEF Skipped
      <4> QED
        BY <3>1, <4>1 DEF InFull
    <3>2. CASE type = "REFUND"
      BY <1>6, <2>1, <3>2 DEF InFull, Skipped
    <3> QED
      BY <3>1, <3>2
  <2> QED
    BY <1>1, <1>2, <1>5, <1>6, <2>1, <2>3, SettleSettles
<1>7. CASE ApproveWork(s)
  <2>1. Settle("PAYOUT", "work_approved", WinnerTakes(agent, FALSE))
    BY <1>7 DEF ApproveWork
  <2> QED
    BY <1>4, <1>6, <2>1 DEF SettlementLogs
<1>8. CASE AutoRelease
  <2>1. Settle("PAYOUT", "auto_released_hitm", WinnerTakes(agent, FALSE))
    BY <1>8 DEF AutoRelease
  <2> QED
    BY <1>4, <1>6, <2>1 DEF SettlementLogs
<1>9. CASE ClaimAbandoned(s)
  <2>1. /\ state # "SUBMITTED"
        /\ Settle("REFUND", "abandoned_refunded_creator",
                  WinnerTakes(terms.creator, FALSE))
    BY <1>9 DEF ClaimAbandoned
  <2> QED
    BY <1>4, <1>6, <2>1 DEF SettlementLogs
<1>10. CASE \E resolution \in {"agent_win", "creator_win"} :
              ResolveDispute(resolution)
  <2>1. state # "SUBMITTED"
    BY <1>10 DEF ResolveDispute
  <2>2. CASE Settle("PAYOUT", "dispute_resolved_agent_win",
                    WinnerTakes(agent, TRUE))
    BY <1>4, <1>6, <2>1, <2>2 DEF SettlementLogs
  <2>3. CASE Settle("REFUND", "dispute_resolved_creator_win",
                    WinnerTakes(terms.creator, TRUE))
    BY <1>4, <1>6, <2>1, <2>3 DEF SettlementLogs
  <2> QED
    BY <1>10, <2>2, <2>3 DEF ResolveDispute
<1>11. CASE AutoResolveCreatorWin
  <2>1. /\ state # "SUBMITTED"
        /\ Settle("REFUND", "dispute_auto_resolved_creator_win",
                  WinnerTakes(terms.creator, TRUE))
    BY <1>11 DEF AutoResolveCreatorWin, AutoResolvable
  <2> QED
    BY <1>4, <1>6, <2>1 DEF SettlementLogs
<1>12. CASE TimeoutDispute
  <2>1. Settle("SPLIT", "dispute_timeout_split",
               Halve(FeeSplit(ledger, terms.creator, TRUE), Rest))
    BY <1>12 DEF TimeoutDispute
  <2>2. state = "DISPUTED"
    BY <1>12 DEF TimeoutDispute
  <2> QED
    BY <1>1, <1>2, <1>3, <1>5, <2>1, <2>2, TimeoutMoves, SettleSettles
       DEF SettlementLogs
<1> QED
  BY <1>7, <1>8, <1>9, <1>10, <1>11, <1>12

\* A vote takes a free seat; it settles the bounty or decides nothing yet.
LEMMA VoteKinds ==
  ASSUME IInv, NEW s \in Accounts, NEW option \in 1 .. 3,
         VoteDispute(s, option)
  PROVE  Settled \/ Voted
<1>1. state = "DISPUTED" /\ evaluator' = evaluator
  BY DEF VoteDispute
<1>2. PICK i \in PendingSeats(s) : vote' = [vote EXCEPT ![i] = option]
  BY DEF VoteDispute
<1>3. i \in Seats /\ vote[i] = 0
  BY DEF PendingSeats
<1>4. vote \in [Seats -> 0 .. 3]
  BY DEF IInv, TypeOK
<1>5. /\ vote' \in [Seats -> 0 .. 3]
      /\ \A j \in Seats : vote[j] # 0 => vote'[j] = vote[j]
  BY <1>2, <1>3, <1>4
<1>6. CASE Consensus(vote') = 0
  BY <1>1, <1>5, <1>6 DEF VoteDispute, Voted
<1>7. CASE Consensus(vote') # 0
  <2> DEFINE decided == Consensus(vote')
             L == ArbitrationPays(decided, vote')
  <2>1. decided \in 1 .. 3 /\ VoterCount(vote') \in 1 .. 3
    BY <1>5, <1>7, ConsensusTyped
  <2>2. /\ Outcome(decided).type \in {"PAYOUT", "REFUND", "SPLIT"}
        /\ Outcome(decided).log \in SettlementLogs
    <3> HIDE DEF decided
    <3> QED
      BY <2>1 DEF Outcome, SettlementLogs
  <2>3. Settle(Outcome(decided).type, Outcome(decided).log, L)
    BY <1>7 DEF VoteDispute
  <2>4. Deployed /\ evaluator \in [Seats -> Accounts]
    BY <1>1, SettlersDeployed DEF IInv, VotesUndecided
  <2>5. \E n \in Nat : /\ Moves(ledger, L, n)
                       /\ n <= terms.amount /\ InFull(Outcome(decided).type, n)
    <3>1. agent # terms.creator
      BY <1>1 DEF IInv, AgentAssigned, Engaged
    <3> HIDE DEF decided
    <3> QED
      BY <2>1, <2>4, <3>1, ArbitrationMoves
  <2> HIDE DEF decided, L
  <2> QED
    BY <1>1, <1>5, <2>2, <2>3, <2>5, SettleSettles
<1> QED
  BY <1>6, <1>7

\* Opening a dispute seats three accounts, with no votes.
LEMMA DisputesOpen ==
  ASSUME IInv, PoolConsistent, NEW s \in Accounts,
         SubmitDispute(s) \/ EscalateToDispute(s)
  PROVE  Disputed
<1>1. OpenDispute /\ state \in {"SUBMITTED", "REJECTED"}
  BY DEF SubmitDispute, EscalateToDispute
<1>2. terms.treasury \in Accounts
  BY <1>1, SettlersDeployed, TermsTyped DEF Deployed
<1>3. evaluator' \in [Seats -> Accounts]
  BY <1>1, <1>2, PanelTyped DEF OpenDispute
<1> QED
  BY <1>1, <1>3 DEF OpenDispute, Disputed

\* The remaining calls and the world's steps leave the bounty's boxes alone.
LEMMA StepsAside ==
  ASSUME IInv, Recording \/ World \/ UNCHANGED vars
  PROVE  Aside
<1> DEFINE Same == UNCHANGED <<state, terms, agent, phaseVars, panelVars,
                               payout_type, settlement_log, countVars>>
<1>1. /\ now \in Nat /\ opted_in \subseteq Accounts
      /\ github_status \in {"", "pending", "pass", "fail"}
      /\ ledger \in [Accounts \cup {App} -> Nat]
  BY DEF IInv, TypeOK
<1>2. ledger[App] \in Nat /\ ledger[App] >= ledger[App] /\ now >= now
  <2>1. now \in Nat
    BY <1>1
  <2>2. ledger[App] \in Nat
    BY <1>1
  <2> QED
    BY <2>1, <2>2
<1>3. CASE Recording
  <2>1. Same /\ UNCHANGED <<ledger, worldVars>>
    BY <1>3 DEF Recording, GithubVerify, SetGithubStatus, Registration, moneyVars
  <2>2. github_status' \in {"", "pending", "pass", "fail"}
    BY <1>1, <1>3 DEF Recording, GithubVerify, SetGithubStatus, Registration
  <2> QED
    BY <1>1, <1>2, <2>1, <2>2 DEF Aside, worldVars
<1>4. CASE Tick
  <2>1. Same /\ UNCHANGED <<ledger, opted_in, github_status>>
    BY <1>4 DEF Tick, moneyVars
  <2>2. now' \in Nat /\ now' >= now
    <3>1. now \in Nat /\ now' = now + 1
      BY <1>1, <1>4 DEF Tick
    <3> QED
      BY <3>1
  <2> QED
    BY <1>1, <1>2, <2>1, <2>2 DEF Aside
<1>5. ASSUME NEW amount \in Deposits, Deposit(amount)
      PROVE  Aside
  <2>1. Same /\ UNCHANGED <<worldVars, github_status>> /\ state # "DELETED"
    BY <1>5 DEF Deposit
  <2>2. amount \in Nat /\ ledger' = [ledger EXCEPT ![App] = @ + amount]
    BY <1>5, NumberAssumption DEF Deposit
  <2>3. /\ ledger' \in [Accounts \cup {App} -> Nat]
        /\ \A a \in Accounts : ledger'[a] = ledger[a]
        /\ ledger'[App] >= ledger[App]
    <3>1. ledger[App] + amount \in Nat /\ ledger[App] + amount >= ledger[App]
      BY <1>2, <2>2
    <3>2. App \notin Accounts
      BY AddressAssumption
    <3> QED
      BY <1>1, <2>2, <3>1, <3>2
  <2> QED
    BY <1>1, <1>2, <2>1, <2>3 DEF Aside, worldVars
<1>6. ASSUME NEW a \in Accounts, ToggleOptIn(a)
      PROVE  Aside
  <2>1. Same /\ UNCHANGED <<ledger, now, github_status>>
    BY <1>6 DEF ToggleOptIn, moneyVars
  <2>2. opted_in' \subseteq Accounts
    BY <1>1, <1>6 DEF ToggleOptIn
  <2> QED
    BY <1>1, <1>2, <2>1, <2>2 DEF Aside
<1>7. CASE UNCHANGED vars
  BY <1>1, <1>7, <1>2 DEF vars, worldVars, moneyVars, Aside
<1> QED
  BY <1>3, <1>4, <1>5, <1>6, <1>7 DEF World

\* Every step is of one of the kinds above or one of the calls that open a
\* phase without paying anybody.
LEMMA StepKinds ==
  ASSUME IInv, PoolConsistent, [Next]_vars
  PROVE  \/ \E d \in Deployments : CreateBounty(d)
         \/ \E s \in Accounts : \/ ClaimBounty(s) \/ SubmitFirst(s)
                                \/ SubmitRevision(s) \/ RejectWork(s)
                                \/ DeleteBounty(s)
         \/ ExpireClaim
         \/ Disputed \/ Voted \/ Settled \/ Aside
<1>1. CASE Opening
  BY <1>1, DisputesOpen DEF Opening
<1>2. CASE Deciding
  <2>1. ASSUME NEW s \in Accounts, ApproveWork(s) \/ ClaimAbandoned(s)
        PROVE  Settled
    BY <2>1, MethodsSettle
  <2>2. ASSUME NEW s \in Accounts, NEW option \in 1 .. 3, VoteDispute(s, option)
        PROVE  Settled \/ Voted
    BY <2>2, VoteKinds
  <2>3. ASSUME NEW resolution \in {"agent_win", "creator_win"},
               ResolveDispute(resolution)
        PROVE  Settled
    <3>1. terms.treasury \in Accounts
      BY <2>3, SettlersDeployed, TermsTyped DEF ResolveDispute, Deployed
    <3> QED
      BY <2>3, <3>1, MethodsSettle
  <2> QED
    BY <1>2, <2>1, <2>2, <2>3 DEF Deciding
<1>3. CASE Expiring
  <2>1. ASSUME AutoRelease \/ AutoResolveCreatorWin \/ TimeoutDispute
        PROVE  Settled
    <3>1. terms.treasury \in Accounts
      BY <2>1, SettlersDeployed, TermsTyped
         DEF AutoRelease, AutoResolveCreatorWin, AutoResolvable, TimeoutDispute,
             Deployed
    <3> QED
      BY <2>1, <3>1, MethodsSettle
  <2> QED
    BY <1>3, <2>1 DEF Expiring
<1>4. CASE Recording \/ World \/ UNCHANGED vars
  BY <1>4, StepsAside
<1> QED
  BY <1>1, <1>2, <1>3, <1>4 DEF Next

-----------------------------------------------------------------------------
(* The invariant.                                                          *)

\* Every step preserves the inductive invariant.
LEMMA IInvStep ==
  ASSUME IInv, PoolConsistent, [Next]_vars
  PROVE  IInv'
<1> USE DEF IInv
<1>1. ASSUME NEW d \in Deployments, CreateBounty(d)
      PROVE  IInv'
  <2>1. terms' \in Terms /\ terms'.amount > 0
    <3>1. d \in Terms /\ d.amount > 0 /\ terms' = BountyTerms(d)
      BY <1>1, DeploymentAssumption DEF CreateBounty
    <3> QED
      BY <3>1 DEF BountyTerms, Terms
  <2>2. state' \in States /\ terms' \in Terms \cup {NoTerms} /\ agent' \in Roles
    BY <1>1, <2>1 DEF TypeOK, States, Roles, CreateBounty
  <2>3. /\ claim_deadline' \in Nat /\ review_deadline' \in Nat
        /\ last_rejection_timestamp' \in Nat /\ dispute_timestamp' \in Nat
        /\ rejection_count' \in Nat /\ rejections' \in Nat
        /\ now' \in Nat
    BY <1>1 DEF TypeOK, CreateBounty, moneyVars, worldVars, countVars, phaseVars, panelVars
  <2>4. /\ evaluator' \in [Seats -> Roles] /\ vote' \in [Seats -> 0 .. 3]
        /\ opted_in' \subseteq Accounts
    BY <1>1 DEF TypeOK, CreateBounty, moneyVars, worldVars, countVars, phaseVars, panelVars
  <2>5. /\ payout_type' \in {"", "PAYOUT", "REFUND", "SPLIT"}
        /\ github_status' \in {"", "pending", "pass", "fail"}
        /\ settlement_log' \in SettlementLogs \cup {""}
    BY <1>1 DEF TypeOK, CreateBounty, moneyVars, worldVars, countVars, phaseVars, panelVars
  <2>6. ledger' \in [Accounts \cup {App} -> Nat]
    BY <1>1 DEF TypeOK, CreateBounty, moneyVars, worldVars, countVars, phaseVars, panelVars
  <2>7. TypeOK'
    BY <2>2, <2>3, <2>4, <2>5, <2>6 DEF TypeOK
  <2>8. AgentAssigned'
    BY <1>1, <2>1 DEF AgentAssigned, Engaged, CreateBounty
  <2>9. VotesUndecided'
    BY <1>1 DEF VotesUndecided, CreateBounty, panelVars
  <2>10. Priced'
    BY <1>1, <2>1 DEF Priced, CreateBounty
  <2> QED
    BY <2>7, <2>8, <2>9, <2>10 DEF IInv
<1>2. ASSUME NEW s \in Accounts, ClaimBounty(s)
      PROVE  IInv'
  <2>1. state' \in States /\ terms' \in Terms \cup {NoTerms} /\ agent' \in Roles
    BY <1>2 DEF TypeOK, States, Roles, ClaimBounty
  <2>2. /\ claim_deadline' \in Nat /\ review_deadline' \in Nat
        /\ last_rejection_timestamp' \in Nat /\ dispute_timestamp' \in Nat
        /\ rejection_count' \in Nat /\ rejections' \in Nat
        /\ now' \in Nat
    <3>1. now \in Nat
      BY DEF TypeOK
    <3>2. now + ClaimTimeout \in Nat
      BY <3>1, NumberAssumption
    <3> QED
      BY <1>2, <3>1, <3>2 DEF TypeOK, ClaimBounty, worldVars, countVars
  <2>3. /\ evaluator' \in [Seats -> Roles] /\ vote' \in [Seats -> 0 .. 3]
        /\ opted_in' \subseteq Accounts
    BY <1>2 DEF TypeOK, ClaimBounty, moneyVars, worldVars, countVars, panelVars
  <2>4. /\ payout_type' \in {"", "PAYOUT", "REFUND", "SPLIT"}
        /\ github_status' \in {"", "pending", "pass", "fail"}
        /\ settlement_log' \in SettlementLogs \cup {""}
    BY <1>2 DEF TypeOK, ClaimBounty, moneyVars, worldVars, countVars, panelVars
  <2>5. ledger' \in [Accounts \cup {App} -> Nat]
    BY <1>2 DEF TypeOK, ClaimBounty, moneyVars, worldVars, countVars, panelVars
  <2>6. TypeOK'
    BY <2>1, <2>2, <2>3, <2>4, <2>5 DEF TypeOK
  <2>7. AgentAssigned'
    BY <1>2, <2>6 DEF AgentAssigned, Engaged, ClaimBounty
  <2>8. VotesUndecided'
    BY <1>2 DEF VotesUndecided, ClaimBounty, panelVars
  <2>9. Priced'
    BY <1>2 DEF Priced, ClaimBounty
  <2> QED
    BY <2>6, <2>7, <2>8, <2>9 DEF IInv
<1>3. ASSUME NEW s \in Accounts, SubmitFirst(s) \/ SubmitRevision(s)
      PROVE  IInv'
  <2>1. state' \in States /\ terms' \in Terms \cup {NoTerms} /\ agent' \in Roles
    BY <1>3 DEF TypeOK, States, Roles, SubmitFirst, SubmitRevision, StartReview
  <2>2. /\ claim_deadline' \in Nat /\ review_deadline' \in Nat
        /\ last_rejection_timestamp' \in Nat /\ dispute_timestamp' \in Nat
        /\ rejection_count' \in Nat /\ rejections' \in Nat
        /\ now' \in Nat
    <3>1. /\ now \in Nat /\ claim_deadline \in Nat /\ review_deadline \in Nat
          /\ last_rejection_timestamp \in Nat /\ dispute_timestamp \in Nat
          /\ rejection_count \in Nat /\ rejections \in Nat
      BY DEF TypeOK
    <3>2. ReviewDeadline \in Nat
      <4>1. terms \in Terms
        BY <1>3 DEF AgentAssigned, SubmitFirst, SubmitRevision
      <4>2. terms.review_days * Day \in Nat
        BY <4>1, TermsTyped, ProductBound, NumberAssumption
      <4> QED
        BY <3>1, <4>2 DEF ReviewDeadline
    <3>3. review_deadline' \in Nat
      BY <1>3, <3>1, <3>2 DEF SubmitFirst, SubmitRevision, StartReview
    <3>4. rejection_count' \in Nat
      BY <1>3, <3>1 DEF SubmitFirst, SubmitRevision, CountRevision, countVars
    <3>5. UNCHANGED <<claim_deadline, last_rejection_timestamp,
                      dispute_timestamp, rejections, now>>
      BY <1>3 DEF SubmitFirst, SubmitRevision, StartReview, worldVars, countVars
    <3> QED
      BY <3>1, <3>3, <3>4, <3>5
  <2>3. /\ evaluator' \in [Seats -> Roles] /\ vote' \in [Seats -> 0 .. 3]
        /\ opted_in' \subseteq Accounts
    BY <1>3 DEF TypeOK, SubmitFirst, SubmitRevision, StartReview, ReviewDeadline, CountRevision, moneyVars, worldVars, countVars, panelVars
  <2>4. /\ payout_type' \in {"", "PAYOUT", "REFUND", "SPLIT"}
        /\ github_status' \in {"", "pending", "pass", "fail"}
        /\ settlement_log' \in SettlementLogs \cup {""}
    BY <1>3 DEF TypeOK, SubmitFirst, SubmitRevision, StartReview, ReviewDeadline, CountRevision, moneyVars, worldVars, countVars, panelVars
  <2>5. ledger' \in [Accounts \cup {App} -> Nat]
    BY <1>3 DEF TypeOK, SubmitFirst, SubmitRevision, StartReview, ReviewDeadline, CountRevision, moneyVars, worldVars, countVars, panelVars
  <2>6. TypeOK'
    BY <2>1, <2>2, <2>3, <2>4, <2>5 DEF TypeOK
  <2>7. AgentAssigned'
    BY <1>3, <2>6 DEF AgentAssigned, Engaged, SubmitFirst, SubmitRevision, StartReview
  <2>8. VotesUndecided'
    BY <1>3 DEF VotesUndecided, SubmitFirst, SubmitRevision, StartReview, panelVars
  <2>9. Priced'
    BY <1>3 DEF Priced, SubmitFirst, SubmitRevision, StartReview
  <2> QED
    BY <2>6, <2>7, <2>8, <2>9 DEF IInv
<1>4. ASSUME NEW s \in Accounts, RejectWork(s)
      PROVE  IInv'
  <2>1. state' \in States /\ terms' \in Terms \cup {NoTerms} /\ agent' \in Roles
    BY <1>4 DEF TypeOK, States, Roles, RejectWork
  <2>2. /\ claim_deadline' \in Nat /\ review_deadline' \in Nat
        /\ last_rejection_timestamp' \in Nat /\ dispute_timestamp' \in Nat
        /\ rejection_count' \in Nat /\ rejections' \in Nat
        /\ now' \in Nat
    <3>1. now \in Nat /\ rejection_count \in Nat /\ rejections \in Nat
      BY DEF TypeOK
    <3>2. rejection_count + 1 \in Nat /\ rejections + 1 \in Nat
      BY <3>1
    <3> QED
      BY <1>4, <3>1, <3>2 DEF TypeOK, RejectWork, worldVars
  <2>3. /\ evaluator' \in [Seats -> Roles] /\ vote' \in [Seats -> 0 .. 3]
        /\ opted_in' \subseteq Accounts
    BY <1>4 DEF TypeOK, RejectWork, moneyVars, worldVars, countVars, panelVars
  <2>4. /\ payout_type' \in {"", "PAYOUT", "REFUND", "SPLIT"}
        /\ github_status' \in {"", "pending", "pass", "fail"}
        /\ settlement_log' \in SettlementLogs \cup {""}
    BY <1>4 DEF TypeOK, RejectWork, moneyVars, worldVars, countVars, panelVars
  <2>5. ledger' \in [Accounts \cup {App} -> Nat]
    BY <1>4 DEF TypeOK, RejectWork, moneyVars, worldVars, countVars, panelVars
  <2>6. TypeOK'
    BY <2>1, <2>2, <2>3, <2>4, <2>5 DEF TypeOK
  <2>7. AgentAssigned'
    BY <1>4, <2>6 DEF AgentAssigned, Engaged, RejectWork
  <2>8. VotesUndecided'
    BY <1>4 DEF VotesUndecided, RejectWork, panelVars
  <2>9. Priced'
    BY <1>4 DEF Priced, RejectWork
  <2> QED
    BY <2>6, <2>7, <2>8, <2>9 DEF IInv
<1>5. ASSUME NEW s \in Accounts, DeleteBounty(s)
      PROVE  IInv'
  <2>1. state' \in States /\ terms' \in Terms \cup {NoTerms} /\ agent' \in Roles
    BY <1>5 DEF TypeOK, States, Roles, DeleteBounty
  <2>2. /\ claim_deadline' \in Nat /\ review_deadline' \in Nat
        /\ last_rejection_timestamp' \in Nat /\ dispute_timestamp' \in Nat
        /\ rejection_count' \in Nat /\ rejections' \in Nat
        /\ now' \in Nat
    BY <1>5 DEF TypeOK, DeleteBounty, phaseVars, worldVars, countVars, panelVars
  <2>3. /\ evaluator' \in [Seats -> Roles] /\ vote' \in [Seats -> 0 .. 3]
        /\ opted_in' \subseteq Accounts
    BY <1>5 DEF TypeOK, DeleteBounty, phaseVars, worldVars, countVars, panelVars
  <2>4. /\ payout_type' \in {"", "PAYOUT", "REFUND", "SPLIT"}
        /\ github_status' \in {"", "pending", "pass", "fail"}
        /\ settlement_log' \in SettlementLogs \cup {""}
    BY <1>5 DEF TypeOK, DeleteBounty, phaseVars, worldVars, countVars, panelVars
  <2>5. ledger' \in [Accounts \cup {App} -> Nat]
    <3>1. terms.creator \in Accounts
      BY <1>5, TermsTyped DEF AgentAssigned, DeleteBounty
    <3>2. ledger \in [Accounts \cup {App} -> Nat]
      BY DEF TypeOK
    <3>3. ledger[App] - ledger[App] \in Nat
      BY <3>2
    <3>4. ledger[terms.creator] + ledger[App] \in Nat
      BY <3>1, <3>2
    <3>5. App # terms.creator
      BY <3>1, AddressAssumption
    <3>6. ledger' = [ledger EXCEPT ![App] = @ - ledger[App],
                                   ![terms.creator] = @ + ledger[App]]
      BY <1>5 DEF DeleteBounty, Pay
    <3> QED
      BY <3>2, <3>3, <3>4, <3>5, <3>6
  <2>6. TypeOK'
    BY <2>1, <2>2, <2>3, <2>4, <2>5 DEF TypeOK
  <2>7. AgentAssigned'
    BY <1>5, <2>6 DEF AgentAssigned, Engaged, DeleteBounty
  <2>8. VotesUndecided'
    BY <1>5 DEF VotesUndecided, DeleteBounty, panelVars
  <2>9. Priced'
    BY <1>5 DEF Priced, DeleteBounty
  <2> QED
    BY <2>6, <2>7, <2>8, <2>9 DEF IInv
<1>6. CASE ExpireClaim
  <2>1. state' \in States /\ terms' \in Terms \cup {NoTerms} /\ agent' \in Roles
    BY <1>6 DEF TypeOK, States, Roles, ExpireClaim, Expirable, Reopen
  <2>2. /\ claim_deadline' \in Nat /\ review_deadline' \in Nat
        /\ last_rejection_timestamp' \in Nat /\ dispute_timestamp' \in Nat
        /\ rejection_count' \in Nat /\ rejections' \in Nat
        /\ now' \in Nat
    BY <1>6 DEF TypeOK, ExpireClaim, Expirable, Reopen, phaseVars, moneyVars, worldVars, panelVars
  <2>3. /\ evaluator' \in [Seats -> Roles] /\ vote' \in [Seats -> 0 .. 3]
        /\ opted_in' \subseteq Accounts
    BY <1>6 DEF TypeOK, ExpireClaim, Expirable, Reopen, phaseVars, moneyVars, worldVars, panelVars
  <2>4. /\ payout_type' \in {"", "PAYOUT", "REFUND", "SPLIT"}
        /\ github_status' \in {"", "pending", "pass", "fail"}
        /\ settlement_log' \in SettlementLogs \cup {""}
    BY <1>6 DEF TypeOK, ExpireClaim, Expirable, Reopen, phaseVars, moneyVars, worldVars, panelVars
  <2>5. ledger' \in [Accounts \cup {App} -> Nat]
    BY <1>6 DEF TypeOK, ExpireClaim, Expirable, Reopen, phaseVars, moneyVars, worldVars, panelVars
  <2>6. TypeOK'
    BY <2>1, <2>2, <2>3, <2>4, <2>5 DEF TypeOK
  <2>7. AgentAssigned'
    BY <1>6, <2>6 DEF AgentAssigned, Engaged, ExpireClaim, Expirable, Reopen
  <2>8. VotesUndecided'
    BY <1>6 DEF VotesUndecided, ExpireClaim, Expirable, Reopen, panelVars
  <2>9. Priced'
    BY <1>6 DEF Priced, ExpireClaim, Expirable, Reopen
  <2> QED
    BY <2>6, <2>7, <2>8, <2>9 DEF IInv
<1>7. CASE Disputed
  <2>1. state' \in States /\ terms' \in Terms \cup {NoTerms} /\ agent' \in Roles
    BY <1>7 DEF TypeOK, States, Roles, Disputed
  <2>2. /\ claim_deadline' \in Nat /\ review_deadline' \in Nat
        /\ last_rejection_timestamp' \in Nat /\ dispute_timestamp' \in Nat
        /\ rejection_count' \in Nat /\ rejections' \in Nat
        /\ now' \in Nat
    BY <1>7 DEF TypeOK, Disputed, moneyVars, worldVars, countVars
  <2>3. /\ evaluator' \in [Seats -> Roles] /\ vote' \in [Seats -> 0 .. 3]
        /\ opted_in' \subseteq Accounts
    <3>1. /\ evaluator' \in [Seats -> Accounts] /\ vote' = [i \in Seats |-> 0]
          /\ opted_in' = opted_in
      BY <1>7 DEF Disputed, worldVars
    <3>2. opted_in \subseteq Accounts
      BY DEF TypeOK
    <3> QED
      BY <3>1, <3>2 DEF Roles
  <2>4. /\ payout_type' \in {"", "PAYOUT", "REFUND", "SPLIT"}
        /\ github_status' \in {"", "pending", "pass", "fail"}
        /\ settlement_log' \in SettlementLogs \cup {""}
    BY <1>7 DEF TypeOK, Disputed, moneyVars, worldVars, countVars
  <2>5. ledger' \in [Accounts \cup {App} -> Nat]
    BY <1>7 DEF TypeOK, Disputed, moneyVars, worldVars, countVars
  <2>6. TypeOK'
    BY <2>1, <2>2, <2>3, <2>4, <2>5 DEF TypeOK
  <2>7. AgentAssigned'
    BY <1>7, <2>6 DEF AgentAssigned, Engaged, Disputed
  <2>8. VotesUndecided'
    <3>1. /\ evaluator' \in [Seats -> Accounts] /\ vote' = [i \in Seats |-> 0]
          /\ state' = "DISPUTED"
      BY <1>7 DEF Disputed
    <3>2. \A i \in Seats : vote'[i] = 0
      BY <3>1
    <3> QED
      BY <3>1, <3>2 DEF VotesUndecided, Seats
  <2>9. Priced'
    BY <1>7 DEF Priced, Disputed
  <2> QED
    BY <2>6, <2>7, <2>8, <2>9 DEF IInv
<1>8. CASE Voted
  <2>1. state' \in States /\ terms' \in Terms \cup {NoTerms} /\ agent' \in Roles
    BY <1>8 DEF TypeOK, States, Roles, Voted
  <2>2. /\ claim_deadline' \in Nat /\ review_deadline' \in Nat
        /\ last_rejection_timestamp' \in Nat /\ dispute_timestamp' \in Nat
        /\ rejection_count' \in Nat /\ rejections' \in Nat
        /\ now' \in Nat
    BY <1>8 DEF TypeOK, Voted, phaseVars, moneyVars, worldVars, countVars
  <2>3. /\ evaluator' \in [Seats -> Roles] /\ vote' \in [Seats -> 0 .. 3]
        /\ opted_in' \subseteq Accounts
    BY <1>8 DEF TypeOK, Voted, phaseVars, moneyVars, worldVars, countVars
  <2>4. /\ payout_type' \in {"", "PAYOUT", "REFUND", "SPLIT"}
        /\ github_status' \in {"", "pending", "pass", "fail"}
        /\ settlement_log' \in SettlementLogs \cup {""}
    BY <1>8 DEF TypeOK, Voted, phaseVars, moneyVars, worldVars, countVars
  <2>5. ledger' \in [Accounts \cup {App} -> Nat]
    BY <1>8 DEF TypeOK, Voted, phaseVars, moneyVars, worldVars, countVars
  <2>6. TypeOK'
    BY <2>1, <2>2, <2>3, <2>4, <2>5 DEF TypeOK
  <2>7. AgentAssigned'
    BY <1>8, <2>6 DEF AgentAssigned, Engaged, Voted
  <2>8. VotesUndecided'
    <3>1. /\ state = "DISPUTED" /\ state' = state /\ evaluator' = evaluator
          /\ vote' \in [Seats -> 0 .. 3] /\ Consensus(vote') = 0
      BY <1>8 DEF Voted, phaseVars
    <3> QED
      BY <3>1, UndecidedVotes DEF VotesUndecided
  <2>9. Priced'
    BY <1>8 DEF Priced, Voted
  <2> QED
    BY <2>6, <2>7, <2>8, <2>9 DEF IInv
<1>9. CASE Settled
  <2>1. state' \in States /\ terms' \in Terms \cup {NoTerms} /\ agent' \in Roles
    BY <1>9 DEF TypeOK, States, Roles, Settled
  <2>2. /\ claim_deadline' \in Nat /\ review_deadline' \in Nat
        /\ last_rejection_timestamp' \in Nat /\ dispute_timestamp' \in Nat
        /\ rejection_count' \in Nat /\ rejections' \in Nat
        /\ now' \in Nat
    BY <1>9 DEF TypeOK, Settled, phaseVars, worldVars, countVars
  <2>3. /\ evaluator' \in [Seats -> Roles] /\ vote' \in [Seats -> 0 .. 3]
        /\ opted_in' \subseteq Accounts
    BY <1>9 DEF TypeOK, Settled, phaseVars, worldVars, countVars
  <2>4. /\ payout_type' \in {"", "PAYOUT", "REFUND", "SPLIT"}
        /\ github_status' \in {"", "pending", "pass", "fail"}
        /\ settlement_log' \in SettlementLogs \cup {""}
    BY <1>9 DEF TypeOK, Settled, phaseVars, worldVars, countVars
  <2>5. ledger' \in [Accounts \cup {App} -> Nat]
    <3>1. PICK n \in Nat : Moves(ledger, ledger', n)
      BY <1>9 DEF Settled
    <3>2. /\ ledger' \in [Accounts \cup {App} -> Int] /\ ledger'[App] >= 0
          /\ \A a \in Accounts : ledger'[a] >= ledger[a]
      BY <1>9, <3>1 DEF Settled, Moves, Ledgers
    <3>3. \A a \in Accounts : ledger[a] \in Nat
      BY DEF TypeOK
    <3>4. \A a \in Accounts \cup {App} : ledger'[a] \in Nat
      BY <3>2, <3>3
    <3> QED
      BY <3>2, <3>4
  <2>6. TypeOK'
    BY <2>1, <2>2, <2>3, <2>4, <2>5 DEF TypeOK
  <2>7. AgentAssigned'
    BY <1>9, <2>6 DEF AgentAssigned, Engaged, Settled
  <2>8. VotesUndecided'
    BY <1>9 DEF VotesUndecided, Settled, panelVars
  <2>9. Priced'
    BY <1>9 DEF Priced, Settled
  <2> QED
    BY <2>6, <2>7, <2>8, <2>9 DEF IInv
<1>10. CASE Aside
  <2>1. state' \in States /\ terms' \in Terms \cup {NoTerms} /\ agent' \in Roles
    BY <1>10 DEF TypeOK, States, Roles, Aside
  <2>2. /\ claim_deadline' \in Nat /\ review_deadline' \in Nat
        /\ last_rejection_timestamp' \in Nat /\ dispute_timestamp' \in Nat
        /\ rejection_count' \in Nat /\ rejections' \in Nat
        /\ now' \in Nat
    BY <1>10 DEF TypeOK, Aside, phaseVars, panelVars, countVars
  <2>3. /\ evaluator' \in [Seats -> Roles] /\ vote' \in [Seats -> 0 .. 3]
        /\ opted_in' \subseteq Accounts
    BY <1>10 DEF TypeOK, Aside, phaseVars, panelVars, countVars
  <2>4. /\ payout_type' \in {"", "PAYOUT", "REFUND", "SPLIT"}
        /\ github_status' \in {"", "pending", "pass", "fail"}
        /\ settlement_log' \in SettlementLogs \cup {""}
    BY <1>10 DEF TypeOK, Aside, phaseVars, panelVars, countVars
  <2>5. ledger' \in [Accounts \cup {App} -> Nat]
    BY <1>10 DEF TypeOK, Aside, phaseVars, panelVars, countVars
  <2>6. TypeOK'
    BY <2>1, <2>2, <2>3, <2>4, <2>5 DEF TypeOK
  <2>7. AgentAssigned'
    BY <1>10, <2>6 DEF AgentAssigned, Engaged, Aside
  <2>8. VotesUndecided'
    BY <1>10 DEF VotesUndecided, Aside, panelVars
  <2>9. Priced'
    BY <1>10 DEF Priced, Aside
  <2> QED
    BY <2>6, <2>7, <2>8, <2>9 DEF IInv
<1> QED
  BY <1>1, <1>2, <1>3, <1>4, <1>5, <1>6, <1>7, <1>8, <1>9, <1>10, StepKinds

\* The empty contract satisfies the inductive invariant.
LEMMA IInvInit == Init => IInv
<1> SUFFICES ASSUME Init PROVE IInv
  OBVIOUS
<1>1. TypeOK
  <2>1. state \in States /\ terms \in Terms \cup {NoTerms} /\ agent \in Roles
    BY DEF Init, States, Roles
  <2>2. /\ claim_deadline \in Nat /\ review_deadline \in Nat
        /\ last_rejection_timestamp \in Nat /\ dispute_timestamp \in Nat
        /\ rejection_count \in Nat /\ rejections \in Nat
        /\ now \in Nat
    BY DEF Init
  <2>3. /\ evaluator \in [Seats -> Roles] /\ vote \in [Seats -> 0 .. 3]
        /\ opted_in \subseteq Accounts
    <3>1. Zero \in Roles /\ 0 \in 0 .. 3
      BY DEF Roles
    <3> QED
      BY <3>1 DEF Init
  <2>4. /\ payout_type \in {"", "PAYOUT", "REFUND", "SPLIT"}
        /\ github_status \in {"", "pending", "pass", "fail"}
        /\ settlement_log \in SettlementLogs \cup {""}
    BY DEF Init
  <2>5. ledger \in [Accounts \cup {App} -> Nat]
    BY DEF Init
  <2> QED
    BY <2>1, <2>2, <2>3, <2>4, <2>5 DEF TypeOK
<1>2. AgentAssigned
  BY DEF Init, AgentAssigned, Engaged
<1>3. VotesUndecided
  BY DEF Init, VotesUndecided
<1>4. Priced
  BY DEF Init, Priced
<1> QED
  BY <1>1, <1>2, <1>3, <1>4 DEF IInv

\* The inductive invariant holds in every reachable state.
LEMMA AlwaysIInv == Spec => []IInv
<1>1. IInv /\ PoolConsistent /\ [Next]_vars => IInv'
  BY IInvStep
<1> QED
  BY <1>1, IInvInit, EscrowPoolConsistent, PTL DEF Spec

\* Every box of the contract always holds what its declaration says; in
\* particular no payment overdraws a balance.
THEOREM TypeCorrect == Spec => []TypeOK
<1>1. IInv => TypeOK
  BY DEF IInv
<1> QED
  BY <1>1, AlwaysIInv, PTL

\* From the claim to the end the worker is an account other than the creator.
THEOREM AgentAlwaysAssigned == Spec => []AgentAssigned
<1>1. IInv => AgentAssigned
  BY DEF IInv
<1> QED
  BY <1>1, AlwaysIInv, PTL

\* A disputed bounty never shows a consensus that has not been carried out.
THEOREM VotesAlwaysUndecided == Spec => []VotesUndecided
<1>1. IInv => VotesUndecided
  BY DEF IInv
<1> QED
  BY <1>1, AlwaysIInv, PTL

-----------------------------------------------------------------------------
(* Review rounds.                                                          *)

\* The parity of rejection_count tells whose turn it is, in every reachable
\* state.
THEOREM RoundsAlwaysCounted == Spec => []RejectionRounds
<1>1. Init => RejectionRounds
  <2> SUFFICES ASSUME Init PROVE RejectionRounds
    OBVIOUS
  <2>1. state = "NONE" /\ rejection_count = 0 /\ rejections = 0
    BY DEF Init
  <2> QED
    BY <2>1 DEF RejectionRounds, MAX_REJECTIONS
<1>2. ASSUME IInv, PoolConsistent, RejectionRounds, [Next]_vars
      PROVE  RejectionRounds'
  <2>1. ASSUME NEW d \in Deployments, CreateBounty(d)
        PROVE  RejectionRounds'
    BY <1>2, <2>1 DEF RejectionRounds, CreateBounty, countVars
  <2>2. ASSUME NEW s \in Accounts, ClaimBounty(s) \/ DeleteBounty(s)
        PROVE  RejectionRounds'
    BY <1>2, <2>2 DEF RejectionRounds, ClaimBounty, DeleteBounty, countVars
  <2>3. ASSUME NEW s \in Accounts, SubmitFirst(s)
        PROVE  RejectionRounds'
    BY <1>2, <2>3 DEF RejectionRounds, SubmitFirst, StartReview, countVars
  <2>4. ASSUME NEW s \in Accounts, SubmitRevision(s)
        PROVE  RejectionRounds'
    <3>1. rejection_count = 1 /\ rejections = (1 + 1) \div 2
      BY <1>2, <2>4 DEF RejectionRounds, SubmitRevision, MAX_REJECTIONS
    <3>2. /\ state' = "SUBMITTED" /\ rejection_count' = rejection_count + 1
          /\ rejections' = rejections
      BY <2>4 DEF SubmitRevision, CountRevision, StartReview
    <3> QED
      BY <3>1, <3>2 DEF RejectionRounds, MAX_REJECTIONS
  <2>5. ASSUME NEW s \in Accounts, RejectWork(s)
        PROVE  RejectionRounds'
    <3>1. /\ rejection_count \in {0, 2}
          /\ rejections = (rejection_count + 1) \div 2
      BY <1>2, <2>5 DEF RejectionRounds, RejectWork
    <3>2. /\ state' = "REJECTED" /\ rejection_count' = rejection_count + 1
          /\ rejections' = rejections + 1
      BY <2>5 DEF RejectWork
    <3> QED
      BY <3>1, <3>2 DEF RejectionRounds, MAX_REJECTIONS
  <2>6. CASE ExpireClaim
    <3>1. state' = "OPEN" /\ rejection_count' = 0 /\ rejections' = 0
      BY <2>6 DEF ExpireClaim, Reopen
    <3> QED
      BY <3>1 DEF RejectionRounds, MAX_REJECTIONS
  <2>7. CASE Disputed \/ Voted \/ Settled \/ Aside
    BY <1>2, <2>7 DEF RejectionRounds, Disputed, Voted, Settled, Aside, countVars
  <2> QED
    BY <1>2, <2>1, <2>2, <2>3, <2>4, <2>5, <2>6, <2>7, StepKinds
<1> QED
  BY <1>1, <1>2, AlwaysIInv, EscrowPoolConsistent, PTL DEF Spec

\* The last rejection lies in the past: what makes a fresh window reach beyond
\* the window of the last rejection.
Dated == last_rejection_timestamp <= now

\* The deadline of the submission under review is a whole window after the
\* last rejection, in every reachable state.
THEOREM ReviewWindowAlwaysFresh == Spec => []ReviewWindowFresh
<1>1. Init => Dated /\ ReviewWindowFresh
  <2> SUFFICES ASSUME Init PROVE Dated /\ ReviewWindowFresh
    OBVIOUS
  <2>1. state = "NONE" /\ last_rejection_timestamp = 0 /\ now = 0
    BY DEF Init
  <2> QED
    BY <2>1 DEF Dated, ReviewWindowFresh
<1>2. ASSUME IInv, PoolConsistent, Dated, ReviewWindowFresh, [Next]_vars
      PROVE  Dated' /\ ReviewWindowFresh'
  <2>1. now \in Nat /\ last_rejection_timestamp \in Nat
    BY <1>2 DEF IInv, TypeOK
  <2>2. ASSUME NEW d \in Deployments, CreateBounty(d)
        PROVE  Dated' /\ ReviewWindowFresh'
    BY <1>2, <2>2 DEF Dated, ReviewWindowFresh, CreateBounty, phaseVars, worldVars
  <2>3. ASSUME NEW s \in Accounts, ClaimBounty(s) \/ DeleteBounty(s)
        PROVE  Dated' /\ ReviewWindowFresh'
    BY <1>2, <2>3
       DEF Dated, ReviewWindowFresh, ClaimBounty, DeleteBounty, phaseVars, worldVars
  <2>4. ASSUME NEW s \in Accounts, SubmitFirst(s) \/ SubmitRevision(s)
        PROVE  Dated' /\ ReviewWindowFresh'
    <3>1. StartReview
      BY <2>4 DEF SubmitFirst, SubmitRevision
    <3>2. terms \in Terms
      BY <1>2, <2>4 DEF IInv, AgentAssigned, SubmitFirst, SubmitRevision
    <3> DEFINE window == terms.review_days * Day
    <3>3. window \in Nat
      BY <3>2, TermsTyped, ProductBound, NumberAssumption
    <3>4. /\ now' = now /\ terms' = terms
          /\ last_rejection_timestamp' = last_rejection_timestamp
          /\ terms.hitm = 1 => review_deadline' = now + window
      BY <3>1 DEF StartReview, ReviewDeadline, worldVars
    <3>5. window' = window
      BY <3>4
    <3> HIDE DEF window
    <3>6. terms.hitm = 1 =>
            review_deadline' >= last_rejection_timestamp' + window'
      BY <1>2, <2>1, <3>3, <3>4, <3>5 DEF Dated
    <3> QED
      BY <1>2, <3>4, <3>6 DEF Dated, ReviewWindowFresh, window
  <2>5. ASSUME NEW s \in Accounts, RejectWork(s)
        PROVE  Dated' /\ ReviewWindowFresh'
    <3>1. now' = now /\ last_rejection_timestamp' = now /\ state' = "REJECTED"
      BY <2>5 DEF RejectWork, worldVars
    <3> QED
      BY <2>1, <3>1 DEF Dated, ReviewWindowFresh
  <2>6. CASE ExpireClaim
    BY <1>2, <2>6
       DEF Dated, ReviewWindowFresh, ExpireClaim, Reopen, phaseVars, worldVars
  <2>7. CASE Disputed \/ Settled
    BY <1>2, <2>7
       DEF Dated, ReviewWindowFresh, Disputed, Settled, phaseVars, worldVars
  <2>8. CASE Voted
    BY <1>2, <2>8 DEF Dated, ReviewWindowFresh, Voted, phaseVars, worldVars
  <2>9. CASE Aside
    <3>1. /\ now' \in Nat /\ now' >= now
          /\ UNCHANGED <<state, terms, last_rejection_timestamp, review_deadline>>
      BY <2>9 DEF Aside, phaseVars
    <3>2. Dated'
      BY <1>2, <2>1, <3>1 DEF Dated
    <3> QED
      BY <1>2, <3>1, <3>2 DEF ReviewWindowFresh
  <2> QED
    BY <1>2, <2>2, <2>3, <2>4, <2>5, <2>6, <2>7, <2>8, <2>9, StepKinds
<1> QED
  BY <1>1, <1>2, AlwaysIInv, EscrowPoolConsistent, PTL DEF Spec

-----------------------------------------------------------------------------
(* Settlements, once more.                                                 *)

\* Nothing is paid before the settlement, and every settlement records its
\* payout type, in every reachable state.
THEOREM SettlementAlwaysRecorded == Spec => []SettlementRecorded
<1> USE DEF SettlementRecorded, Posted
<1>1. Init => SettlementRecorded
  <2> SUFFICES ASSUME Init PROVE SettlementRecorded
    OBVIOUS
  <2>1. state = "NONE" /\ payout_type = "" /\ \A a \in Accounts : ledger[a] = 0
    BY DEF Init
  <2> QED
    BY <2>1
<1>2. ASSUME IInv, PoolConsistent, SettlementRecorded, [Next]_vars
      PROVE  SettlementRecorded'
  <2>1. ASSUME NEW d \in Deployments, CreateBounty(d)
        PROVE  SettlementRecorded'
    BY <1>2, <2>1 DEF CreateBounty, moneyVars
  <2>2. ASSUME NEW s \in Accounts, ClaimBounty(s) \/ RejectWork(s)
        PROVE  SettlementRecorded'
    BY <1>2, <2>2 DEF ClaimBounty, RejectWork, moneyVars
  <2>3. ASSUME NEW s \in Accounts, SubmitFirst(s) \/ SubmitRevision(s)
        PROVE  SettlementRecorded'
    BY <1>2, <2>3 DEF SubmitFirst, SubmitRevision, StartReview, moneyVars
  <2>4. ASSUME NEW s \in Accounts, DeleteBounty(s)
        PROVE  SettlementRecorded'
    BY <1>2, <2>4 DEF DeleteBounty
  <2>5. CASE ExpireClaim
    BY <1>2, <2>5 DEF ExpireClaim, Expirable, Reopen, moneyVars
  <2>6. CASE Disputed
    BY <1>2, <2>6 DEF Disputed, moneyVars
  <2>7. CASE Voted
    BY <1>2, <2>7 DEF Voted, moneyVars
  <2>8. CASE Settled
    BY <2>8 DEF Settled
  <2>9. CASE Aside
    BY <1>2, <2>9 DEF Aside
  <2> QED
    BY <1>2, <2>1, <2>2, <2>3, <2>4, <2>5, <2>6, <2>7, <2>8, <2>9, StepKinds
<1> QED
  BY <1>1, <1>2, AlwaysIInv, EscrowPoolConsistent, PTL DEF Spec

\* Work under review is never refunded, whoever calls what.
THEOREM RefundAlwaysLocked == Spec => RefundLock
<1>1. ASSUME IInv, PoolConsistent, [Next]_vars,
             state = "SUBMITTED", state' = "CLOSED"
      PROVE  payout_type' = "PAYOUT"
  <2>1. CASE Settled
    BY <1>1, <2>1 DEF Settled
  <2>2. CASE Disputed \/ Voted \/ Aside
    BY <1>1, <2>2 DEF Disputed, Voted, Aside
  <2>3. ASSUME NEW s \in Accounts,
               \/ ClaimBounty(s) \/ SubmitFirst(s) \/ SubmitRevision(s)
               \/ RejectWork(s) \/ DeleteBounty(s)
        PROVE  FALSE
    BY <1>1, <2>3 DEF ClaimBounty, SubmitFirst, SubmitRevision, RejectWork,
                      DeleteBounty
  <2>4. ASSUME ExpireClaim \/ \E d \in Deployments : CreateBounty(d)
        PROVE  FALSE
    BY <1>1, <2>4 DEF ExpireClaim, Expirable, CreateBounty
  <2> QED
    BY <1>1, <2>1, <2>2, <2>3, <2>4, StepKinds
<1>2. IInv /\ PoolConsistent /\ [Next]_vars
        => [state = "SUBMITTED" /\ state' = "CLOSED"
              => payout_type' = "PAYOUT"]_vars
  BY <1>1
<1> QED
  BY <1>2, AlwaysIInv, EscrowPoolConsistent, PTL DEF Spec, RefundLock

\* A vote, once given, is never changed or cleared.
THEOREM VotesAlwaysFinal == Spec => VotesFinal
<1>1. ASSUME IInv, PoolConsistent, [Next]_vars
      PROVE  \A i \in Seats : vote[i] # 0 => vote'[i] = vote[i]
  <2>1. CASE Settled \/ Voted
    BY <2>1 DEF Settled, Voted
  <2>2. CASE Disputed
    <3>1. vote = [i \in Seats |-> 0]
      BY <1>1, <2>2 DEF IInv, VotesUndecided, Disputed
    <3> QED
      BY <3>1
  <2>3. CASE Aside
    BY <2>3 DEF Aside, panelVars
  <2>4. ASSUME NEW s \in Accounts,
               \/ ClaimBounty(s) \/ SubmitFirst(s) \/ SubmitRevision(s)
               \/ RejectWork(s) \/ DeleteBounty(s)
        PROVE  vote' = vote
    BY <2>4 DEF ClaimBounty, SubmitFirst, SubmitRevision, StartReview,
                RejectWork, DeleteBounty, panelVars
  <2>5. ASSUME ExpireClaim \/ \E d \in Deployments : CreateBounty(d)
        PROVE  vote' = vote
    BY <2>5 DEF ExpireClaim, CreateBounty, panelVars
  <2> QED
    BY <1>1, <2>1, <2>2, <2>3, <2>4, <2>5, StepKinds
<1>2. IInv /\ PoolConsistent /\ [Next]_vars
        => [\A i \in Seats : vote[i] # 0 => vote'[i] = vote[i]]_vars
  BY <1>1
<1> QED
  BY <1>2, AlwaysIInv, EscrowPoolConsistent, PTL DEF Spec, VotesFinal

-----------------------------------------------------------------------------
(* The abstract lifecycle.                                                 *)

\* What the refinement mapping makes of each state.
LEMMA Phases ==
  /\ PhaseOf["NONE"] = "unset" /\ PhaseOf["OPEN"] = "open"
  /\ PhaseOf["CLAIMED"] = "working"
  /\ PhaseOf["SUBMITTED"] = "delivered" /\ PhaseOf["REJECTED"] = "delivered"
  /\ PhaseOf["DISPUTED"] = "contested"
  /\ PhaseOf["CLOSED"] = "settled" /\ PhaseOf["DELETED"] = "gone"
BY DEF PhaseOf, States

\* The contract implements the abstract lifecycle: every step is one of its
\* steps or none.  The settlements are where it takes an argument: they move
\* no more than the escrow amount, voters' shares and royalty included.
THEOREM EscrowImplementsLifecycle == Spec => ImplementsLifecycle
<1>1. Init => Lifecycle!Init
  <2> SUFFICES ASSUME Init PROVE Lifecycle!Init
    OBVIOUS
  <2>1. PhaseOf[state] = "unset" /\ terms.amount = 0
    BY Phases DEF Init, NoTerms
  <2>2. agent = Zero /\ payout_type = "" /\ ledger[App] = 0
    BY DEF Init
  <2> QED
    BY <2>1, <2>2 DEF Lifecycle!Init
<1>2. ASSUME IInv, PoolConsistent, [Next]_vars
      PROVE  Lifecycle!Next \/ UNCHANGED Lifecycle!lifecycle
  <2>1. /\ ledger \in [Accounts \cup {App} -> Nat]
        /\ ledger' \in [Accounts \cup {App} -> Nat]
    BY <1>2, IInvStep DEF IInv, TypeOK
  <2>2. ledger[App] \in Nat /\ ledger'[App] \in Nat
    BY <2>1
  <2>3. ASSUME NEW d \in Deployments, CreateBounty(d)
        PROVE  Lifecycle!Post
    <3>1. d \in Terms /\ d.amount > 0 /\ terms' = BountyTerms(d)
      BY <2>3, DeploymentAssumption DEF CreateBounty
    <3>2. terms'.amount \in Nat \ {0}
      BY <3>1 DEF BountyTerms, Terms
    <3> QED
      BY <2>3, <3>2, Phases DEF CreateBounty, moneyVars, Lifecycle!Post
  <2>4. ASSUME NEW s \in Accounts, ClaimBounty(s)
        PROVE  Lifecycle!Engage
    BY <2>4, Phases DEF ClaimBounty, moneyVars, Lifecycle!Engage
  <2>5. ASSUME NEW s \in Accounts, SubmitFirst(s)
        PROVE  Lifecycle!Deliver
    BY <2>5, Phases DEF SubmitFirst, StartReview, moneyVars, Lifecycle!Deliver
  <2>6. ASSUME NEW s \in Accounts, SubmitRevision(s) \/ RejectWork(s)
        PROVE  UNCHANGED Lifecycle!lifecycle
    BY <2>6, Phases DEF SubmitRevision, StartReview, RejectWork, moneyVars,
                        Lifecycle!lifecycle
  <2>7. ASSUME NEW s \in Accounts, DeleteBounty(s)
        PROVE  Lifecycle!Close
    <3>1. s = terms.creator /\ App # s
      BY <2>7, AddressAssumption DEF DeleteBounty
    <3>2. ledger'[App] = 0
      BY <2>1, <2>2, <2>7, <3>1 DEF DeleteBounty, Pay
    <3> QED
      BY <2>7, <3>2, Phases DEF DeleteBounty, Lifecycle!Close
  <2>8. ASSUME ExpireClaim
        PROVE  Lifecycle!GiveUp
    BY <2>8, Phases
       DEF ExpireClaim, Expirable, Reopen, moneyVars, Lifecycle!GiveUp
  <2>9. ASSUME Disputed
        PROVE  Lifecycle!Contest
    BY <2>9, Phases DEF Disputed, moneyVars, Lifecycle!Contest
  <2>10. CASE Voted
    BY <2>10 DEF Voted, moneyVars, Lifecycle!lifecycle
  <2>11. CASE Settled
    <3>1. terms.amount \in Nat
      BY <1>2, <2>11, TermsTyped DEF IInv, AgentAssigned, Settled
    <3>2. PICK n \in Nat : Moves(ledger, ledger', n) /\ n <= terms.amount
      BY <2>11 DEF Settled
    <3>3. ledger'[App] = ledger[App] - n
      BY <3>2 DEF Moves
    <3>4. /\ ledger'[App] <= ledger[App]
          /\ ledger[App] - ledger'[App] <= terms.amount
      BY <2>2, <3>1, <3>2, <3>3
    <3>5. /\ ledger[App] >= terms.amount
          /\ terms' = terms /\ agent' = agent
          /\ state' = "CLOSED"
      BY <2>11 DEF Settled
    <3>6. /\ PhaseOf[state] \in {"delivered", "contested"}
          /\ payout_type' \in IF PhaseOf[state] = "contested"
                                THEN {"PAYOUT", "REFUND", "SPLIT"}
                                ELSE {"PAYOUT", "REFUND"}
      BY <2>11, Phases DEF Settled
    <3>7. Lifecycle!Settle
      BY <3>4, <3>5, <3>6, Phases DEF Lifecycle!Settle
    <3> QED
      BY <3>7 DEF Lifecycle!Next
  <2>12. CASE Aside
    <3>1. UNCHANGED <<state, terms, agent, payout_type>>
      BY <2>12 DEF Aside
    <3>2. CASE ledger' = ledger
      BY <3>1, <3>2 DEF Lifecycle!lifecycle
    <3>3. CASE ledger' # ledger
      <4>1. state # "DELETED" /\ ledger'[App] >= ledger[App]
        BY <2>12, <3>3 DEF Aside
      <4>2. PhaseOf[state] # "gone"
        BY <1>2, <4>1, Phases DEF IInv, TypeOK, States
      <4> QED
        BY <2>2, <3>1, <4>1, <4>2 DEF Lifecycle!Fund, Lifecycle!Next
    <3> QED
      BY <3>2, <3>3
  <2> QED
    BY <1>2, <2>3, <2>4, <2>5, <2>6, <2>7, <2>8, <2>9, <2>10, <2>11, <2>12,
       StepKinds DEF Lifecycle!Next
<1>3. IInv /\ PoolConsistent /\ [Next]_vars
        => [Lifecycle!Next]_(Lifecycle!lifecycle)
  BY <1>2
<1> QED
  BY <1>1, <1>3, AlwaysIInv, EscrowPoolConsistent, PTL
     DEF Spec, ImplementsLifecycle, Lifecycle!Spec

-----------------------------------------------------------------------------
(* The contract as the gateway models it.                                  *)

\* What the gateway reads in each state.
LEMMA Words ==
  /\ BoxOf["OPEN"] = "open" /\ BoxOf["CLAIMED"] = "claimed"
  /\ BoxOf["SUBMITTED"] = "submitted" /\ BoxOf["REJECTED"] = "rejected"
  /\ BoxOf["DISPUTED"] = "disputed" /\ BoxOf["CLOSED"] = "closed"
BY DEF BoxOf, States

\* The call EscrowApp has for a step of the contract.
Answers(method, sender) ==
  LET call == [method |-> method, sender |-> sender]
  IN  /\ Gateway!Passes(Boxes, call)
      /\ Boxes' = Gateway!After(Boxes, call)
      /\ TellsOutcome(LineOf(method))

\* What the gateway knows of a method.
Known(method, accepts, leaves, line) ==
  /\ method \in MethodNames
  /\ Gateway!Methods[method].accepts = accepts
  /\ Gateway!Methods[method].leaves = leaves
  /\ LineOf(method) = line

\* The methods the gateway knows, written out.
LEMMA MethodTable ==
  /\ Known("claim_bounty", {"open"}, "claimed", "")
  /\ Known("submit_work", {"claimed", "rejected"}, "submitted", "")
  /\ Known("approve_work", {"submitted"}, "closed", "")
  /\ Known("reject_work", {"submitted"}, "rejected", "")
  /\ Known("submit_dispute", {"submitted", "rejected"}, "disputed",
           "dispute_submitted")
  /\ Known("auto_release", {"submitted"}, "closed", "auto_released_hitm")
  /\ Known("claim_abandoned", {"rejected"}, "closed", "")
  /\ Known("expire_claim", {"claimed"}, "open", "claim_expired")
  /\ Known("timeout_dispute", {"disputed"}, "closed", "dispute_timeout_split")
  /\ Known("auto_resolve_creator_win", {"disputed"}, "closed", "")
  /\ Known("agent_win", {"disputed"}, "closed", "dispute_resolved_agent_win")
  /\ Known("creator_win", {"disputed"}, "closed",
           "dispute_resolved_creator_win")
  /\ Known("split", {"disputed"}, "closed", "dispute_resolved_split")
BY DEF Known, MethodNames, LineOf, Gateway!Methods, Gateway!Method

\* The payout types the worker concludes, written out.
LEMMA OutcomeTable ==
  /\ DOMAIN Gateway!Outcome =
       {"auto_released_hitm", "dispute_timeout_split", "dispute_resolved_agent_win",
        "dispute_resolved_creator_win", "dispute_resolved_split"}
  /\ Gateway!Outcome["auto_released_hitm"] = "PAYOUT"
  /\ Gateway!Outcome["dispute_timeout_split"] = "SPLIT"
  /\ Gateway!Outcome["dispute_resolved_agent_win"] = "PAYOUT"
  /\ Gateway!Outcome["dispute_resolved_creator_win"] = "REFUND"
  /\ Gateway!Outcome["dispute_resolved_split"] = "SPLIT"
BY DEF Gateway!Outcome

\* A step that a method accepts, leaves and logs as EscrowApp has it.
LEMMA StepAnswers ==
  ASSUME NEW method, NEW accepts, NEW leaves, NEW line,
         Known(method, accepts, leaves, line), NEW sender \in Accounts,
         BoxOf[state] \in accepts, BoxOf[state'] = leaves,
         agent' = IF method = "claim_bounty" THEN sender
                  ELSE IF method = "expire_claim" THEN Zero ELSE agent,
         TellsOutcome(line)
  PROVE  \E m \in MethodNames, s \in Accounts : Answers(m, s)
<1> DEFINE call == [method |-> method, sender |-> sender]
<1>1. call.method = method /\ call.sender = sender
  OBVIOUS
<1>2. Boxes.state = BoxOf[state] /\ Boxes.agent = agent
  BY DEF Boxes
<1>3. Boxes' = [state |-> BoxOf[state'], agent |-> agent']
  BY DEF Boxes
<1>4. /\ method \in MethodNames
      /\ Gateway!Methods[method].accepts = accepts
      /\ Gateway!Methods[method].leaves = leaves
      /\ LineOf(method) = line
  BY DEF Known
<1>5. Gateway!Passes(Boxes, call)
  BY <1>1, <1>2, <1>4 DEF Gateway!Passes
<1>6. Gateway!After(Boxes, call)
        = [state |-> Gateway!Methods[method].leaves,
           agent |-> IF method = "claim_bounty" THEN sender
                     ELSE IF method = "expire_claim" THEN Zero ELSE agent]
  BY <1>1, <1>2 DEF Gateway!After
<1>7. Boxes' = Gateway!After(Boxes, call)
  BY <1>3, <1>4, <1>6
<1>8. TellsOutcome(LineOf(method))
  BY <1>4
<1>9. Answers(method, sender)
  BY <1>5, <1>7, <1>8 DEF Answers
<1> QED
  BY <1>4, <1>9

\* A call that settles from one box, with the line and the payout type from
\* which the worker concludes what the contract recorded, or nothing.
Settler(method, box, line, type, logged) ==
  /\ Known(method, {box}, "closed", line)
  /\ method # "claim_bounty" /\ method # "expire_claim"
  /\ IF line \in DOMAIN Gateway!Outcome
       THEN logged = line /\ type = Gateway!Outcome[line]
       ELSE logged \notin DOMAIN Gateway!Outcome

\* The settling calls, written out.
LEMMA SettlerTable ==
  /\ Settler("approve_work", "submitted", "", "PAYOUT", "work_approved")
  /\ Settler("auto_release", "submitted", "auto_released_hitm",
             "PAYOUT", "auto_released_hitm")
  /\ Settler("claim_abandoned", "rejected", "",
             "REFUND", "abandoned_refunded_creator")
  /\ Settler("agent_win", "disputed", "dispute_resolved_agent_win",
             "PAYOUT", "dispute_resolved_agent_win")
  /\ Settler("creator_win", "disputed", "dispute_resolved_creator_win",
             "REFUND", "dispute_resolved_creator_win")
  /\ Settler("split", "disputed", "dispute_resolved_split",
             "SPLIT", "dispute_resolved_split")
  /\ Settler("auto_resolve_creator_win", "disputed", "",
             "REFUND", "dispute_auto_resolved_creator_win")
  /\ Settler("timeout_dispute", "disputed", "dispute_timeout_split",
             "SPLIT", "dispute_timeout_split")
<1>1. Settler("approve_work", "submitted", "", "PAYOUT", "work_approved")
  <2>1. Known("approve_work", {"submitted"}, "closed", "")
    BY MethodTable
  <2> QED
    BY <2>1, OutcomeTable DEF Settler
<1>2. Settler("auto_release", "submitted", "auto_released_hitm",
             "PAYOUT", "auto_released_hitm")
  <2>1. Known("auto_release", {"submitted"}, "closed",
              "auto_released_hitm")
    BY MethodTable
  <2> QED
    BY <2>1, OutcomeTable DEF Settler
<1>3. Settler("claim_abandoned", "rejected", "",
             "REFUND", "abandoned_refunded_creator")
  <2>1. Known("claim_abandoned", {"rejected"}, "closed", "")
    BY MethodTable
  <2> QED
    BY <2>1, OutcomeTable DEF Settler
<1>4. Settler("agent_win", "disputed", "dispute_resolved_agent_win",
             "PAYOUT", "dispute_resolved_agent_win")
  <2>1. Known("agent_win", {"disputed"}, "closed",
              "dispute_resolved_agent_win")
    BY MethodTable
  <2> QED
    BY <2>1, OutcomeTable DEF Settler
<1>5. Settler("creator_win", "disputed", "dispute_resolved_creator_win",
             "REFUND", "dispute_resolved_creator_win")
  <2>1. Known("creator_win", {"disputed"}, "closed",
              "dispute_resolved_creator_win")
    BY MethodTable
  <2> QED
    BY <2>1, OutcomeTable DEF Settler
<1>6. Settler("split", "disputed", "dispute_resolved_split",
             "SPLIT", "dispute_resolved_split")
  <2>1. Known("split", {"disputed"}, "closed",
              "dispute_resolved_split")
    BY MethodTable
  <2> QED
    BY <2>1, OutcomeTable DEF Settler
<1>7. Settler("auto_resolve_creator_win", "disputed", "",
             "REFUND", "dispute_auto_resolved_creator_win")
  <2>1. Known("auto_resolve_creator_win", {"disputed"}, "closed", "")
    BY MethodTable
  <2> QED
    BY <2>1, OutcomeTable DEF Settler
<1>8. Settler("timeout_dispute", "disputed", "dispute_timeout_split",
             "SPLIT", "dispute_timeout_split")
  <2>1. Known("timeout_dispute", {"disputed"}, "closed",
              "dispute_timeout_split")
    BY MethodTable
  <2> QED
    BY <2>1, OutcomeTable DEF Settler
<1> QED
  BY <1>1, <1>2, <1>3, <1>4, <1>5, <1>6, <1>7, <1>8

\* Such a settlement is one the gateway understands.
LEMMA SettlementTold ==
  ASSUME NEW method, NEW box, NEW line, NEW type, NEW logged,
         Settler(method, box, line, type, logged),
         NEW L, Settle(type, logged, L),
         BoxOf[state] = box, agent \in Accounts
  PROVE  \E m \in MethodNames, a \in Accounts : Answers(m, a)
<1>1. /\ payout_type' = type /\ settlement_log' = logged
      /\ state' = "CLOSED" /\ agent' = agent
  BY DEF Settle, Close
<1>2. TellsOutcome(line)
  BY <1>1 DEF TellsOutcome, Settler
<1>3. BoxOf[state'] = "closed" /\ BoxOf[state] \in {box}
  BY <1>1, Words
<1>4. agent' = IF method = "claim_bounty" THEN agent
               ELSE IF method = "expire_claim" THEN Zero ELSE agent
  BY <1>1 DEF Settler
<1>5. Known(method, {box}, "closed", line)
  BY DEF Settler
<1> QED
  BY <1>2, <1>3, <1>4, <1>5, StepAnswers

\* Nothing has been logged of a settlement before there is one.
LEMMA NothingLogged ==
  Spec => [](state \in Posted \cup {"NONE"} => settlement_log = "")
<1> DEFINE Quiet == state \in Posted \cup {"NONE"} => settlement_log = ""
<1> USE DEF Posted
<1>1. Init => Quiet
  BY DEF Init
<1>2. ASSUME IInv, PoolConsistent, Quiet, [Next]_vars
      PROVE  Quiet'
  <2>1. ASSUME NEW d \in Deployments, CreateBounty(d)
        PROVE  Quiet'
    BY <1>2, <2>1 DEF CreateBounty, moneyVars
  <2>2. ASSUME NEW s \in Accounts, ClaimBounty(s) \/ RejectWork(s)
        PROVE  Quiet'
    BY <1>2, <2>2 DEF ClaimBounty, RejectWork, moneyVars
  <2>3. ASSUME NEW s \in Accounts, SubmitFirst(s) \/ SubmitRevision(s)
        PROVE  Quiet'
    BY <1>2, <2>3 DEF SubmitFirst, SubmitRevision, StartReview, moneyVars
  <2>4. CASE ExpireClaim
    BY <1>2, <2>4 DEF ExpireClaim, Expirable, Reopen, moneyVars
  <2>5. CASE Disputed
    BY <1>2, <2>5 DEF Disputed, moneyVars
  <2>6. CASE Voted
    BY <1>2, <2>6 DEF Voted, moneyVars
  <2>7. ASSUME Settled \/ \E s \in Accounts : DeleteBounty(s)
        PROVE  Quiet'
    BY <2>7 DEF Settled, DeleteBounty
  <2>8. CASE Aside
    BY <1>2, <2>8 DEF Aside
  <2> QED
    BY <1>2, <2>1, <2>2, <2>3, <2>4, <2>5, <2>6, <2>7, <2>8, StepKinds
<1> QED
  BY <1>1, <1>2, AlwaysIInv, EscrowPoolConsistent, PTL DEF Spec

\* A vote that decides nothing yet.
LEMMA UndecidedVote ==
  ASSUME IInv, NEW s \in Accounts, NEW option \in 1 .. 3,
         VoteDispute(s, option), Consensus(vote') = 0
  PROVE  Voted
<1>1. vote \in [Seats -> 0 .. 3]
  BY DEF IInv, TypeOK
<1>2. PICK i \in PendingSeats(s) : vote' = [vote EXCEPT ![i] = option]
  BY DEF VoteDispute
<1>3. i \in Seats /\ vote[i] = 0
  BY DEF PendingSeats
<1>4. /\ vote' \in [Seats -> 0 .. 3]
      /\ \A j \in Seats : vote[j] # 0 => vote'[j] = vote[j]
  BY <1>1, <1>2, <1>3
<1> QED
  BY <1>4 DEF VoteDispute, Voted

\* The decision of the votes is logged and recorded as the worker reads it.
LEMMA VerdictTold ==
  ASSUME IInv, NEW s \in Accounts, NEW option \in 1 .. 3,
         VoteDispute(s, option), Consensus(vote') # 0
  PROVE  \E m \in MethodNames, a \in Accounts : Answers(m, a)
<1> DEFINE decided == Consensus(vote')
           L == ArbitrationPays(decided, vote')
<1>1. state = "DISPUTED" /\ agent \in Accounts
  BY SettlersDeployed DEF VoteDispute, Deployed
<1>2. Settle(Outcome(decided).type, Outcome(decided).log, L)
  BY DEF VoteDispute
<1>3. decided \in 1 .. 3
  <2>1. PICK i \in PendingSeats(s) : vote' = [vote EXCEPT ![i] = option]
    BY DEF VoteDispute
  <2>2. vote \in [Seats -> 0 .. 3] /\ i \in Seats
    BY DEF IInv, TypeOK, PendingSeats
  <2>3. vote' \in [Seats -> 0 .. 3]
    BY <2>1, <2>2
  <2>4. Consensus(vote') \in 0 .. 3
    BY <2>3, ConsensusTyped
  <2> QED
    BY <2>4
<1>4. BoxOf[state] = "disputed"
  BY <1>1, Words
<1> HIDE DEF decided, L
<1>5. CASE decided = 1
  <2>1. Settle("PAYOUT", "dispute_resolved_agent_win", L)
    BY <1>2, <1>5 DEF Outcome
  <2> QED
    BY <1>1, <1>4, <2>1, SettlerTable, SettlementTold
<1>6. CASE decided = 2
  <2>1. Settle("REFUND", "dispute_resolved_creator_win", L)
    BY <1>2, <1>6 DEF Outcome
  <2> QED
    BY <1>1, <1>4, <2>1, SettlerTable, SettlementTold
<1>7. CASE decided = 3
  <2>1. Settle("SPLIT", "dispute_resolved_split", L)
    BY <1>2, <1>7 DEF Outcome
  <2> QED
    BY <1>1, <1>4, <2>1, SettlerTable, SettlementTold
<1> QED
  BY <1>3, <1>5, <1>6, <1>7

\* So are the settlements by a single call.
LEMMA SettlersTold ==
  ASSUME IInv, NEW s \in Accounts,
         \/ ApproveWork(s) \/ AutoRelease \/ ClaimAbandoned(s)
         \/ \E resolution \in {"agent_win", "creator_win"} :
              ResolveDispute(resolution)
         \/ AutoResolveCreatorWin \/ TimeoutDispute
  PROVE  \E m \in MethodNames, a \in Accounts : Answers(m, a)
<1>1. state \in {"SUBMITTED", "REJECTED", "DISPUTED"}
  BY DEF ApproveWork, AutoRelease, ClaimAbandoned, ResolveDispute,
         AutoResolveCreatorWin, AutoResolvable, TimeoutDispute
<1>2. agent \in Accounts
  BY <1>1, SettlersDeployed DEF Deployed
<1>3. /\ state = "SUBMITTED" => BoxOf[state] = "submitted"
      /\ state = "REJECTED" => BoxOf[state] = "rejected"
      /\ state = "DISPUTED" => BoxOf[state] = "disputed"
  BY Words
<1>4. CASE ApproveWork(s)
  <2>1. PICK L : Settle("PAYOUT", "work_approved", L) /\ state = "SUBMITTED"
    BY <1>4 DEF ApproveWork
  <2> QED
    BY <1>2, <1>3, <2>1, SettlerTable, SettlementTold
<1>5. CASE AutoRelease
  <2>1. PICK L : Settle("PAYOUT", "auto_released_hitm", L) /\ state = "SUBMITTED"
    BY <1>5 DEF AutoRelease
  <2> QED
    BY <1>2, <1>3, <2>1, SettlerTable, SettlementTold
<1>6. CASE ClaimAbandoned(s)
  <2>1. PICK L : /\ Settle("REFUND", "abandoned_refunded_creator", L)
                 /\ state = "REJECTED"
    BY <1>6 DEF ClaimAbandoned
  <2> QED
    BY <1>2, <1>3, <2>1, SettlerTable, SettlementTold
<1>7. CASE \E resolution \in {"agent_win", "creator_win"} :
             ResolveDispute(resolution)
  <2>1. state = "DISPUTED"
    BY <1>7 DEF ResolveDispute
  <2>2. PICK L : \/ Settle("PAYOUT", "dispute_resolved_agent_win", L)
                 \/ Settle("REFUND", "dispute_resolved_creator_win", L)
    BY <1>7 DEF ResolveDispute
  <2>3. CASE Settle("PAYOUT", "dispute_resolved_agent_win", L)
    BY <1>2, <1>3, <2>1, <2>3, SettlerTable, SettlementTold
  <2>4. CASE Settle("REFUND", "dispute_resolved_creator_win", L)
    BY <1>2, <1>3, <2>1, <2>4, SettlerTable, SettlementTold
  <2> QED
    BY <2>2, <2>3, <2>4
<1>8. CASE AutoResolveCreatorWin
  <2>1. PICK L : /\ Settle("REFUND", "dispute_auto_resolved_creator_win", L)
                 /\ state = "DISPUTED"
    BY <1>8 DEF AutoResolveCreatorWin, AutoResolvable
  <2> QED
    BY <1>2, <1>3, <2>1, SettlerTable, SettlementTold
<1>9. CASE TimeoutDispute
  <2>1. PICK L : Settle("SPLIT", "dispute_timeout_split", L) /\ state = "DISPUTED"
    BY <1>9 DEF TimeoutDispute
  <2> QED
    BY <1>2, <1>3, <2>1, SettlerTable, SettlementTold
<1> QED
  BY <1>4, <1>5, <1>6, <1>7, <1>8, <1>9

\* The calls between the claim and the settlement, as the gateway has them.
LEMMA PartiesTold ==
  ASSUME TypeOK, AgentAssigned, state \in Posted, settlement_log = "",
         NEW s \in Accounts,
         \/ ClaimBounty(s) \/ SubmitFirst(s) \/ SubmitRevision(s)
         \/ RejectWork(s) \/ SubmitDispute(s) \/ EscalateToDispute(s)
         \/ ExpireClaim
  PROVE  \E m \in MethodNames, a \in Accounts : Answers(m, a)
<1>1. UNCHANGED <<payout_type, settlement_log>>
  BY DEF ClaimBounty, SubmitFirst, SubmitRevision, StartReview, RejectWork,
         SubmitDispute, EscalateToDispute, OpenDispute, ExpireClaim, moneyVars
<1>2. \A line \in {"", "dispute_submitted", "claim_expired"} : TellsOutcome(line)
  BY <1>1, OutcomeTable DEF TellsOutcome
<1>3. CASE ClaimBounty(s)
  <2>1. state = "OPEN" /\ state' = "CLAIMED" /\ agent' = s
    BY <1>3 DEF ClaimBounty
  <2>2. BoxOf[state] \in {"open"} /\ BoxOf[state'] = "claimed"
    BY <2>1, Words
  <2>3. Known("claim_bounty", {"open"}, "claimed", "")
    BY MethodTable
  <2> QED
    BY <1>2, <2>1, <2>2, <2>3, StepAnswers
<1>4. CASE SubmitFirst(s) \/ SubmitRevision(s)
  <2>1. /\ state \in {"CLAIMED", "REJECTED"} /\ state' = "SUBMITTED"
        /\ agent' = agent
    BY <1>4 DEF SubmitFirst, SubmitRevision, StartReview
  <2>2. BoxOf[state] \in {"claimed", "rejected"} /\ BoxOf[state'] = "submitted"
    BY <2>1, Words
  <2>3. Known("submit_work", {"claimed", "rejected"}, "submitted", "")
    BY MethodTable
  <2>4. agent' = IF "submit_work" = "claim_bounty" THEN s
                 ELSE IF "submit_work" = "expire_claim" THEN Zero ELSE agent
    BY <2>1
  <2> QED
    BY <1>2, <2>2, <2>3, <2>4, StepAnswers
<1>5. CASE RejectWork(s)
  <2>1. state = "SUBMITTED" /\ state' = "REJECTED" /\ agent' = agent
    BY <1>5 DEF RejectWork
  <2>2. BoxOf[state] \in {"submitted"} /\ BoxOf[state'] = "rejected"
    BY <2>1, Words
  <2>3. Known("reject_work", {"submitted"}, "rejected", "")
    BY MethodTable
  <2>4. agent' = IF "reject_work" = "claim_bounty" THEN s
                 ELSE IF "reject_work" = "expire_claim" THEN Zero ELSE agent
    BY <2>1
  <2> QED
    BY <1>2, <2>2, <2>3, <2>4, StepAnswers
<1>6. CASE SubmitDispute(s) \/ EscalateToDispute(s)
  <2>1. /\ state \in {"SUBMITTED", "REJECTED"} /\ state' = "DISPUTED"
        /\ agent' = agent
    BY <1>6 DEF SubmitDispute, EscalateToDispute, OpenDispute
  <2>2. BoxOf[state] \in {"submitted", "rejected"} /\ BoxOf[state'] = "disputed"
    BY <2>1, Words
  <2>3. Known("submit_dispute", {"submitted", "rejected"}, "disputed",
              "dispute_submitted")
    BY MethodTable
  <2>4. agent' = IF "submit_dispute" = "claim_bounty" THEN s
                 ELSE IF "submit_dispute" = "expire_claim" THEN Zero ELSE agent
    BY <2>1
  <2> QED
    BY <1>2, <2>2, <2>3, <2>4, StepAnswers
<1>7. CASE ExpireClaim
  <2>1. state = "CLAIMED" /\ state' = "OPEN" /\ agent' = Zero
    BY <1>7 DEF ExpireClaim, Expirable, Reopen
  <2>2. BoxOf[state] \in {"claimed"} /\ BoxOf[state'] = "open"
    BY <2>1, Words
  <2>3. Known("expire_claim", {"claimed"}, "open", "claim_expired")
    BY MethodTable
  <2>4. agent' = IF "expire_claim" = "claim_bounty" THEN s
                 ELSE IF "expire_claim" = "expire_claim" THEN Zero ELSE agent
    BY <2>1
  <2> QED
    BY <1>2, <2>2, <2>3, <2>4, StepAnswers
<1> QED
  BY <1>3, <1>4, <1>5, <1>6, <1>7

\* Whatever the contract does to the boxes of a posted bounty, the gateway has
\* a method for it and draws the right conclusion from its line.
THEOREM GatewayAlwaysUnderstands == Spec => GatewayUnderstands
<1> DEFINE Quiet == state \in Posted \cup {"NONE"} => settlement_log = ""
           Still == UNCHANGED <<state, agent, payout_type, settlement_log>>
           Answered == \E m \in MethodNames, a \in Accounts : Answers(m, a)
<1>1. ASSUME IInv, PoolConsistent, Quiet, [Next]_vars,
             state # "NONE", state' # "DELETED"
      PROVE  Still \/ Answered
  <2>1. CASE Aside \/ Voted
    BY <2>1 DEF Aside, Voted, moneyVars
  <2>2. ASSUME ~Aside, ~Voted
        PROVE  Answered
    <3>1. /\ TypeOK /\ AgentAssigned
          /\ state \in Posted => settlement_log = ""
      BY <1>1 DEF IInv
    <3>2. ASSUME NEW s \in Accounts,
                 \/ ClaimBounty(s) \/ SubmitFirst(s) \/ SubmitRevision(s)
                 \/ RejectWork(s) \/ SubmitDispute(s) \/ EscalateToDispute(s)
          PROVE  Answered
      <4>1. state \in Posted
        BY <3>2 DEF ClaimBounty, SubmitFirst, SubmitRevision, RejectWork,
                    SubmitDispute, EscalateToDispute, Posted
      <4> QED
        BY <3>1, <3>2, <4>1, PartiesTold
    <3>3. CASE Opening
      BY <1>1, <3>2, <3>3 DEF Opening, CreateBounty
    <3>4. CASE Deciding
      <4>1. ASSUME NEW s \in Accounts, NEW option \in 1 .. 3,
                   VoteDispute(s, option)
            PROVE  Answered
        <5>1. Consensus(vote') # 0
          BY <1>1, <2>2, <4>1, UndecidedVote
        <5> QED
          BY <1>1, <4>1, <5>1, VerdictTold
      <4>2. ASSUME NEW s \in Accounts, DeleteBounty(s)
            PROVE  FALSE
        BY <1>1, <4>2 DEF DeleteBounty
      <4>3. ASSUME NEW s \in Accounts, ApproveWork(s) \/ ClaimAbandoned(s)
            PROVE  Answered
        BY <1>1, <4>3, SettlersTold
      <4>4. ASSUME NEW resolution \in {"agent_win", "creator_win"},
                   ResolveDispute(resolution)
            PROVE  Answered
        <5>1. agent \in Accounts
          BY <1>1, <4>4, SettlersDeployed DEF ResolveDispute, Deployed
        <5> QED
          BY <1>1, <4>4, <5>1, SettlersTold
      <4> QED
        BY <3>4, <4>1, <4>2, <4>3, <4>4 DEF Deciding
    <3>5. CASE Expiring
      <4>1. state \in Engaged /\ state # "NONE"
        BY <3>5 DEF Expiring, ExpireClaim, Expirable, AutoRelease,
                    AutoResolveCreatorWin, AutoResolvable, TimeoutDispute, Engaged
      <4>2. agent \in Accounts
        BY <3>1, <4>1 DEF AgentAssigned
      <4>3. CASE ExpireClaim
        <5>1. state \in Posted
          BY <4>3 DEF ExpireClaim, Expirable, Posted
        <5> QED
          BY <3>1, <4>2, <4>3, <5>1, PartiesTold
      <4>4. CASE AutoRelease \/ AutoResolveCreatorWin \/ TimeoutDispute
        BY <1>1, <4>2, <4>4, SettlersTold
      <4> QED
        BY <3>5, <4>3, <4>4 DEF Expiring
    <3>6. CASE Recording \/ World \/ UNCHANGED vars
      BY <1>1, <2>2, <3>6, StepsAside
    <3> QED
      BY <1>1, <3>3, <3>4, <3>5, <3>6 DEF Next
  <2> QED
    BY <2>1, <2>2
<1>2. IInv /\ PoolConsistent /\ Quiet /\ [Next]_vars
        => [state # "NONE" /\ state' # "DELETED" =>
              \/ UNCHANGED <<state, agent, payout_type, settlement_log>>
              \/ \E method \in MethodNames, sender \in Accounts :
                   LET call == [method |-> method, sender |-> sender]
                   IN  /\ Gateway!Passes(Boxes, call)
                       /\ Boxes' = Gateway!After(Boxes, call)
                       /\ TellsOutcome(LineOf(method))]_vars
  BY <1>1 DEF Answers
<1> QED
  BY <1>2, AlwaysIInv, EscrowPoolConsistent, NothingLogged, PTL
     DEF Spec, GatewayUnderstands

-----------------------------------------------------------------------------
(* Who is paid what.                                                       *)

\* From ledger L to ledger M account a receives n units.
Receives(L, M, a, n) ==
  /\ L \in Ledgers /\ M \in Ledgers /\ n \in Nat
  /\ M[a] = L[a] + n

\* What account a receives of n units paid to `to'.
Gets(to, a, n) == IF to = a THEN n ELSE 0

\* What account a receives of the fees.
FeesDue(a, primary, is_dispute) ==
  Gets(terms.creator, a, IF primary = terms.creator THEN 0
                        ELSE FeeCreator(terms.amount, PlatformFee))
    + Gets(terms.gateway, a, FeeGateway(terms.amount, PlatformFee, Routed))
    + Gets(terms.treasury, a, FeeTreasury(terms.amount, PlatformFee, Routed))
    + Gets(MediatorPayee(primary, is_dispute), a, FeeMediator(terms.amount))

\* What account a, which is not an evaluator, receives from a settlement that
\* leaves `rest' to the winner or to both parties.
SettlementDue(a, type, is_dispute, rest) ==
  IF type = "PAYOUT"
    THEN FeesDue(a, agent, is_dispute) + Gets(agent, a, rest)
    ELSE FeesDue(a, terms.creator, is_dispute) + Gets(terms.creator, a, rest)
           + (IF type = "SPLIT" THEN Gets(agent, a, rest) ELSE 0)

\* What votes for this option leave, after the evaluators' shares, to the
\* winner or to both parties.
RestAfterShares(option, votes) ==
  LET rest == Rest - ArbitratorShare(terms.amount, VoterCount(votes))
                       * VoterCount(votes)
  IN  IF option = 3 THEN rest \div 2 ELSE rest

\* A payment after others.
LEMMA ReceivesPay ==
  ASSUME NEW L, NEW M, NEW a \in Accounts, NEW n, Receives(L, M, a, n),
         NEW to \in Accounts, NEW k \in Nat
  PROVE  Receives(L, Pay(M, to, k), a, n + Gets(to, a, k))
<1>1. /\ L \in Ledgers /\ M \in Ledgers /\ n \in Nat /\ M[a] = L[a] + n
  BY DEF Receives
<1>2. App # a /\ App # to
  BY AddressAssumption
<1>3. L[a] \in Int /\ M[a] \in Int /\ M[to] \in Int /\ M[App] \in Int
  BY <1>1 DEF Ledgers
<1>4. Pay(M, to, k) \in Ledgers
  BY <1>1, <1>2, <1>3 DEF Ledgers, Pay
<1>5. Pay(M, to, k)[a] = M[a] + Gets(to, a, k)
  BY <1>1, <1>2, <1>3 DEF Ledgers, Pay, Gets
<1>6. Gets(to, a, k) \in Nat
  BY DEF Gets
<1>7. n + Gets(to, a, k) \in Nat /\ M[a] + Gets(to, a, k) = L[a] + (n + Gets(to, a, k))
  BY <1>1, <1>3, <1>6
<1> QED
  BY <1>1, <1>4, <1>5, <1>7 DEF Receives

\* The fee split gives every account its fees.
LEMMA FeeSplitDue ==
  ASSUME Deployed, NEW primary \in Accounts, NEW is_dispute \in BOOLEAN,
         NEW a \in Accounts
  PROVE  Receives(ledger, FeeSplit(ledger, primary, is_dispute), a,
                  FeesDue(a, primary, is_dispute))
<1> DEFINE c == FeeCreator(terms.amount, PlatformFee)
           g == FeeGateway(terms.amount, PlatformFee, Routed)
           t == FeeTreasury(terms.amount, PlatformFee, Routed)
           m == FeeMediator(terms.amount)
           r == IF primary = terms.creator THEN 0 ELSE c
           payee == MediatorPayee(primary, is_dispute)
           L1 == PayRoyalty(ledger, primary)
           L2 == PayGateway(L1)
           L3 == PayTreasury(L2)
           L4 == FeeSplit(ledger, primary, is_dispute)
           n1 == Gets(terms.creator, a, r)
           n2 == n1 + Gets(terms.gateway, a, g)
           n3 == n2 + Gets(terms.treasury, a, t)
<1>1. /\ terms.creator \in Accounts /\ terms.treasury \in Accounts
      /\ terms.mediator \in Accounts /\ terms.amount \in Nat
      /\ terms.gateway # Zero => terms.gateway \in Accounts
      /\ Routed \in BOOLEAN /\ payee \in Accounts /\ ledger \in Ledgers
  BY TermsTyped DEF Deployed, Routed, MediatorPayee
<1>2. c \in Nat /\ g \in Nat /\ t \in Nat
  BY <1>1, PlatformFeeParts DEF Deployed
<1>3. m \in Nat
  BY <1>1, MediatorFeeBound
<1>4. Receives(ledger, L1, a, n1)
  <2>1. Receives(ledger, ledger, a, 0)
    <3>1. ledger[a] \in Int
      BY <1>1 DEF Ledgers
    <3> QED
      BY <1>1, <3>1 DEF Receives
  <2>2. CASE primary = terms.creator
    <3>1. L1 = ledger /\ n1 = 0
      BY <2>2 DEF PayRoyalty, Gets
    <3> HIDE DEF L1, n1
    <3> QED
      BY <2>1, <3>1
  <2>3. CASE primary # terms.creator
    <3>1. L1 = Pay(ledger, terms.creator, c) /\ n1 = Gets(terms.creator, a, c)
      BY <2>3 DEF PayRoyalty
    <3>2. Gets(terms.creator, a, c) \in Nat
      <4> HIDE DEF c
      <4> QED
        BY <1>2 DEF Gets
    <3> HIDE DEF L1, n1, c
    <3>3. Receives(ledger, L1, a, 0 + n1)
      BY <1>1, <1>2, <2>1, <3>1, ReceivesPay
    <3> QED
      BY <3>1, <3>2, <3>3
  <2> QED
    BY <2>2, <2>3
<1>5. Receives(ledger, L2, a, n2)
  <2>1. CASE Routed
    <3>1. L2 = Pay(L1, terms.gateway, g)
      BY <2>1 DEF PayGateway
    <3>2. terms.gateway \in Accounts
      BY <1>1, <2>1 DEF Routed
    <3> HIDE DEF L1, L2, n1, g
    <3> QED
      BY <1>2, <1>4, <3>1, <3>2, ReceivesPay
  <2>2. CASE ~Routed
    <3>1. L2 = L1
      BY <2>2 DEF PayGateway
    <3>2. Gets(terms.gateway, a, g) = 0
      BY <2>2 DEF FeeGateway, Gets
    <3>3. n1 \in Nat
      BY <1>4 DEF Receives
    <3> HIDE DEF L1, L2, n1, g
    <3> QED
      BY <1>4, <3>1, <3>2, <3>3
  <2> QED
    BY <2>1, <2>2
<1>6. Receives(ledger, L3, a, n3)
  <2>1. L3 = Pay(L2, terms.treasury, t)
    BY DEF PayTreasury
  <2> HIDE DEF L2, L3, n2, t
  <2> QED
    BY <1>1, <1>2, <1>5, <2>1, ReceivesPay
<1>7. Receives(ledger, L4, a, n3 + Gets(payee, a, m))
  <2>1. L4 = Pay(L3, payee, m)
    BY DEF FeeSplit
  <2> HIDE DEF L3, L4, n3, m, payee
  <2> QED
    BY <1>1, <1>3, <1>6, <2>1, ReceivesPay
<1> QED
  BY <1>7 DEF FeesDue

\* A settlement of one winner gives every account its fees, the winner the rest.
LEMMA WinnerTakesDue ==
  ASSUME Deployed, NEW winner \in Accounts, NEW is_dispute \in BOOLEAN,
         NEW a \in Accounts
  PROVE  /\ Rest \in Nat
         /\ Receives(ledger, WinnerTakes(winner, is_dispute), a,
                     FeesDue(a, winner, is_dispute) + Gets(winner, a, Rest))
<1>1. Rest \in Nat
  BY FeeSplitMoves
<1> QED
  BY <1>1, FeeSplitDue, ReceivesPay DEF WinnerTakes

\* Halving gives both parties the same.
LEMMA HalveDue ==
  ASSUME NEW L, NEW M, NEW a \in Accounts, NEW n, Receives(L, M, a, n),
         NEW rest \in Nat, terms.creator \in Accounts, agent \in Accounts
  PROVE  /\ rest \div 2 \in Nat
         /\ Receives(L, Halve(M, rest), a,
                     n + Gets(terms.creator, a, rest \div 2)
                       + Gets(agent, a, rest \div 2))
<1> DEFINE half == rest \div 2
<1>1. half \in Nat
  BY RoundedDown
<1>2. Halve(M, rest) = Pay(Pay(M, terms.creator, half), agent, half)
  BY DEF Halve
<1> HIDE DEF half
<1>3. Receives(L, Pay(M, terms.creator, half), a, n + Gets(terms.creator, a, half))
  BY <1>1, ReceivesPay
<1>4. Receives(L, Halve(M, rest), a,
               n + Gets(terms.creator, a, half) + Gets(agent, a, half))
  BY <1>1, <1>2, <1>3, ReceivesPay
<1> QED
  BY <1>1, <1>4 DEF half

\* The evaluators' shares concern the evaluators only.
LEMMA PayVotersDue ==
  ASSUME NEW L, NEW M, NEW a \in Accounts, NEW n, Receives(L, M, a, n),
         NEW votes, NEW share \in Nat, evaluator \in [Seats -> Accounts],
         \A i \in Seats : evaluator[i] # a
  PROVE  Receives(L, PayVoters(M, votes, share), a, n)
<1> DEFINE Step(N, i) == IF votes[i] # 0 THEN Pay(N, evaluator[i], share) ELSE N
<1>1. n \in Nat
  BY DEF Receives
<1>2. ASSUME NEW N, Receives(L, N, a, n), NEW i \in Seats
      PROVE  Receives(L, Step(N, i), a, n)
  <2>1. CASE votes[i] # 0
    <3>1. evaluator[i] \in Accounts
      OBVIOUS
    <3>2. Receives(L, Pay(N, evaluator[i], share), a, n + Gets(evaluator[i], a, share))
      BY <1>2, <3>1, ReceivesPay
    <3>3. n + Gets(evaluator[i], a, share) = n
      BY <1>1 DEF Gets
    <3> QED
      BY <2>1, <3>2, <3>3
  <2>2. CASE votes[i] = 0
    BY <1>2, <2>2
  <2> QED
    BY <2>1, <2>2
<1>3. 1 \in Seats /\ 2 \in Seats /\ 3 \in Seats
  BY DEF Seats
<1>4. PayVoters(M, votes, share) = Step(Step(Step(M, 1), 2), 3)
  BY DEF PayVoters
<1> HIDE DEF Step
<1>5. Receives(L, Step(Step(M, 1), 2), a, n)
  BY <1>2, <1>3
<1> QED
  BY <1>2, <1>3, <1>4, <1>5

\* The evaluators' shares fit into what the fees leave.
LEMMA SharesFit ==
  ASSUME Deployed, NEW option, NEW votes, VoterCount(votes) \in 1 .. 3
  PROVE  /\ ArbitratorShare(terms.amount, VoterCount(votes)) \in Nat
         /\ Rest - ArbitratorShare(terms.amount, VoterCount(votes))
                    * VoterCount(votes) \in Nat
         /\ RestAfterShares(option, votes) \in Nat
<1> DEFINE count == VoterCount(votes)
           share == ArbitratorShare(terms.amount, count)
           dues  == share * count
           rest  == Rest - dues
<1>1. terms.creator \in Accounts /\ terms.amount \in Nat /\ Routed \in BOOLEAN
  BY TermsTyped DEF Deployed, Routed
<1>2. Rest \in Nat
  BY <1>1, FeeSplitMoves
<1>3. share \in Nat /\ dues <= Rest
  BY <1>1, ArbitratorShareBound DEF Deployed, Rest
<1>4. dues \in Nat
  <2>1. count \in Nat
    OBVIOUS
  <2> HIDE DEF count, share
  <2> QED
    BY <1>3, <2>1, ProductBound
<1>5. rest \in Nat
  <2> HIDE DEF dues
  <2> QED
    BY <1>2, <1>3, <1>4
<1>6. RestAfterShares(option, votes) = IF option = 3 THEN rest \div 2 ELSE rest
  BY DEF RestAfterShares
<1>7. RestAfterShares(option, votes) \in Nat
  <2> HIDE DEF rest
  <2> QED
    BY <1>5, <1>6, RoundedDown
<1> QED
  BY <1>3, <1>5, <1>7

\* A settlement by votes gives the other accounts what one of its kind does.
LEMMA ArbitrationDue ==
  ASSUME Deployed, evaluator \in [Seats -> Accounts], NEW option \in 1 .. 3,
         NEW votes, VoterCount(votes) \in 1 .. 3, NEW a \in Accounts,
         \A i \in Seats : evaluator[i] # a
  PROVE  /\ RestAfterShares(option, votes) \in Nat
         /\ Receives(ledger, ArbitrationPays(option, votes), a,
                     SettlementDue(a, Outcome(option).type, TRUE,
                                   RestAfterShares(option, votes)))
<1> DEFINE count  == VoterCount(votes)
           share  == ArbitratorShare(terms.amount, count)
           dues   == share * count
           rest   == Rest - dues
           winner == IF option = 1 THEN agent ELSE terms.creator
           split  == FeeSplit(ledger, winner, TRUE)
           paid   == PayVoters(split, votes, share)
           n      == FeesDue(a, winner, TRUE)
<1>1. /\ terms.creator \in Accounts /\ terms.amount \in Nat
      /\ agent \in Accounts /\ winner \in Accounts /\ Routed \in BOOLEAN
  BY TermsTyped DEF Deployed, Routed
<1>2. share \in Nat
  BY SharesFit
<1>3. rest \in Nat /\ RestAfterShares(option, votes) \in Nat
  BY SharesFit
<1>4. Receives(ledger, split, a, n)
  <2> HIDE DEF winner
  <2> QED
    BY <1>1, FeeSplitDue
<1>5. Receives(ledger, paid, a, n)
  <2> HIDE DEF share, split, n
  <2> QED
    BY <1>2, <1>4, PayVotersDue
<1>6. ArbitrationPays(option, votes)
        = IF option = 3 THEN Halve(paid, rest) ELSE Pay(paid, winner, rest)
  BY DEF ArbitrationPays
<1>7. /\ option = 1 => winner = agent /\ Outcome(option).type = "PAYOUT"
      /\ option = 2 => winner = terms.creator /\ Outcome(option).type = "REFUND"
      /\ option = 3 => winner = terms.creator /\ Outcome(option).type = "SPLIT"
  BY DEF Outcome
<1>8. n = FeesDue(a, winner, TRUE)
  OBVIOUS
<1>9. RestAfterShares(option, votes) = IF option = 3 THEN rest \div 2 ELSE rest
  BY DEF RestAfterShares
<1>10. n \in Nat
  BY <1>4 DEF Receives
<1> HIDE DEF paid, rest, winner, dues, split, n
<1>11. CASE option = 3
  <2> DEFINE half == rest \div 2
  <2>1. /\ half \in Nat
        /\ Receives(ledger, Halve(paid, rest), a,
                    n + Gets(terms.creator, a, half) + Gets(agent, a, half))
    BY <1>1, <1>3, <1>5, HalveDue
  <2>2. SettlementDue(a, Outcome(option).type, TRUE, half)
          = n + Gets(terms.creator, a, half) + Gets(agent, a, half)
    BY <1>7, <1>8, <1>11 DEF SettlementDue
  <2>3. RestAfterShares(option, votes) = half
    BY <1>11, <1>9
  <2> HIDE DEF half
  <2> QED
    BY <1>6, <1>11, <2>1, <2>2, <2>3
<1>12. CASE option # 3
  <2>1. Receives(ledger, Pay(paid, winner, rest), a, n + Gets(winner, a, rest))
    BY <1>1, <1>3, <1>5, ReceivesPay
  <2>2. SettlementDue(a, Outcome(option).type, TRUE, rest) = n + Gets(winner, a, rest)
    <3> DEFINE w == Gets(winner, a, rest)
    <3>1. w \in Nat
      BY <1>3 DEF Gets
    <3>2. n + w \in Nat
      <4> HIDE DEF w
      <4> QED
        BY <1>10, <3>1
    <3>3. CASE option = 1
      BY <1>7, <1>8, <3>3 DEF SettlementDue
    <3>4. CASE option = 2
      <4>1. SettlementDue(a, Outcome(option).type, TRUE, rest) = n + w + 0
        BY <1>7, <1>8, <3>4 DEF SettlementDue
      <4>2. n + w + 0 = n + w
        <5> HIDE DEF w
        <5> QED
          BY <1>10, <3>1
      <4> QED
        BY <4>1, <4>2
    <3>5. option = 1 \/ option = 2
      BY <1>12
    <3> QED
      BY <3>3, <3>4, <3>5
  <2>3. RestAfterShares(option, votes) = rest
    BY <1>12, <1>9
  <2> QED
    BY <1>3, <1>6, <1>12, <2>1, <2>2, <2>3
<1> QED
  BY <1>11, <1>12

\* A settlement has paid every account but the evaluators what is due to it;
\* the panel tells whether the bounty was disputed.
PaidAsDue ==
  LET disputed == evaluator[1] # Zero
  IN  state = "CLOSED" =>
        /\ payout_type \in {"PAYOUT", "REFUND", "SPLIT"}
        /\ payout_type = "SPLIT" => disputed
        /\ \E rest \in Nat : \A a \in Accounts :
             (\A i \in Seats : evaluator[i] # a) =>
               ledger[a] = SettlementDue(a, payout_type, disputed, rest)

\* Before a dispute there is no panel.
PanelSeated ==
  state \in {"NONE", "OPEN", "CLAIMED", "SUBMITTED", "REJECTED"} =>
    evaluator = [i \in Seats |-> Zero]

\* What is due depends on the terms and the agent only.
LEMMA DueStays ==
  ASSUME UNCHANGED <<terms, agent>>, NEW a, NEW type, NEW is_dispute, NEW rest
  PROVE  SettlementDue(a, type, is_dispute, rest)'
           = SettlementDue(a, type, is_dispute, rest)
BY DEF SettlementDue, FeesDue, MediatorPayee, Routed

\* A settling method pays as due if its payments are.
LEMMA SettlePays ==
  ASSUME SettlementRecorded, state \in Posted,
         NEW type \in {"PAYOUT", "REFUND", "SPLIT"}, NEW logged, NEW L,
         Settle(type, logged, L), UNCHANGED evaluator,
         NEW disputed \in BOOLEAN, disputed = (evaluator[1] # Zero),
         type = "SPLIT" => disputed, NEW rest \in Nat,
         \A a \in Accounts : (\A i \in Seats : evaluator[i] # a) =>
           Receives(ledger, L, a, SettlementDue(a, type, disputed, rest))
  PROVE  PaidAsDue'
<1>1. /\ payout_type' = type /\ ledger' = L /\ UNCHANGED <<terms, agent>>
      /\ evaluator' = evaluator
  BY DEF Settle, Close
<1>2. ASSUME NEW a \in Accounts, \A i \in Seats : evaluator[i] # a
      PROVE  L[a] = SettlementDue(a, type, disputed, rest)
  <2>1. Receives(ledger, L, a, SettlementDue(a, type, disputed, rest))
    BY <1>2
  <2>2. ledger[a] = 0
    BY DEF SettlementRecorded
  <2> QED
    BY <2>1, <2>2 DEF Receives
<1>3. ASSUME NEW a \in Accounts, \A i \in Seats : evaluator[i] # a
      PROVE  ledger'[a] = SettlementDue(a, type, disputed, rest)'
  BY <1>1, <1>2, <1>3, DueStays
<1> QED
  BY <1>1, <1>3 DEF PaidAsDue

\* The winner of a settlement without votes is paid as due.
LEMMA WinnerPays ==
  ASSUME SettlementRecorded, state \in Posted, Deployed,
         NEW type \in {"PAYOUT", "REFUND"}, NEW logged,
         NEW winner, winner = IF type = "PAYOUT" THEN agent ELSE terms.creator,
         NEW disputed \in BOOLEAN, disputed = (evaluator[1] # Zero),
         Settle(type, logged, WinnerTakes(winner, disputed)), UNCHANGED evaluator
  PROVE  PaidAsDue'
<1>1. terms.creator \in Accounts /\ agent \in Accounts /\ winner \in Accounts
  BY TermsTyped DEF Deployed
<1>2. Rest \in Nat
  BY <1>1, FeeSplitMoves
<1>3. ASSUME NEW a \in Accounts
      PROVE  Receives(ledger, WinnerTakes(winner, disputed), a,
                      SettlementDue(a, type, disputed, Rest))
  <2> DEFINE n == FeesDue(a, winner, disputed) + Gets(winner, a, Rest)
  <2>1. /\ Rest \in Nat /\ n \in Nat
        /\ Receives(ledger, WinnerTakes(winner, disputed), a, n)
    BY <1>1, WinnerTakesDue DEF Receives
  <2>2. SettlementDue(a, type, disputed, Rest) = n
    <3>1. CASE type = "PAYOUT"
      BY <3>1 DEF SettlementDue
    <3>2. CASE type = "REFUND"
      <4>1. SettlementDue(a, type, disputed, Rest) = n + 0
        BY <3>2 DEF SettlementDue
      <4> QED
        BY <2>1, <4>1
    <3> QED
      BY <3>1, <3>2
  <2> QED
    BY <2>1, <2>2
<1> QED
  BY <1>3, <1>2, SettlePays

\* So are the parties of a dispute its votes decide.
LEMMA VotesPay ==
  ASSUME IInv, SettlementRecorded, NEW s \in Accounts, NEW option \in 1 .. 3,
         VoteDispute(s, option), state' = "CLOSED"
  PROVE  PaidAsDue'
<1> DEFINE decided == Consensus(vote')
           L == ArbitrationPays(decided, vote')
<1>1. state = "DISPUTED" /\ evaluator' = evaluator
  BY DEF VoteDispute
<1>2. PICK i \in Seats : vote' = [vote EXCEPT ![i] = option]
  BY DEF VoteDispute, PendingSeats
<1>3. vote' \in [Seats -> 0 .. 3]
  <2>1. vote \in [Seats -> 0 .. 3]
    BY DEF IInv, TypeOK
  <2> QED
    BY <1>2, <2>1
<1>4. decided # 0
  BY <1>1 DEF VoteDispute
<1>5. decided \in 1 .. 3 /\ VoterCount(vote') \in 1 .. 3
  BY <1>3, <1>4, ConsensusTyped
<1>6. Settle(Outcome(decided).type, Outcome(decided).log, L)
  BY <1>4 DEF VoteDispute
<1>7. Deployed /\ evaluator \in [Seats -> Accounts]
  BY <1>1, SettlersDeployed DEF IInv, VotesUndecided
<1>8. (evaluator[1] # Zero) = TRUE
  BY <1>7, AddressAssumption DEF Seats
<1> HIDE DEF decided
<1>9. Outcome(decided).type \in {"PAYOUT", "REFUND", "SPLIT"}
  BY <1>5 DEF Outcome
<1> DEFINE rest == RestAfterShares(decided, vote')
<1>10. \A a \in Accounts : (\A j \in Seats : evaluator[j] # a) =>
         Receives(ledger, L, a,
                  SettlementDue(a, Outcome(decided).type, TRUE, rest))
  BY <1>5, <1>7, ArbitrationDue
<1>11. rest \in Nat
  BY <1>5, <1>7, SharesFit
<1>12. state \in Posted
  BY <1>1 DEF Posted
<1> HIDE DEF L, rest
<1> QED
  BY <1>1, <1>6, <1>8, <1>9, <1>10, <1>12, <1>11, SettlePays

\* A timed-out dispute is split as due.
LEMMA TimeoutPays ==
  ASSUME IInv, SettlementRecorded, TimeoutDispute
  PROVE  PaidAsDue'
<1> DEFINE L == Halve(FeeSplit(ledger, terms.creator, TRUE), Rest)
<1>1. /\ state = "DISPUTED" /\ evaluator' = evaluator
      /\ Settle("SPLIT", "dispute_timeout_split", L)
  BY DEF TimeoutDispute, panelVars
<1>2. Deployed /\ evaluator \in [Seats -> Accounts]
  BY <1>1, SettlersDeployed DEF IInv, VotesUndecided
<1>3. (evaluator[1] # Zero) = TRUE
  BY <1>2, AddressAssumption DEF Seats
<1>4. terms.creator \in Accounts /\ agent \in Accounts /\ Rest \in Nat
  BY <1>2, TermsTyped, FeeSplitMoves DEF Deployed
<1> DEFINE half == Rest \div 2
<1>5. half \in Nat
  BY <1>4, RoundedDown
<1>6. ASSUME NEW a \in Accounts
      PROVE  Receives(ledger, L, a, SettlementDue(a, "SPLIT", TRUE, half))
  <2>1. Receives(ledger, FeeSplit(ledger, terms.creator, TRUE), a,
                 FeesDue(a, terms.creator, TRUE))
    BY <1>2, <1>4, FeeSplitDue
  <2>2. Receives(ledger, L, a,
                   FeesDue(a, terms.creator, TRUE)
                     + Gets(terms.creator, a, half) + Gets(agent, a, half))
    BY <1>4, <2>1, HalveDue
  <2>3. SettlementDue(a, "SPLIT", TRUE, half)
          = FeesDue(a, terms.creator, TRUE)
              + Gets(terms.creator, a, half) + Gets(agent, a, half)
    BY DEF SettlementDue
  <2> QED
    BY <2>2, <2>3
<1>7. state \in Posted
  BY <1>1 DEF Posted
<1> HIDE DEF L, half
<1> QED
  BY <1>1, <1>3, <1>6, <1>7, <1>5, SettlePays

\* Every call that closes the bounty pays as due.
LEMMA ClosingPays ==
  ASSUME IInv, PoolConsistent, SettlementRecorded, PanelSeated, [Next]_vars,
         state # "CLOSED", state' = "CLOSED"
  PROVE  PaidAsDue'
<1>1. ASSUME state \in {"SUBMITTED", "REJECTED"}
      PROVE  (evaluator[1] # Zero) = FALSE
  BY <1>1 DEF PanelSeated, Seats
<1>2. ASSUME state = "DISPUTED"
      PROVE  (evaluator[1] # Zero) = TRUE
  BY <1>2, AddressAssumption DEF IInv, VotesUndecided, Seats
<1>3. ASSUME state \in {"SUBMITTED", "REJECTED", "DISPUTED"}
      PROVE  Deployed /\ state \in Posted
  BY <1>3, SettlersDeployed DEF Posted
<1>4. ASSUME NEW s \in Accounts, ApproveWork(s) PROVE PaidAsDue'
  <2>1. /\ state = "SUBMITTED" /\ evaluator' = evaluator
        /\ Settle("PAYOUT", "work_approved", WinnerTakes(agent, FALSE))
    BY <1>4 DEF ApproveWork, panelVars
  <2> QED
    BY <1>1, <1>3, <2>1, WinnerPays
<1>5. ASSUME NEW s \in Accounts, ClaimAbandoned(s) PROVE PaidAsDue'
  <2>1. /\ state = "REJECTED" /\ evaluator' = evaluator
        /\ Settle("REFUND", "abandoned_refunded_creator",
                  WinnerTakes(terms.creator, FALSE))
    BY <1>5 DEF ClaimAbandoned, panelVars
  <2> QED
    BY <1>1, <1>3, <2>1, WinnerPays
<1>6. CASE AutoRelease
  <2>1. /\ state = "SUBMITTED" /\ evaluator' = evaluator
        /\ Settle("PAYOUT", "auto_released_hitm", WinnerTakes(agent, FALSE))
    BY <1>6 DEF AutoRelease, panelVars
  <2> QED
    BY <1>1, <1>3, <2>1, WinnerPays
<1>7. ASSUME NEW resolution, ResolveDispute(resolution) PROVE PaidAsDue'
  <2>1. /\ state = "DISPUTED" /\ evaluator' = evaluator
        /\ \/ Settle("PAYOUT", "dispute_resolved_agent_win",
                     WinnerTakes(agent, TRUE))
           \/ Settle("REFUND", "dispute_resolved_creator_win",
                     WinnerTakes(terms.creator, TRUE))
    BY <1>7 DEF ResolveDispute, panelVars
  <2>2. CASE Settle("PAYOUT", "dispute_resolved_agent_win",
                    WinnerTakes(agent, TRUE))
    BY <1>2, <1>3, <2>1, <2>2, WinnerPays
  <2>3. CASE Settle("REFUND", "dispute_resolved_creator_win",
                    WinnerTakes(terms.creator, TRUE))
    BY <1>2, <1>3, <2>1, <2>3, WinnerPays
  <2> QED
    BY <2>1, <2>2, <2>3
<1>8. CASE AutoResolveCreatorWin
  <2>1. /\ state = "DISPUTED" /\ evaluator' = evaluator
        /\ Settle("REFUND", "dispute_auto_resolved_creator_win",
                  WinnerTakes(terms.creator, TRUE))
    BY <1>8 DEF AutoResolveCreatorWin, AutoResolvable, panelVars
  <2> QED
    BY <1>2, <1>3, <2>1, WinnerPays
<1>9. CASE Opening
  BY <1>9 DEF Opening, CreateBounty, ClaimBounty, SubmitFirst, SubmitRevision,
              StartReview, RejectWork, SubmitDispute, EscalateToDispute, OpenDispute
<1>10. CASE Deciding
  <2>1. ASSUME NEW s \in Accounts, DeleteBounty(s) PROVE PaidAsDue'
    BY <2>1 DEF DeleteBounty
  <2> QED
    BY <1>4, <1>5, <1>7, <1>10, <2>1, VotesPay DEF Deciding
<1>11. CASE Expiring
  <2>1. ASSUME ExpireClaim PROVE PaidAsDue'
    BY <2>1 DEF ExpireClaim, Reopen
  <2> QED
    BY <1>6, <1>8, <1>11, <2>1, TimeoutPays DEF Expiring
<1>12. CASE Recording \/ World \/ UNCHANGED vars
  <2>1. Aside
    BY <1>12, StepsAside
  <2> QED
    BY <2>1 DEF Aside
<1> QED
  BY <1>9, <1>10, <1>11, <1>12 DEF Next

\* The panel is seated with the dispute, and whatever closes the bounty pays as
\* due; nobody but the creator, who deletes the application, receives anything
\* after that.
LEMMA AlwaysPaidAsDue == Spec => [](PaidAsDue /\ PanelSeated)
<1>1. Init => PaidAsDue /\ PanelSeated
  <2> SUFFICES ASSUME Init PROVE PaidAsDue /\ PanelSeated
    OBVIOUS
  <2>1. state = "NONE" /\ evaluator = [i \in Seats |-> Zero]
    BY DEF Init
  <2> QED
    BY <2>1 DEF PaidAsDue, PanelSeated
<1>2. ASSUME IInv, PoolConsistent, SettlementRecorded, PaidAsDue, PanelSeated,
             [Next]_vars
      PROVE  PaidAsDue' /\ PanelSeated'
  <2>1. PanelSeated'
    <3>1. ASSUME NEW d \in Deployments, CreateBounty(d) PROVE PanelSeated'
      BY <1>2, <3>1 DEF CreateBounty, PanelSeated, panelVars
    <3>2. ASSUME NEW s \in Accounts,
                 \/ ClaimBounty(s) \/ SubmitFirst(s) \/ SubmitRevision(s)
                 \/ RejectWork(s) \/ DeleteBounty(s)
          PROVE  PanelSeated'
      BY <1>2, <3>2 DEF ClaimBounty, SubmitFirst, SubmitRevision, StartReview,
                        RejectWork, DeleteBounty, PanelSeated, panelVars
    <3>3. CASE ExpireClaim
      BY <1>2, <3>3 DEF ExpireClaim, Expirable, Reopen, PanelSeated, panelVars
    <3>4. CASE Disputed
      BY <3>4 DEF Disputed, PanelSeated
    <3>5. CASE Voted \/ Settled \/ Aside
      BY <1>2, <3>5 DEF Voted, Settled, Aside, PanelSeated, panelVars
    <3> QED
      BY <1>2, <3>1, <3>2, <3>3, <3>4, <3>5, StepKinds
  <2>2. CASE state' # "CLOSED"
    BY <2>1, <2>2 DEF PaidAsDue
  <2>3. CASE state # "CLOSED" /\ state' = "CLOSED"
    BY <1>2, <2>1, <2>3, ClosingPays
  <2>4. CASE state = "CLOSED" /\ state' = "CLOSED"
    <3>1. Aside
      <4>1. ASSUME NEW d \in Deployments, CreateBounty(d) PROVE FALSE
        BY <2>4, <4>1 DEF CreateBounty
      <4>2. ASSUME NEW s \in Accounts,
                   \/ ClaimBounty(s) \/ SubmitFirst(s) \/ SubmitRevision(s)
                   \/ RejectWork(s) \/ DeleteBounty(s)
            PROVE  FALSE
        BY <2>4, <4>2 DEF ClaimBounty, SubmitFirst, SubmitRevision, RejectWork,
                          DeleteBounty
      <4>3. ~ExpireClaim /\ ~Disputed /\ ~Voted /\ ~Settled
        BY <2>4 DEF ExpireClaim, Expirable, Disputed, Voted, Settled
      <4> QED
        BY <1>2, <4>1, <4>2, <4>3, StepKinds
    <3>2. /\ UNCHANGED <<terms, agent>> /\ evaluator' = evaluator
          /\ payout_type' = payout_type
          /\ \A a \in Accounts : ledger'[a] = ledger[a]
      BY <3>1 DEF Aside, panelVars
    <3> DEFINE disputed == evaluator[1] # Zero
    <3>3. PICK rest \in Nat : \A a \in Accounts :
            (\A i \in Seats : evaluator[i] # a) =>
              ledger[a] = SettlementDue(a, payout_type, disputed, rest)
      BY <1>2, <2>4 DEF PaidAsDue
    <3>4. ASSUME NEW a \in Accounts, \A i \in Seats : evaluator[i] # a
          PROVE  ledger'[a] = SettlementDue(a, payout_type, disputed, rest)'
      <4>1. ledger[a] = SettlementDue(a, payout_type, disputed, rest)
        BY <3>4, <3>3
      <4>2. SettlementDue(a, payout_type, disputed, rest)'
              = SettlementDue(a, payout_type, disputed, rest)
        BY <3>2, DueStays
      <4> QED
        BY <3>2, <3>4, <4>1, <4>2
    <3> QED
      BY <1>2, <2>1, <2>4, <3>2, <3>4 DEF PaidAsDue
  <2> QED
    BY <2>1, <2>2, <2>3, <2>4
<1> QED
  BY <1>1, <1>2, AlwaysIInv, EscrowPoolConsistent, SettlementAlwaysRecorded, PTL
     DEF Spec

\* What a closed bounty has to say of its parties.
LEMMA ClosedParties ==
  ASSUME IInv, state = "CLOSED"
  PROVE  /\ Deployed /\ agent # terms.creator
         /\ terms.creator \in Accounts /\ terms.treasury \in Accounts
         /\ terms.mediator \in Accounts /\ terms.amount \in Nat
         /\ FeeCreator(terms.amount, PlatformFee) \in Nat
         /\ FeeMediator(terms.amount) \in Nat
<1>1. /\ terms \in Terms /\ agent \in Accounts \ {terms.creator}
  BY DEF IInv, AgentAssigned, Engaged
<1>2. PlatformFee \in 0 .. MaxPlatformFee
  BY NumberAssumption DEF IInv, Priced, MaxPlatformFee
<1>3. ledger \in Ledgers
  <2>1. ledger \in [Accounts \cup {App} -> Nat]
    BY DEF IInv, TypeOK
  <2> QED
    BY <2>1 DEF Ledgers
<1>4. Routed \in BOOLEAN
  BY DEF Routed
<1> QED
  BY <1>1, <1>2, <1>3, <1>4, TermsTyped, PlatformFeeParts, MediatorFeeBound
     DEF Deployed

\* What is due to an account that is neither gateway, treasury, mediator nor
\* evaluator.
LEMMA PartyDue ==
  ASSUME NEW a, a \notin Earners, NEW primary, NEW is_dispute \in BOOLEAN
  PROVE  FeesDue(a, primary, is_dispute)
           = (IF a = terms.creator /\ primary # terms.creator
                THEN FeeCreator(terms.amount, PlatformFee) ELSE 0)
             + 0 + 0
             + (IF a = primary /\ (terms.hitm = 1 \/ ~is_dispute)
                  THEN FeeMediator(terms.amount) ELSE 0)
<1>1. a # terms.gateway /\ a # terms.treasury /\ a # terms.mediator
  BY DEF Earners
<1>2. /\ Gets(terms.gateway, a, FeeGateway(terms.amount, PlatformFee, Routed)) = 0
      /\ Gets(terms.treasury, a, FeeTreasury(terms.amount, PlatformFee, Routed)) = 0
  BY <1>1 DEF Gets
<1>3. Gets(MediatorPayee(primary, is_dispute), a, FeeMediator(terms.amount))
        = IF a = primary /\ (terms.hitm = 1 \/ ~is_dispute)
            THEN FeeMediator(terms.amount) ELSE 0
  BY <1>1 DEF Gets, MediatorPayee
<1>4. Gets(terms.creator, a, IF primary = terms.creator THEN 0
                            ELSE FeeCreator(terms.amount, PlatformFee))
        = IF a = terms.creator /\ primary # terms.creator
            THEN FeeCreator(terms.amount, PlatformFee) ELSE 0
  BY DEF Gets
<1> QED
  BY <1>2, <1>3, <1>4 DEF FeesDue

\* The loser of a settlement is not paid, the winner is, and nobody without a
\* role is, for any roles, amounts, rates and panels.
THEOREM AlwaysPaidByRole == Spec => []PaidByRole
<1>1. ASSUME IInv, PaidAsDue PROVE PaidByRole
  <2> SUFFICES ASSUME state = "CLOSED" PROVE PaidByRole
    BY DEF PaidByRole
  <2> DEFINE d == evaluator[1] # Zero
             c == FeeCreator(terms.amount, PlatformFee)
             m == FeeMediator(terms.amount)
  <2>1. /\ agent # terms.creator /\ terms.creator \in Accounts
        /\ agent \in Accounts /\ c \in Nat /\ m \in Nat
    BY <1>1, ClosedParties DEF Deployed
  <2>2. /\ payout_type \in {"PAYOUT", "REFUND", "SPLIT"}
        /\ payout_type = "SPLIT" => d
        /\ d \in BOOLEAN
    BY <1>1 DEF PaidAsDue
  <2>3. PICK rest \in Nat : \A a \in Accounts : a \notin Earners =>
          ledger[a] = SettlementDue(a, payout_type, d, rest)
    BY <1>1 DEF PaidAsDue, Earners
  <2>4. ASSUME payout_type = "REFUND", agent \notin Earners
        PROVE  ledger[agent] = 0
    <3>1. ledger[agent] = SettlementDue(agent, "REFUND", d, rest)
      BY <2>1, <2>3, <2>4
    <3>2. FeesDue(agent, terms.creator, d) = 0 + 0 + 0 + 0
      BY <2>1, <2>4, PartyDue
    <3> QED
      BY <2>1, <3>1, <3>2 DEF SettlementDue, Gets
  <2>5. ASSUME payout_type = "PAYOUT", terms.creator \notin Earners
        PROVE  ledger[terms.creator] = c
    <3>1. ledger[terms.creator] = SettlementDue(terms.creator, "PAYOUT", d, rest)
      BY <2>1, <2>3, <2>5
    <3>2. FeesDue(terms.creator, agent, d) = c + 0 + 0 + 0
      BY <2>1, <2>5, PartyDue
    <3> HIDE DEF c
    <3> QED
      BY <2>1, <3>1, <3>2 DEF SettlementDue, Gets
  <2>6. ASSUME payout_type = "SPLIT", {agent, terms.creator} \cap Earners = {}
        PROVE  ledger[terms.creator]
                 = ledger[agent] + (IF terms.hitm = 1 THEN m ELSE 0)
    <3>1. agent \notin Earners /\ terms.creator \notin Earners /\ d
      BY <2>2, <2>6
    <3>2. /\ ledger[agent] = SettlementDue(agent, "SPLIT", d, rest)
          /\ ledger[terms.creator] = SettlementDue(terms.creator, "SPLIT", d, rest)
      BY <2>1, <2>3, <2>6, <3>1
    <3>3. /\ FeesDue(agent, terms.creator, d) = 0 + 0 + 0 + 0
          /\ FeesDue(terms.creator, terms.creator, d)
               = 0 + 0 + 0 + (IF terms.hitm = 1 THEN m ELSE 0)
      BY <2>1, <2>2, <3>1, PartyDue
    <3> HIDE DEF m
    <3> QED
      BY <2>1, <3>2, <3>3 DEF SettlementDue, Gets
  <2>7. ASSUME NEW a \in Accounts \ (Earners \cup {agent, terms.creator})
        PROVE  ledger[a] = 0
    <3>1. ledger[a] = SettlementDue(a, payout_type, d, rest)
      BY <2>3, <2>7
    <3>2. /\ FeesDue(a, terms.creator, d) = 0 + 0 + 0 + 0
          /\ FeesDue(a, agent, d) = 0 + 0 + 0 + 0
      <4>1. a \notin Earners /\ a # terms.creator /\ a # agent
        BY <2>7
      <4> QED
        BY <2>2, <4>1, PartyDue
    <3> QED
      BY <2>7, <3>1, <3>2 DEF SettlementDue, Gets
  <2> QED
    BY <2>4, <2>5, <2>6, <2>7 DEF PaidByRole
<1> QED
  BY <1>1, AlwaysIInv, AlwaysPaidAsDue, PTL

\* A mediator without another role receives its fee from a disputed bounty
\* without human review, and nothing else, for any terms and panels.
THEOREM MediatorFeeAlwaysFollowsDispute == Spec => []MediatorFeeFollowsDispute
<1>1. ASSUME IInv, PaidAsDue PROVE MediatorFeeFollowsDispute
  <2> DEFINE d == evaluator[1] # Zero
             a == terms.mediator
             m == FeeMediator(terms.amount)
             others == {terms.creator, agent, terms.treasury, terms.gateway}
                         \cup {evaluator[i] : i \in Seats}
  <2> SUFFICES ASSUME state = "CLOSED", a \notin others
               PROVE  ledger[a] = IF terms.hitm = 0 /\ d THEN m ELSE 0
    BY DEF MediatorFeeFollowsDispute
  <2>1. /\ a \in Accounts /\ m \in Nat /\ terms.hitm \in {0, 1}
    BY <1>1, ClosedParties DEF Deployed, Terms
  <2>2. /\ payout_type \in {"PAYOUT", "REFUND", "SPLIT"} /\ d \in BOOLEAN
    BY <1>1 DEF PaidAsDue
  <2>3. /\ a # terms.creator /\ a # agent /\ a # terms.treasury
        /\ a # terms.gateway /\ \A i \in Seats : evaluator[i] # a
    OBVIOUS
  <2>4. PICK rest \in Nat : ledger[a] = SettlementDue(a, payout_type, d, rest)
    BY <1>1, <2>1, <2>3 DEF PaidAsDue
  <2>5. ASSUME NEW primary \in {terms.creator, agent}
        PROVE  FeesDue(a, primary, d) = 0 + 0 + 0 + (IF terms.hitm = 0 /\ d THEN m ELSE 0)
    <3>1. MediatorPayee(primary, d) = a <=> terms.hitm = 0 /\ d
      BY <2>1, <2>2, <2>3, <2>5 DEF MediatorPayee
    <3> QED
      BY <2>3, <3>1 DEF FeesDue, Gets
  <2>6. SettlementDue(a, payout_type, d, rest)
          = FeesDue(a, IF payout_type = "PAYOUT" THEN agent ELSE terms.creator, d)
              + 0 + (IF payout_type = "PAYOUT" THEN 0 ELSE 0)
    <3>1. FeesDue(a, agent, d) \in Nat /\ FeesDue(a, terms.creator, d) \in Nat
      BY <2>1, <2>5
    <3>2. Gets(agent, a, rest) = 0 /\ Gets(terms.creator, a, rest) = 0
      BY <2>3 DEF Gets
    <3> QED
      BY <3>1, <3>2 DEF SettlementDue
  <2> HIDE DEF d, m, a
  <2> QED
    BY <2>1, <2>4, <2>5, <2>6
<1> QED
  BY <1>1, AlwaysIInv, AlwaysPaidAsDue, PTL

\* The units of a settlement all reach the accounts, but for the skipped
\* royalty and the odd unit, for any number of accounts and every coincidence
\* of roles.
THEOREM AlwaysReceivedInFull == Spec => []ReceivedInFull
<1>1. Init => ReceivedInFull
  BY DEF Init, ReceivedInFull
<1>2. ASSUME IInv, PoolConsistent, SettlementRecorded, ReceivedInFull,
             [Next]_vars
      PROVE  ReceivedInFull'
  <2>1. CASE state' # "CLOSED"
    BY <2>1 DEF ReceivedInFull
  <2>2. CASE Settled
    <3>1. PICK n \in Nat : Moves(ledger, ledger', n) /\ InFull(payout_type', n)
      BY <2>2 DEF Settled
    <3>2. Received(ledger) = 0
      <4>1. \A a \in Accounts : ledger[a] = 0
        BY <1>2, <2>2 DEF Settled, SettlementRecorded, Posted
      <4> QED
        BY <4>1, ReceivedNothing
    <3>3. Received(ledger') = n
      BY <3>1, <3>2 DEF Moves
    <3>4. Received(ledger') = Received(ledger)'
      BY DEF Received, MapThenSumSet, MapThenFoldSet
    <3>5. InFull(payout_type', n) = InFull(payout_type, Received(ledger))'
      BY <2>2, <3>3, <3>4 DEF Settled, InFull
    <3> QED
      BY <3>1, <3>5 DEF ReceivedInFull
  <2>3. CASE Aside
    <3>1. \A a \in Accounts : ledger[a] \in Int /\ ledger'[a] = ledger[a]
      <4>1. ledger \in [Accounts \cup {App} -> Nat]
        BY <1>2 DEF IInv, TypeOK
      <4>2. \A a \in Accounts : ledger'[a] = ledger[a]
        BY <2>3 DEF Aside
      <4> QED
        BY <4>1, <4>2
    <3>2. Received(ledger)' = Received(ledger)
      <4>1. Received(ledger') = Received(ledger)
        BY <3>1, ReceivedStays
      <4> QED
        BY <4>1 DEF Received, MapThenSumSet, MapThenFoldSet
    <3>3. InFull(payout_type, Received(ledger))' = InFull(payout_type, Received(ledger))
      BY <2>3, <3>2 DEF Aside, InFull
    <3> QED
      BY <1>2, <2>3, <3>3 DEF ReceivedInFull, Aside
  <2>4. ASSUME NEW d \in Deployments, CreateBounty(d) PROVE state' # "CLOSED"
    BY <2>4 DEF CreateBounty
  <2>5. ASSUME NEW s \in Accounts,
               \/ ClaimBounty(s) \/ SubmitFirst(s) \/ SubmitRevision(s)
               \/ RejectWork(s) \/ DeleteBounty(s)
        PROVE  state' # "CLOSED"
    BY <2>5 DEF ClaimBounty, SubmitFirst, SubmitRevision, StartReview,
                RejectWork, DeleteBounty
  <2>6. ExpireClaim \/ Disputed \/ Voted => state' # "CLOSED"
    BY DEF ExpireClaim, Reopen, Disputed, Voted
  <2> QED
    BY <1>2, <2>1, <2>2, <2>3, <2>4, <2>5, <2>6, StepKinds
<1> QED
  BY <1>1, <1>2, AlwaysIInv, EscrowPoolConsistent, SettlementAlwaysRecorded, PTL
     DEF Spec

\* The balance of the application allows these payments (_verify_escrow_balance
\* and the minimum balance, or the receivers' opt-ins).
Payable(L) == ledger[App] >= terms.amount /\ Transferable(L)

\* No settlement of a funded bounty is refused for want of money: whatever
\* method is called, and however the votes fall, the application can make all
\* the payments and keep its minimum balance, and an asset reaches everybody
\* who holds it.  What DisputeEnds and ReviewEnds rest on.
FundedPayable ==
  state \in {"SUBMITTED", "REJECTED", "DISPUTED"} /\ Funded
    /\ (terms.asset = 0 \/ opted_in = Accounts) =>
    /\ \A winner \in {agent, terms.creator}, is_dispute \in BOOLEAN :
         Payable(WinnerTakes(winner, is_dispute))
    /\ Payable(Halve(FeeSplit(ledger, terms.creator, TRUE), Rest))
    /\ state = "DISPUTED" =>
         \A votes \in [Seats -> 0 .. 3], option \in 1 .. 3 :
           VoterCount(votes) > 0 => Payable(ArbitrationPays(option, votes))

\* A funded application can pay what moves at most the escrow amount.
LEMMA MovesPayable ==
  ASSUME Deployed, Funded, terms.asset = 0 \/ opted_in = Accounts,
         NEW L, NEW n \in Nat, Moves(ledger, L, n), n <= terms.amount
  PROVE  Payable(L)
<1>1. terms.amount \in Nat /\ terms.asset \in Nat
  BY TermsTyped DEF Deployed
<1>2. ledger[App] \in Int /\ L[App] = ledger[App] - n
  BY DEF Moves, Ledgers
<1>3. ledger[App] >= terms.amount + (IF terms.asset = 0 THEN MinBalance ELSE 0)
  BY DEF Funded
<1>4. MinBalance \in Nat
  BY NumberAssumption
<1>5. /\ ledger[App] >= terms.amount
      /\ L[App] >= (IF terms.asset = 0 THEN MinBalance ELSE 0)
  BY <1>1, <1>2, <1>3, <1>4
<1>6. terms.asset > 0 => opted_in = Accounts
  BY <1>1
<1> QED
  BY <1>5, <1>6 DEF Payable, Transferable

\* A funded bounty never lacks the money for its settlement, for any amounts,
\* rates, roles, panels and votes.
THEOREM FundedAlwaysPayable == Spec => []FundedPayable
<1>1. ASSUME IInv PROVE FundedPayable
  <2> SUFFICES ASSUME state \in {"SUBMITTED", "REJECTED", "DISPUTED"}, Funded,
                      terms.asset = 0 \/ opted_in = Accounts
               PROVE  /\ \A winner \in {agent, terms.creator}, is_dispute \in BOOLEAN :
                           Payable(WinnerTakes(winner, is_dispute))
                      /\ Payable(Halve(FeeSplit(ledger, terms.creator, TRUE), Rest))
                      /\ state = "DISPUTED" =>
                           \A votes \in [Seats -> 0 .. 3], option \in 1 .. 3 :
                             VoterCount(votes) > 0 =>
                               Payable(ArbitrationPays(option, votes))
    BY DEF FundedPayable
  <2>1. Deployed
    BY <1>1, SettlersDeployed
  <2>2. agent \in Accounts /\ terms.creator \in Accounts /\ agent # terms.creator
    BY <1>1, <2>1, TermsTyped DEF Deployed, IInv, AgentAssigned, Engaged
  <2>3. ASSUME NEW winner \in {agent, terms.creator}, NEW is_dispute \in BOOLEAN
        PROVE  Payable(WinnerTakes(winner, is_dispute))
    <3>1. PICK n \in Nat : /\ Moves(ledger, WinnerTakes(winner, is_dispute), n)
                           /\ n <= terms.amount
      BY <2>1, <2>2, WinnerTakesMoves
    <3> QED
      BY <2>1, <3>1, MovesPayable
  <2>4. Payable(Halve(FeeSplit(ledger, terms.creator, TRUE), Rest))
    BY <2>1, TimeoutMoves, MovesPayable
  <2>5. ASSUME state = "DISPUTED", NEW votes \in [Seats -> 0 .. 3],
               NEW option \in 1 .. 3, VoterCount(votes) > 0
        PROVE  Payable(ArbitrationPays(option, votes))
    <3>1. evaluator \in [Seats -> Accounts]
      BY <1>1, <2>5 DEF IInv, VotesUndecided
    <3>2. VoterCount(votes) \in 1 .. 3
      BY <2>5 DEF VoterCount
    <3>3. PICK n \in Nat : /\ Moves(ledger, ArbitrationPays(option, votes), n)
                           /\ n <= terms.amount
      BY <2>1, <2>2, <3>1, <3>2, ArbitrationMoves
    <3> QED
      BY <2>1, <3>3, MovesPayable
  <2> QED
    BY <2>3, <2>4, <2>5
<1> QED
  BY <1>1, AlwaysIInv, PTL

\* Every wait for a party is bounded: the deadline after which anybody may end
\* a claim, a review by a human or a dispute is never further away than one
\* whole timeout, and nobody can push it out but by delivering work
\* (claim_bounty, submit_work, submit_dispute).  The other half of what
\* ClaimEnds, ReviewEnds and DisputeEnds rest on.
WaitsBounded ==
  /\ state = "CLAIMED" => claim_deadline <= now + ClaimTimeout
  /\ state = "SUBMITTED" /\ terms.hitm = 1 =>
       review_deadline <= now + terms.review_days * Day
  /\ state = "DISPUTED" => dispute_timestamp <= now

\* A deadline that is near enough stays so as time passes.
LEMMA LaterStill ==
  ASSUME NEW d \in Nat, NEW timeout \in Nat, NEW m \in Nat, NEW n \in Nat,
         m <= n, d <= m + timeout
  PROVE  d <= n + timeout
OBVIOUS

\* No phase waits longer than its timeout, in every reachable state.
THEOREM WaitsAlwaysBounded == Spec => []WaitsBounded
<1>1. Init => WaitsBounded
  BY DEF Init, WaitsBounded
<1>2. ASSUME IInv, PoolConsistent, WaitsBounded, [Next]_vars
      PROVE  WaitsBounded'
  <2>1. /\ now \in Nat /\ claim_deadline \in Nat /\ review_deadline \in Nat
        /\ dispute_timestamp \in Nat
    BY <1>2 DEF IInv, TypeOK
  <2>2. ASSUME NEW d \in Deployments, CreateBounty(d) PROVE WaitsBounded'
    BY <2>2 DEF WaitsBounded, CreateBounty
  <2>3. ASSUME NEW s \in Accounts, ClaimBounty(s) PROVE WaitsBounded'
    <3>1. /\ state' = "CLAIMED" /\ now' = now
          /\ claim_deadline' = now' + ClaimTimeout
      BY <2>3 DEF ClaimBounty, worldVars
    <3>2. claim_deadline' <= now' + ClaimTimeout
      BY <2>1, <3>1, NumberAssumption
    <3> QED
      BY <3>1, <3>2 DEF WaitsBounded
  <2>4. ASSUME NEW s \in Accounts, SubmitFirst(s) \/ SubmitRevision(s)
        PROVE  WaitsBounded'
    <3>1. StartReview
      BY <2>4 DEF SubmitFirst, SubmitRevision
    <3>2. terms \in Terms
      BY <1>2, <2>4 DEF IInv, AgentAssigned, SubmitFirst, SubmitRevision
    <3> DEFINE window == terms.review_days * Day
    <3>3. window \in Nat
      BY <3>2, TermsTyped, ProductBound, NumberAssumption
    <3>4. /\ now' = now /\ terms' = terms /\ state' = "SUBMITTED"
          /\ terms.hitm = 1 => review_deadline' = now + window
      BY <3>1 DEF StartReview, ReviewDeadline, worldVars
    <3>5. window' = window
      BY <3>4
    <3> HIDE DEF window
    <3>6. terms.hitm = 1 => review_deadline' <= now' + window'
      BY <2>1, <3>3, <3>4, <3>5
    <3> QED
      BY <3>4, <3>6 DEF WaitsBounded, window
  <2>5. ASSUME NEW s \in Accounts, RejectWork(s) \/ DeleteBounty(s)
        PROVE  WaitsBounded'
    BY <2>5 DEF WaitsBounded, RejectWork, DeleteBounty
  <2>6. CASE ExpireClaim
    BY <2>6 DEF WaitsBounded, ExpireClaim, Reopen
  <2>7. CASE Disputed
    <3>1. state' = "DISPUTED" /\ dispute_timestamp' = now /\ now' = now
      BY <2>7 DEF Disputed, worldVars
    <3>2. dispute_timestamp' <= now'
      BY <2>1, <3>1
    <3> QED
      BY <3>1, <3>2 DEF WaitsBounded
  <2>8. CASE Settled
    BY <2>8 DEF WaitsBounded, Settled
  <2>9. CASE Voted
    BY <1>2, <2>9 DEF WaitsBounded, Voted, phaseVars, worldVars
  <2>10. CASE Aside
    <3> DEFINE window == terms.review_days * Day
    <3>1. /\ now' \in Nat /\ now' >= now
          /\ UNCHANGED <<state, terms, claim_deadline, review_deadline,
                         dispute_timestamp>>
      BY <2>10 DEF Aside, phaseVars
    <3>2. now <= now'
      BY <2>1, <3>1
    <3>3. window' = window
      BY <3>1
    <3>4. state = "SUBMITTED" => window \in Nat
      <4>1. state = "SUBMITTED" => terms \in Terms
        BY <1>2 DEF IInv, AgentAssigned
      <4> QED
        BY <4>1, TermsTyped, ProductBound, NumberAssumption
    <3>5. state = "SUBMITTED" /\ terms.hitm = 1 => review_deadline <= now + window
      BY <1>2 DEF WaitsBounded
    <3> HIDE DEF window
    <3>6. ASSUME state' = "SUBMITTED", terms'.hitm = 1
          PROVE  review_deadline' <= now' + window'
      <4>1. window \in Nat /\ review_deadline <= now + window
        BY <3>1, <3>4, <3>5, <3>6
      <4>2. review_deadline <= now' + window
        BY <2>1, <3>1, <3>2, <4>1, LaterStill
      <4> QED
        BY <3>1, <3>3, <4>2
    <3>7. ASSUME state' = "CLAIMED"
          PROVE  claim_deadline' <= now' + ClaimTimeout
      <4>1. claim_deadline <= now + ClaimTimeout /\ claim_deadline' = claim_deadline
        BY <1>2, <3>1, <3>7 DEF WaitsBounded
      <4> QED
        BY <2>1, <3>1, <3>2, <4>1, LaterStill, NumberAssumption
    <3>8. state' = "DISPUTED" => dispute_timestamp' <= now'
      BY <1>2, <2>1, <3>1 DEF WaitsBounded
    <3> QED
      BY <3>6, <3>7, <3>8 DEF WaitsBounded, window
  <2> QED
    BY <1>2, <2>2, <2>3, <2>4, <2>5, <2>6, <2>7, <2>8, <2>9, <2>10, StepKinds
<1> QED
  BY <1>1, <1>2, AlwaysIInv, EscrowPoolConsistent, PTL DEF Spec
=============================================================================
