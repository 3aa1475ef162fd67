------------------------ MODULE EvaluatorPoolProofs ------------------------
(***************************************************************************)
(* Proofs about the evaluator pool, for any set of accounts: the array and *)
(* its reverse index stay inverse to each other, and the pool implements   *)
(* the set of accounts of EvaluatorRegistry.                               *)
(***************************************************************************)
EXTENDS EvaluatorPool, WellFoundedInduction, TLAPS

\* The empty pool is consistent.
LEMMA PoolInitConsistent == PoolInit => PoolConsistent
BY DEF PoolInit, PoolConsistent

\* A registration appends the caller, so the two maps stay inverse.
LEMMA RegisterConsistent ==
  ASSUME PoolConsistent, NEW a \in Accounts, RegisterEvaluator(a)
  PROVE  PoolConsistent'
<1> USE DEF PoolConsistent
<1>1. candidate_count' \in Nat
  BY DEF RegisterEvaluator
<1>2. DOMAIN cand_addr' = 0 .. candidate_count' - 1
  BY DEF RegisterEvaluator
<1>3. DOMAIN cand_idx' \subseteq Accounts
  BY DEF RegisterEvaluator
<1>4. ASSUME NEW i \in DOMAIN cand_addr'
      PROVE  cand_addr'[i] \in DOMAIN cand_idx' /\ cand_idx'[cand_addr'[i]] = i
  BY <1>4 DEF RegisterEvaluator
<1>5. ASSUME NEW b \in DOMAIN cand_idx'
      PROVE  cand_idx'[b] \in DOMAIN cand_addr' /\ cand_addr'[cand_idx'[b]] = b
  BY <1>5 DEF RegisterEvaluator
<1> QED
  BY <1>1, <1>2, <1>3, <1>4, <1>5

\* A removal moves the last member into the caller's place in both maps, also
\* when the caller is the last member.
LEMMA DeregisterConsistent ==
  ASSUME PoolConsistent, NEW a \in Accounts, DeregisterEvaluator(a)
  PROVE  PoolConsistent'
<1> USE DEF PoolConsistent
<1> DEFINE last == candidate_count - 1
<1>1. last \in Nat /\ candidate_count' = last
  BY DEF DeregisterEvaluator
<1>2. DOMAIN cand_addr' = 0 .. candidate_count' - 1
  BY DEF DeregisterEvaluator
<1>3. DOMAIN cand_idx' \subseteq Accounts
  BY DEF DeregisterEvaluator
<1>4. ASSUME NEW i \in DOMAIN cand_addr'
      PROVE  cand_addr'[i] \in DOMAIN cand_idx' /\ cand_idx'[cand_addr'[i]] = i
  BY <1>4, <1>1 DEF DeregisterEvaluator
<1>5. ASSUME NEW b \in DOMAIN cand_idx'
      PROVE  cand_idx'[b] \in DOMAIN cand_addr' /\ cand_addr'[cand_idx'[b]] = b
  BY <1>5, <1>1 DEF DeregisterEvaluator
<1> QED
  BY <1>1, <1>2, <1>3, <1>4, <1>5

\* Every reachable pool is consistent, for any set of accounts.
THEOREM PoolAlwaysConsistent == PoolSpec => []PoolConsistent
<1>1. PoolConsistent /\ [PoolNext]_poolVars => PoolConsistent'
  <2> SUFFICES ASSUME PoolConsistent, [PoolNext]_poolVars
               PROVE  PoolConsistent'
    OBVIOUS
  <2>1. CASE PoolNext
    BY <2>1, RegisterConsistent, DeregisterConsistent DEF PoolNext
  <2>2. CASE UNCHANGED poolVars
    BY <2>2 DEF PoolConsistent, poolVars
  <2> QED
    BY <2>1, <2>2
<1> QED
  BY <1>1, PoolInitConsistent, PTL DEF PoolSpec

\* In a consistent pool the members the selection reads are the accounts that
\* have an index box.
LEMMA MembersAreIndexed ==
  ASSUME PoolConsistent
  PROVE  PoolMembers = DOMAIN cand_idx
BY DEF PoolConsistent, PoolMembers

\* The array and the reverse index implement a set of accounts: a registration
\* adds the caller to what the selection reads and to what the guards read, a
\* removal takes out the caller and nobody else.
THEOREM PoolImplementsRegistry == PoolSpec => ImplementsRegistry
<1>1. PoolInit => Registry!Init
  BY DEF PoolInit, Registry!Init, PoolMembers
<1>2. PoolConsistent /\ PoolConsistent' /\ [PoolNext]_poolVars
        => [Registry!Next]_<<DOMAIN cand_idx, PoolMembers>>
  <2> SUFFICES ASSUME PoolConsistent, PoolConsistent', [PoolNext]_poolVars
               PROVE  [Registry!Next]_<<DOMAIN cand_idx, PoolMembers>>
    OBVIOUS
  <2>1. PoolMembers = DOMAIN cand_idx
    BY MembersAreIndexed
  <2>2. PoolMembers' = DOMAIN cand_idx'
    <3>1. DOMAIN cand_addr' = 0 .. candidate_count' - 1
      BY DEF PoolConsistent
    <3>2. \A i \in DOMAIN cand_addr' : cand_addr'[i] \in DOMAIN cand_idx'
      BY DEF PoolConsistent
    <3>3. \A b \in DOMAIN cand_idx' :
            cand_idx'[b] \in DOMAIN cand_addr' /\ cand_addr'[cand_idx'[b]] = b
      BY DEF PoolConsistent
    <3> QED
      BY <3>1, <3>2, <3>3 DEF PoolMembers
  <2>3. ASSUME NEW a \in Accounts, RegisterEvaluator(a)
        PROVE  Registry!Join(a)
    BY <2>1, <2>2, <2>3 DEF RegisterEvaluator, Registry!Join
  <2>4. ASSUME NEW a \in Accounts, DeregisterEvaluator(a)
        PROVE  Registry!Leave(a)
    BY <2>1, <2>2, <2>4 DEF DeregisterEvaluator, Registry!Leave
  <2>5. CASE UNCHANGED poolVars
    BY <2>5 DEF poolVars, PoolMembers
  <2> QED
    BY <2>3, <2>4, <2>5 DEF PoolNext, Registry!Next
<1> QED
  BY <1>1, <1>2, PoolAlwaysConsistent, PTL
     DEF PoolSpec, ImplementsRegistry, Registry!Spec

-----------------------------------------------------------------------------
(* The selection.                                                          *)

\* A set of naturals that is not empty has a least member, so the walk has a
\* first hit.
LEMMA LeastNatural ==
  ASSUME NEW S, S \subseteq Nat, S # {}
  PROVE  \E h \in S : \A j \in S : h <= j
<1> DEFINE Less == {p \in Nat \X Nat : p[1] < p[2]}
<1>1. IsWellFoundedOn(Less, Nat)
  BY NatLessThanWellFounded DEF OpToRel
<1>2. PICK h \in S : \A j \in S : <<j, h>> \notin Less
  <2> HIDE DEF Less
  <2> QED
    BY <1>1, WFMin
<1>3. \A j \in S : h <= j
  <2> SUFFICES ASSUME NEW j \in S
               PROVE  h <= j
    OBVIOUS
  <2>1. j \in Nat /\ h \in Nat
    OBVIOUS
  <2>2. j < h => <<j, h>> \in Less
    BY <2>1
  <2> HIDE DEF Less
  <2> QED
    BY <1>2, <2>1, <2>2
<1> QED
  BY <1>3

\* From every position the walk comes past every other.
LEMMA RingReaches ==
  ASSUME NEW n \in Nat \ {0}, NEW from \in 0 .. n - 1, NEW i \in 0 .. n - 1
  PROVE  \E k \in 0 .. n - 1 : (from + k) % n = i
<1>1. CASE from <= i
  <2>1. i - from \in 0 .. n - 1 /\ (from + (i - from)) % n = i
    BY <1>1
  <2> QED
    BY <2>1
<1>2. CASE i < from
  <2>1. (i - from) + n \in 0 .. n - 1 /\ from + ((i - from) + n) = i + n
    BY <1>2
  <2>2. (i + n) % n = i
    OBVIOUS
  <2> QED
    BY <2>1, <2>2
<1> QED
  BY <1>1, <1>2

\* One walk of a consistent ring ends on a ring position, with a member that
\* is not excluded if there is one, and with the treasury otherwise.
LEMMA RingSearchSound ==
  ASSUME PoolConsistent, candidate_count # 0,
         NEW from \in 0 .. candidate_count - 1, NEW excluded, NEW treasury
  PROVE  LET found == RingSearch(from, excluded, treasury)
         IN  /\ found.stop \in 0 .. candidate_count - 1
             /\ found.seat # treasury => found.seat \in PoolMembers \ excluded
             /\ PoolMembers \ excluded # {} =>
                  found.seat \in PoolMembers \ excluded
<1> DEFINE At(k) == (from + k) % candidate_count
           hits  == {k \in 0 .. candidate_count - 1 :
                       cand_addr[At(k)] \notin excluded}
           first == CHOOSE h \in hits : \A j \in hits : h <= j
<1>1. candidate_count \in Nat \ {0}
  BY DEF PoolConsistent
<1>2. \A k \in Nat : At(k) \in 0 .. candidate_count - 1
  BY <1>1
<1>3. CASE hits = {}
  <2>1. ASSUME NEW m \in PoolMembers PROVE m \in excluded
    <3>1. PICK i \in 0 .. candidate_count - 1 : m = cand_addr[i]
      BY DEF PoolMembers
    <3>2. PICK k \in 0 .. candidate_count - 1 : At(k) = i
      BY <1>1, RingReaches
    <3> QED
      BY <1>3, <3>1, <3>2
  <2>2. RingSearch(from, excluded, treasury) = [seat |-> treasury, stop |-> from]
    BY <1>3 DEF RingSearch
  <2> QED
    BY <2>1, <2>2
<1>4. CASE hits # {}
  <2>1. first \in hits
    <3>1. hits \in SUBSET Nat
      OBVIOUS
    <3>2. \E h \in hits : \A j \in hits : h <= j
      <4> HIDE DEF hits
      <4> QED
        BY <1>4, <3>1, LeastNatural
    <3> QED
      BY <3>2
  <2>2. RingSearch(from, excluded, treasury)
          = [seat |-> cand_addr[At(first)], stop |-> At(first + 1)]
    BY <1>4 DEF RingSearch
  <2>3. first \in Nat /\ cand_addr[At(first)] \notin excluded
    <3> HIDE DEF first
    <3> QED
      BY <2>1
  <2>4. cand_addr[At(first)] \in PoolMembers
    <3> HIDE DEF first
    <3> QED
      BY <1>2, <2>3 DEF PoolMembers
  <2>5. At(first + 1) \in 0 .. candidate_count - 1
    <3> HIDE DEF first
    <3> QED
      BY <1>2, <2>3
  <2> QED
    BY <2>2, <2>3, <2>4, <2>5
<1> QED
  BY <1>3, <1>4

\* In every reachable pool the three seats of a dispute go to registered
\* accounts other than the parties, no two seats to the same one, or to the
\* treasury, wherever the walk starts.
THEOREM SelectionAlwaysIndependent == PoolSpec => []SelectionIndependent
<1>1. PoolConsistent => SelectionIndependent
  <2> SUFFICES ASSUME PoolConsistent,
                      NEW treasury \in Accounts, NEW creator \in Accounts,
                      NEW worker \in Accounts,
                      NEW start \in 0 .. candidate_count - 1
               PROVE  LET seats == SelectEvaluators(start, treasury, creator, worker)
                      IN  /\ \A i \in 1 .. 3 : seats[i] # treasury =>
                               seats[i] \in PoolMembers \ {creator, worker}
                          /\ \A i, j \in 1 .. 3 :
                               i # j /\ seats[i] = seats[j] => seats[i] = treasury
    BY DEF SelectionIndependent
  <2> DEFINE one   == RingSearch(start, {creator, worker}, treasury)
             two   == RingSearch(one.stop, {creator, worker, one.seat}, treasury)
             three == RingSearch(two.stop,
                                 {creator, worker, one.seat, two.seat}, treasury)
  <2>1. candidate_count \in Nat \ {0}
    BY DEF PoolConsistent
  <2>2. SelectEvaluators(start, treasury, creator, worker)
          = <<one.seat, two.seat, three.seat>>
    BY <2>1 DEF SelectEvaluators
  <2>3. /\ one.stop \in 0 .. candidate_count - 1
        /\ one.seat # treasury => one.seat \in PoolMembers \ {creator, worker}
    BY <2>1, RingSearchSound
  <2>4. /\ two.stop \in 0 .. candidate_count - 1
        /\ two.seat # treasury =>
             two.seat \in PoolMembers \ {creator, worker, one.seat}
    <3> HIDE DEF one
    <3> QED
      BY <2>1, <2>3, RingSearchSound
  <2>5. three.seat # treasury =>
          three.seat \in PoolMembers \ {creator, worker, one.seat, two.seat}
    <3> HIDE DEF one, two
    <3> QED
      BY <2>1, <2>4, RingSearchSound
  <2> HIDE DEF one, two, three
  <2> QED
    BY <2>2, <2>3, <2>4, <2>5
<1> QED
  BY <1>1, PoolAlwaysConsistent, PTL

\* In every reachable pool with three neutral members or more, the seats go to
\* three different ones of them, wherever the walk starts.
THEOREM SelectionAlwaysFillsPanel == PoolSpec => []SelectionFillsPanel
<1>1. PoolConsistent => SelectionFillsPanel
  <2> SUFFICES ASSUME PoolConsistent,
                      NEW treasury \in Accounts, NEW creator \in Accounts,
                      NEW worker \in Accounts,
                      NEW start \in 0 .. candidate_count - 1,
                      NEW a \in PoolMembers \ {creator, worker},
                      NEW b \in PoolMembers \ {creator, worker},
                      NEW c \in PoolMembers \ {creator, worker},
                      a # b, b # c, a # c
               PROVE  LET neutral == PoolMembers \ {creator, worker}
                          seats == SelectEvaluators(start, treasury, creator, worker)
                          panel == {seats[1], seats[2], seats[3]}
                      IN  /\ panel \subseteq neutral
                          /\ seats[1] # seats[2] /\ seats[2] # seats[3]
                          /\ seats[1] # seats[3]
    BY DEF SelectionFillsPanel
  <2> DEFINE one   == RingSearch(start, {creator, worker}, treasury)
             two   == RingSearch(one.stop, {creator, worker, one.seat}, treasury)
             three == RingSearch(two.stop,
                                 {creator, worker, one.seat, two.seat}, treasury)
  <2>1. candidate_count \in Nat \ {0}
    BY DEF PoolConsistent
  <2>2. SelectEvaluators(start, treasury, creator, worker)
          = <<one.seat, two.seat, three.seat>>
    BY <2>1 DEF SelectEvaluators
  <2>3. /\ one.stop \in 0 .. candidate_count - 1
        /\ one.seat \in PoolMembers \ {creator, worker}
    <3>1. PoolMembers \ {creator, worker} # {}
      OBVIOUS
    <3> QED
      BY <2>1, <3>1, RingSearchSound
  <2>4. /\ two.stop \in 0 .. candidate_count - 1
        /\ two.seat \in PoolMembers \ {creator, worker, one.seat}
    <3> HIDE DEF one
    <3>1. PoolMembers \ {creator, worker, one.seat} # {}
      OBVIOUS
    <3> QED
      BY <2>1, <2>3, <3>1, RingSearchSound
  <2>5. three.seat \in PoolMembers \ {creator, worker, one.seat, two.seat}
    <3> HIDE DEF one, two
    <3>1. PoolMembers \ {creator, worker, one.seat, two.seat} # {}
      OBVIOUS
    <3> QED
      BY <2>1, <2>4, <3>1, RingSearchSound
  <2> HIDE DEF one, two, three
  <2> QED
    BY <2>2, <2>3, <2>4, <2>5
<1> QED
  BY <1>1, PoolAlwaysConsistent, PTL
=============================================================================
