--------------------------- MODULE EvaluatorPool ---------------------------
(***************************************************************************)
(* The evaluator pool one escrow application keeps in boxes (escrow.py,    *)
(* register_evaluator, deregister_evaluator) and the choice of the three   *)
(* evaluators of a dispute from it (_select_evaluators).                   *)
(*                                                                         *)
(* The pool is an array with a reverse index.  A box exists exactly when   *)
(* its key is in the DOMAIN of the function that models the family of      *)
(* boxes; removing a member swaps the last one into its place.             *)
(*                                                                         *)
(* Operators whose name starts with Mutant are deliberately wrong variants  *)
(* of the definition that follows them; no action uses them.               *)
(***************************************************************************)
EXTENDS Integers, FiniteSets

CONSTANT Accounts       \* the addresses that may call the contract

\* An address has 32 bytes.
ASSUME AccountsAssumption == IsFiniteSet(Accounts)

VARIABLES
  candidate_count,      \* box "candidate_count"; a missing box reads 0
  cand_addr,            \* boxes "cand_addr_" \o itob(i):  index -> address
  cand_idx              \* boxes "cand_idx_" \o address:   address -> index

poolVars == <<candidate_count, cand_addr, cand_idx>>

PoolInit ==
  /\ candidate_count = 0
  /\ cand_addr = [i \in {} |-> i]
  /\ cand_idx = [a \in {} |-> 0]

-----------------------------------------------------------------------------
(* Operations.  The caller can only register or remove itself.             *)

RegisterEvaluator(a) ==
  /\ a \notin DOMAIN cand_idx
  /\ cand_addr' = [i \in DOMAIN cand_addr \cup {candidate_count} |->
                     IF i = candidate_count THEN a ELSE cand_addr[i]]
  /\ cand_idx' = [b \in DOMAIN cand_idx \cup {a} |->
                    IF b = a THEN candidate_count ELSE cand_idx[b]]
  /\ candidate_count' = candidate_count + 1

MutantDeregisterKeepsIndex(a) ==
  LET last == candidate_count - 1
  IN  /\ a \in DOMAIN cand_idx
      /\ last \in DOMAIN cand_addr
      /\ cand_addr' = [i \in DOMAIN cand_addr \ {last} |->
                         IF i = cand_idx[a] THEN cand_addr[last]
                                            ELSE cand_addr[i]]
      /\ cand_idx' = [b \in DOMAIN cand_idx \ {a} |-> cand_idx[b]]
      /\ candidate_count' = last

MutantDeregisterDropsLast(a) ==
  LET last == candidate_count - 1
  IN  /\ a \in DOMAIN cand_idx
      /\ last \in DOMAIN cand_addr
      /\ cand_addr' = [i \in DOMAIN cand_addr \ {last} |-> cand_addr[i]]
      /\ cand_idx' = [b \in DOMAIN cand_idx \ {a} |-> cand_idx[b]]
      /\ candidate_count' = last

DeregisterEvaluator(a) ==
  LET last == candidate_count - 1
  IN  /\ a \in DOMAIN cand_idx
      /\ last \in DOMAIN cand_addr
      /\ cand_addr' = [i \in DOMAIN cand_addr \ {last} |->
                         IF i = cand_idx[a] THEN cand_addr[last]
                                            ELSE cand_addr[i]]
      /\ cand_idx' = [b \in DOMAIN cand_idx \ {a} |->
                        IF cand_idx[a] # last /\ b = cand_addr[last]
                          THEN cand_idx[a] ELSE cand_idx[b]]
      /\ candidate_count' = last

PoolNext == \E a \in Accounts : RegisterEvaluator(a) \/ DeregisterEvaluator(a)

PoolSpec == PoolInit /\ [][PoolNext]_poolVars

-----------------------------------------------------------------------------
(* Choosing the evaluators of a dispute.                                   *)

\* The members of the pool as the selection reads them.
PoolMembers == {cand_addr[i] : i \in 0 .. candidate_count - 1}

MutantRingSearch(from, excluded, treasury) ==
  LET At(k) == (from + k) % candidate_count
      hits  == {k \in 0 .. candidate_count - 1 - from :
                  cand_addr[At(k)] \notin excluded}
  IN  IF hits = {}
        THEN [seat |-> treasury, stop |-> from]
        ELSE LET k == CHOOSE h \in hits : \A j \in hits : h <= j
             IN  [seat |-> cand_addr[At(k)], stop |-> At(k + 1)]

\* One of the three searches: walk the ring from position from, at most once
\* round, to the first candidate outside excluded.  The walk stops one past
\* the candidate it found, or where it began when there is none; then the
\* seat keeps its default, the treasury.
RingSearch(from, excluded, treasury) ==
  LET At(k) == (from + k) % candidate_count
      hits  == {k \in 0 .. candidate_count - 1 :
                  cand_addr[At(k)] \notin excluded}
  IN  IF hits = {}
        THEN [seat |-> treasury, stop |-> from]
        ELSE LET k == CHOOSE h \in hits : \A j \in hits : h <= j
             IN  [seat |-> cand_addr[At(k)], stop |-> At(k + 1)]

MutantSelectEvaluators(start, treasury, creator, worker) ==
  IF candidate_count = 0
    THEN <<treasury, treasury, treasury>>
    ELSE LET one   == RingSearch(start, {creator, worker}, treasury)
             two   == RingSearch(one.stop, {creator, worker, one.seat}, treasury)
             three == RingSearch(two.stop, {creator, worker, two.seat}, treasury)
         IN  <<one.seat, two.seat, three.seat>>

\* The three seats, from the ring position the transaction's hash picks.
SelectEvaluators(start, treasury, creator, worker) ==
  IF candidate_count = 0
    THEN <<treasury, treasury, treasury>>
    ELSE LET one   == RingSearch(start, {creator, worker}, treasury)
             two   == RingSearch(one.stop, {creator, worker, one.seat}, treasury)
             three == RingSearch(two.stop,
                                 {creator, worker, one.seat, two.seat}, treasury)
         IN  <<one.seat, two.seat, three.seat>>

-----------------------------------------------------------------------------
(* Properties.                                                             *)

\* The array and the reverse index are inverse to each other and the array
\* has no hole: whatever the order of registrations and swap-removals, every
\* registered account sits at exactly the index its own box names, so a
\* removal always removes the caller and the ring walk never reads a missing
\* box (register_evaluator, deregister_evaluator).
PoolConsistent ==
  /\ candidate_count \in Nat
  /\ DOMAIN cand_addr = 0 .. candidate_count - 1
  /\ DOMAIN cand_idx \subseteq Accounts
  /\ \A i \in DOMAIN cand_addr :
       cand_addr[i] \in DOMAIN cand_idx /\ cand_idx[cand_addr[i]] = i
  /\ \A a \in DOMAIN cand_idx :
       cand_idx[a] \in DOMAIN cand_addr /\ cand_addr[cand_idx[a]] = a

\* Every seat that is not the treasury's default goes to a registered account
\* that is neither the creator nor the worker, and no account other than the
\* treasury holds two seats, from every starting position of the ring
\* (_select_evaluators, the three exclusion tests).
SelectionIndependent ==
  \A treasury, creator, worker \in Accounts, start \in 0 .. candidate_count - 1 :
    LET seats == SelectEvaluators(start, treasury, creator, worker)
    IN  /\ \A i \in 1 .. 3 :
             seats[i] # treasury => seats[i] \in PoolMembers \ {creator, worker}
        /\ \A i, j \in 1 .. 3 :
             i # j /\ seats[i] = seats[j] => seats[i] = treasury

\* When three or more members are neutral, all three seats are filled by
\* distinct members: the second and the third walk, which start where the one
\* before stopped, cannot miss a member that is left (_select_evaluators).
SelectionFillsPanel ==
  \A treasury, creator, worker \in Accounts, start \in 0 .. candidate_count - 1 :
    LET neutral == PoolMembers \ {creator, worker}
        seats   == SelectEvaluators(start, treasury, creator, worker)
        panel   == {seats[1], seats[2], seats[3]}
    IN  (\E a, b, c \in neutral : a # b /\ b # c /\ a # c)
          => /\ panel \subseteq neutral
             /\ seats[1] # seats[2] /\ seats[2] # seats[3] /\ seats[1] # seats[3]

\* The pool implements one set of accounts seen from both sides: an account
\* that has an index box is one the selection can seat, a registration adds
\* the caller on both sides at once and a removal takes out the caller and
\* nobody else (register_evaluator, deregister_evaluator).
Registry == INSTANCE EvaluatorRegistry
              WITH registered <- DOMAIN cand_idx, candidates <- PoolMembers

ImplementsRegistry == Registry!Spec
=============================================================================
