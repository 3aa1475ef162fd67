------------------------- MODULE EvaluatorRegistry -------------------------
(***************************************************************************)
(* What the on-chain evaluator pool of escrow.py promises its callers: a   *)
(* set of accounts, seen from two sides.  An account that is not in it can *)
(* add itself, one that is in it can remove itself, and the accounts a     *)
(* dispute can seat are at every moment exactly the registered ones.       *)
(* EvaluatorPool implements it with an array and a reverse index.          *)
(***************************************************************************)
CONSTANT Accounts

VARIABLES
  registered,           \* who may leave, and may not join a second time
  candidates            \* whom the selection of a dispute can seat

Init == registered = {} /\ candidates = {}

Join(a) ==
  /\ a \notin registered
  /\ registered' = registered \cup {a}
  /\ candidates' = candidates \cup {a}

Leave(a) ==
  /\ a \in registered
  /\ registered' = registered \ {a}
  /\ candidates' = candidates \ {a}

Next == \E a \in Accounts : Join(a) \/ Leave(a)

Spec == Init /\ [][Next]_<<registered, candidates>>
=============================================================================
