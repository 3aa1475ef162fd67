---------------------------- MODULE MCReputation ----------------------------
EXTENDS AgentRecords, FiniteSetsExt

\* Requests on different rows that share nothing but karma are explored in
\* small groups, a dispute and an agent's taxes without logins.
SmallMixes ==
  {{"login", "deposit", "release"}, {"deposit", "release", "penalize"},
   {"login", "vouch", "resolve"}, {"vouch", "resolve", "penalize"}, {"cast"},
   {"tax"}, {"login", "link"}, {"login", "accept"}}

Sessions == {handler[h] : h \in Handlers}
Polling == {p \in Pollers : poll[p] # Idle}

\* Payouts and corrections of them, in dollars.
SmallAmounts == {400, -300}

\* Bounds of a dispute: two sessions at a time, two rows, one vote through the
\* API and one on the chain, one evaluator that misses its deadline; the
\* newcomer may be selected but has no agent's row.
SmallDispute ==
  /\ Cardinality(Polling) + Cardinality({s \in Sessions : s # Idle}) <= 2
  /\ Len(assignments) <= 2
  /\ Cardinality(spoken) <= 1 /\ Cardinality(Voters(chain)) <= 1
  /\ Cardinality(late) <= 1

Interchangeable == Permutations(Handlers) \cup Permutations(Pollers)
=============================================================================
