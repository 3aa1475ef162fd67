----------------------------- MODULE MCGateway -----------------------------
EXTENDS GatewayProperties, FiniteSetsExt

AnyMethod == DOMAIN Methods
ClaimToRelease ==
  {"claim_bounty", "submit_work", "reject_work", "auto_release", "expire_claim"}

\* Bound: two sessions at a time, of requests or pollers.
TwoSessions ==
  Cardinality({r \in Requests : request[r] \notin {Unused, Served}})
    + Cardinality({p \in Pollers : poll[p] # Asleep}) <= 2

Interchangeable ==
  Permutations(Requests) \cup Permutations(Workers) \cup Permutations(Pollers)
=============================================================================
