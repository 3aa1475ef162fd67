------------------------------ MODULE MCGitHub ------------------------------
EXTENDS GitHubEvents, TLC

Interchangeable ==
  Permutations(Deliveries) \cup Permutations(Attempts) \cup Permutations(Calls)
    \cup Permutations(People)
=============================================================================
