SPECIFICATION Spec
CONSTANTS
  Workers = {w1, w2}
  Creator = creator
  Nobody = nobody
  Used <- ClaimToRelease
  MaxRound = 4
  MaxPool = 1
  Requests = {r1, r2}
  InitialKarma = 25
  KarmaRequirement = 0
  Stewarded = {w1, w2}
  Pollers = {p1, p2}
  TemplateFilter = FALSE
SYMMETRY Interchangeable
INVARIANTS SettlementHasCause StrangersKeepKarma
CHECK_DEADLOCK FALSE
CONSTRAINT TwoSessions
