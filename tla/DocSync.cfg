SPECIFICATION FairSpec
CONSTANTS
  Workers = {w1}
  Creator = creator
  Nobody = nobody
  Used <- AnyMethod
  MaxRound = 4
  MaxPool = 1
  Requests = {}
  InitialKarma = 25
  KarmaRequirement = 0
  Stewarded = {w1}
  Pollers = {p1, p2}
  TemplateFilter = TRUE
PROPERTIES RowCatchesUp
CHECK_DEADLOCK FALSE
