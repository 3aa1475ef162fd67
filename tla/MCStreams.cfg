SPECIFICATION Spec
CONSTANTS
  Addresses = {a1, a2}
  Followed <- EachRule
  Limits <- SmallLimits
  Window = 2
  Connections = 1
  MaxTime = 5
  Streams = {s1, s2, s3}
  Events = {e1, e2}
  MaxPerAddress = 2
  StaleTimeout = 0
  Handlers = {h1, h2}
  AppConfigured = TRUE
  OwnToken = FALSE
  Life = 5
  Margin = 3
  CallTime = 1
SYMMETRY Interchangeable
INVARIANTS WindowRespected OpenStreamsListed ReceivedOnce CalmWalkReachesAll CalmLabelsFollow TokenOutlivesUpdate
CONSTRAINT Apart
CHECK_DEADLOCK FALSE
