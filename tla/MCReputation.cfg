SPECIFICATION Spec
CONSTANTS
  Agents = {veteran, newcomer}
  Veterans = {veteran}
  OldKarma = 52
  Handlers = {h1, h2}
  Bounties = {b}
  NoBounty = none
  Mixes <- SmallMixes
  Stake = 1
  Penalty = 30
  MaxDeposits = 2
  MaxVouches = 1
  MaxPenalties = 1
  Pollers = {p1, p2}
  Votes = {"worker"}
  Logins = {login}
  NoLogin = nologin
  Jurisdictions = {"US", "IN", "DE"}
  Amounts <- SmallAmounts
  MaxTurnover = 1200
SYMMETRY Interchangeable
INVARIANTS LockedIsFlagged KarmaExplained RowsJustified WithholdingExplained
CONSTRAINT SmallDispute
CHECK_DEADLOCK FALSE
