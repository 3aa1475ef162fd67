SPECIFICATION Spec
CONSTANTS
  MaxAmount = 2100
  Rates = {0, 1, 50, 99, 200, 250, 1000}
INVARIANTS
  WinnerPartNonNegative
  GatewayOnlyCostsTreasury
  WinnerPartExact
  PreviewIsPaid
CHECK_DEADLOCK FALSE
