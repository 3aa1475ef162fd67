SPECIFICATION Spec
CONSTANTS
  creator = creator
  worker = worker
  treasury = treasury
  mediator = mediator
  gateway = gateway
  zero = zero
  App = app
  Zero = zero
  Accounts = {creator, worker, treasury, mediator}
  Deployments <- Reviewed
  Registrants = {worker}
  PlatformFee = 250
  ClaimTimeout = 1
  AbandonmentTimeout = 1
  Day = 1
  AutoResolveTimeout = 1
  DisputeTimeout = 2
  SeedBytes = 32
  MaxUInt64 = 100000000
  MinBalance = 3
  Deposits = {10010}
  MaxFunding = 10010
  Horizon = 2
  MaxTime = 5
INVARIANTS
  DisputeAvailable
CHECK_DEADLOCK FALSE
