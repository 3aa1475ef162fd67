SPECIFICATION Spec
CONSTANTS
  creator = creator
  worker = worker
  treasury = treasury
  mediator = mediator
  gateway = gateway
  zero = zero
  App = app
  Zero = zero
  Accounts = {creator, worker, treasury, mediator}
  Deployments <- Reviewed
  Registrants = {worker}
  PlatformFee = 250
  ClaimTimeout = 1
  AbandonmentTimeout = 1
  Day = 1
  AutoResolveTimeout = 1
  DisputeTimeout = 2
  SeedBytes = 32
  MaxUInt64 = 100000000
  MinBalance = 3
  Deposits = {10007, 10010}
  MaxFunding = 10010
  Horizon = 3
  MaxTime = 6
INVARIANTS
  TypeOK
  AgentAssigned
  RejectionRounds
  VotesUndecided
  ReviewWindowFresh
  SettlementRecorded
  PaidByRole
PROPERTIES
  RefundLock
  VotesFinal
  ImplementsLifecycle
  GatewayUnderstands
CHECK_DEADLOCK FALSE
