SPECIFICATION BlockStartSpec
CONSTANTS
  None = None
  Root = Root
  alice = alice
  bob = bob
  Accounts = {alice, bob}
  Templates <- MCTemplates
  StartBlocks <- MCStartBlocks
  Fees = {1}
  BuyCosts = {2, 3}
  InitialFree = 12
  Leftovers = {0}
  FeeMultiplier = 2
  MinimalPeriod = 1
  MinimumTradingLimit = 1
  MinBudget = 6
  MaxSchedulePerBlock = 1
  MaxReschedules = 1
  RetryPeriod = 1
  RoundTo = 2
  MaxDelay = 2
  MaxExtraGas = 2
  MaxId = 2
  Horizon = 5
  ann = ann
  eli = eli
  member = member
  p1 = p1
  p2 = p2
  MaxBlock = 5
INVARIANTS
  SchedulesConsistent
  BudgetsBacked
  VotesCounted
  WinnersStayLocked
SYMMETRY Symmetry
