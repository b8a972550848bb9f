SPECIFICATION FairSpec
CONSTANTS
  None = None
  Root = Root
  alice = alice
  bob = bob
  Accounts = {alice, bob}
  Templates <- MCTemplates
  StartBlocks <- MCStartBlocks
  Fees = {1}
  BuyCosts = {2, 3}
  InitialFree = 7
  Leftovers = {1}
  FeeMultiplier = 2
  MinimalPeriod = 1
  MinimumTradingLimit = 1
  MinBudget = 6
  MaxSchedulePerBlock = 1
  MaxReschedules = 0
  RetryPeriod = 1
  RoundTo = 2
  MaxDelay = 2
  MaxExtraGas = 1
  MaxId = 2
  Horizon = 5
PROPERTIES
  BudgetedSchedulesEnd
