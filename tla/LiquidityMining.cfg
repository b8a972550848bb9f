SPECIFICATION Spec
CONSTANTS
  None = None
  Pools = {"a"}
  MaxFarmId = 4
  MaxDepositId = 2
  MaxBlock = 3
  FIXED = 10
  ED = 1
  MaxYieldFarmsPerGlobalFarm = 2
  MaxFarmEntriesPerDeposit = 2
  TotalRewards = {13}
  PlannedPeriods = {3}
  BlocksPerPeriod = {1}
  YieldsPerPeriod = {10}
  MinDeposit = 2
  Multipliers = {10}
  LoyaltyCurves <- MCCurves
  PriceAdjustments = {10}
  OracleAnswers = {None}
  Users = {u1, u2}
  Positions = {p1, p2}
  PalletAccount = PalletAccount
  PositionValues = {3}
  OmnipoolCalls = 6
  MinPoolLiquidity = 2
  MinTradingLimit = 1
  MaxInRatio = 1
  MaxOutRatio = 2
  FeeNumerator = 1
  FeeDenominator = 2
  Amounts = {2}
  InitialBalance = 4
  IsSufficient = FALSE
  XykCalls = 5
INVARIANTS
  FarmRewardsCovered
  DepositsKept
PROPERTIES
  FarmsKeepTheirPurses
  XykShareValueNeverFalls
SYMMETRY Symmetry
CHECK_DEADLOCK FALSE
