SPECIFICATION MCSpec
CONSTANTS
  None = None
  MaxOps = 5
  PoolAssets = {hdx, dot}
  HubAsset = lrna
  HdxAsset = hdx
  Amounts <- MCAmounts
  Fees <- MCFees
  Ratios <- MCRatios
  DefaultTrade <- MCDefaultTrade
  DefaultAdd <- MCDefaultLiquidity
  DefaultRemove <- MCDefaultLiquidity
  MaxLimitValue = 4
  MaxBalance = 10
  InitialReserve = 8
  Accounts = {alice, router}
  LockWhitelist = {router}
  DepositAmounts = {1, 2}
  Limits = {1, 3}
  Period = 2
  MaxSupply = 6
  MaxBlock = 4
INVARIANTS
  CountersExplainReserve
  ReserveWithinEnvelope
  UsableWithinLimit
PROPERTIES
  LockdownHoldsSupply
