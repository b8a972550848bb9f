SPECIFICATION Spec
CONSTANTS
  None = None
  PERMILL = 20
  FIXED = 1000
  HDX = HDX
  A = A
  B = B
  Assets <- MCAssets
  MinTradingLimit = 1
  MinPoolLiquidity = 1
  MaxInRatio = 3
  MaxOutRatio = 3
  MinWithdrawalFee = 1
  BurnProtocolFee = 0
  HubDust = 2
  LiquidityTolerance = 2
  MinInitialLiquidity = 20
  InitialOrder <- HdxAndA
  InitialPrice <- MCPrice
  InitialReserve <- MCReserve
  InitialUserHub = 0
  InitialSlipFees = {4}
  TradeAmounts = {10}
  LiquidityAmounts = {60}
  AssetFees = {1}
  ProtocolFees = {3}
  SlipFees = {4}
  OraclePrices = {0, 500}
  InitialPrices = {650}
  Tradabilities <- MCTradabilities
  Caps = {9}
  FeeTolerance = 2
  ATokens = {A}
  Overdrafts = {1}
  MaxCalls = 4
  MaxPositionId = 4
INVARIANTS SharesAccounted PositionsCanExit SlipDenominatorPositive
PROPERTY SharesNotDiluted
