SPECIFICATION Spec
CONSTANTS
  None = None
  PERMILL = 20
  FIXED = 1000
  HDX = HDX
  A = A
  B = B
  Assets <- MCAssets
  MinTradingLimit = 1
  MinPoolLiquidity = 1
  MaxInRatio = 3
  MaxOutRatio = 3
  MinWithdrawalFee = 1
  BurnProtocolFee = 0
  HubDust = 2
  LiquidityTolerance = 2
  MinInitialLiquidity = 20
  InitialOrder <- AllThree
  InitialPrice <- MCPrice
  InitialReserve <- MCReserve
  InitialUserHub = 9
  InitialSlipFees = {4, None}
  TradeAmounts = {3, 7}
  LiquidityAmounts = {}
  AssetFees = {0, 5}
  ProtocolFees = {3}
  SlipFees = {4}
  OraclePrices = {}
  InitialPrices = {}
  Tradabilities = {}
  Caps = {}
  FeeTolerance = 2
  ATokens = {B}
  Overdrafts = {0, 2, 4}
  MaxCalls = 3
  MaxPositionId = 3
INVARIANT HubReservesBacked
PROPERTY CurvesKept
