SPECIFICATION MarketSpec
CONSTANTS
  None = None
  PERMILL = 100
  PERBILL = 100
  Scale <- MCScale
  D_ITERATIONS = 64
  Y_ITERATIONS = 64
  Users = {u1, u2}
  InitialBalance = 14
  MinTradingLimit = 1
  MinPoolLiquidity = 5
  Amplifications = {2, 5}
  Fees = {10}
  Amounts = {6}
  ShareAmounts = {4}
  PegPrices <- MCPegPrices
  MaxPegUpdates = {1}
  TradabilityStates <- MCTradabilityStates
  MaxBlock = 2
  MaxCalls = 3
  PurchaseFees = {0}
  BuyBackFees = {10}
  BuybackRates = {29}
  Coefficients <- MCCoefficients
  MaxHoldings = {14}
  MinArbitrageAmount = 0
  alice = alice
  bob = bob
  treasury = treasury
  router = router
  settler = settler
  omnipool = omnipool
  xyk = xyk
  feed = feed
INVARIANTS
  IssuedIsBacked
  QuotesHonoured
  OrdersKept
PROPERTIES
  StablePoolKept
  ImplementsEveryBlock
  SalesKept
SYMMETRY Symmetry
CHECK_DEADLOCK FALSE
