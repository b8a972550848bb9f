SPECIFICATION MCSpec
CONSTANTS
  None = None
  hdx = hdx
  dot = dot
  aca = aca
  Assets = {hdx, dot, aca}
  NativeAsset = hdx
  RegistryCategory <- MCRegistryCategory
  Price <- MCPrice
  Accounts = {alice, sink}
  Treasury = alice
  Amounts = {1, 3}
  Params <- MCParams
  Lockdowns = {2}
  PolicyAssets = {hdx}
  PolicyAccounts = {sink}
  Accuracy = 10
  MaxBalance = 6
  MaxTime = 3
  Holders = {alice, pot, router}
  Router = router
  Whitelist = {pot, router}
  Tokens = {sht, usd}
  Native = hdx
  ED = 10
  InsufficientED = 11
  Moved = {1, 2}
  MaxHolding = 2
  nameOfHdx = nameOfHdx
  AssetNames <- MCAssetNames
  NativeName = nameOfHdx
  NewAssets <- MCNewAssets
  Updates <- MCUpdates
  otherName = otherName
  Locations = {l1, l2}
  Kinds = {"Token", "External", "Bond"}
  DecimalPlaces = {12}
  SequentialIdStartAt = 2
  MaxAssetId = 4
  NativeDecimals = 12
  IssuableKinds = {"Token"}
  Maturities = {1}
  BondAmounts = {1, 2}
  MaxIssued = 2
  MaxMoment = 1
  MaxDepositOps = 4
  MaxRegistryOps = 4
INVARIANTS
  WindowBound
  PlainMessageAccounted
  DepositsAccounted
  RegistryIndexed
  BondsBacked
PROPERTY
  FrozenInLockdown
