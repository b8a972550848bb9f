SPECIFICATION Spec
CONSTANTS
  u1 = u1
  u2 = u2
  treasury = treasury
  r1 = r1
  r2 = r2
  HDX = HDX
  trader = trader
  referrer1 = referrer1
  None = None
INVARIANTS
  StakesBacked
  RewardsCovered
  FeesAccounted
PROPERTY
  ShareValuesKept
CHECK_DEADLOCK FALSE
