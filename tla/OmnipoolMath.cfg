SPECIFICATION Spec
CONSTANTS
  None = None
  PERMILL = 20
  FIXED = 1000
  Reserves = {13, 30}
  HubReserves = {11, 24, 40}
  Amounts = {1, 3, 7}
  Fees = {0, 1, 5}
  Caps = {2, 10}
  Flows <- MCFlows
  Doubled = FALSE
INVARIANT TradesKeepCurves
