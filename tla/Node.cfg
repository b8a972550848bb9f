SPECIFICATION NodeSpec
CONSTANTS
  ann = ann
  bob = bob
  eve = eve
  Users <- MCUsers
  InitialLists <- MCLists
  Borrows <- MCBorrows
  Liquidations <- MCLiquidations
  Capacities = {2}
  MaxBlocks = 3
  MaxUpdates = 1
  MaxBlockId = 3
  MaxSwitches = 3
  MaxStops = 1
CHECK_DEADLOCK FALSE
INVARIANTS
  SendsLimited
  NobodyForgotten
  NoGapsUnlessTorn
PROPERTY
  WorkersFinish
