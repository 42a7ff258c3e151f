SPECIFICATION Spec
CONSTANTS
  y1 = y1
  n1 = n1
  n2 = n2
  Order <- Orders
  IsYes <- Yes
  Deposit <- Deposits
  MinShares <- Minimums
  Deadline <- Deadlines
  MaxUint = 15
  BPS_DENOMINATOR = 3
  MAX_SOURCE_FEE_BPS = 2
  Fill = {0, 1, 2, 3, 15}
  FeeBps = {1, 2, 3}
  CreatorFeeBps = {2, 4}
  MarketExpiry = 2
  MaxTime = 2
INVARIANTS NeverOverfilled MinimumHonoured FeesWithinCap CollateralConserved
