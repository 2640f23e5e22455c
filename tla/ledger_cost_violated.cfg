SPECIFICATION LedgerSpec
CONSTANTS
  c1 = c1
  c2 = c2
  Calls = {c1, c2}
  Requests <- MCRequests
  Fees = {1}
  Caps <- MCCaps
  MaxBlock = 1
  Undefined = Undefined
  Payment <- MCPayment
  MaxAge = 1
  Rent = 2
  Lag = 1
SYMMETRY CallSymmetry
INVARIANTS
  CostWithinCap
CHECK_DEADLOCK FALSE
