SPECIFICATION Spec
CONSTANTS
  c1 = c1
  Calls = {c1}
  Requests <- AllRequests
  Fees = {1, 2}
  Caps <- MCCaps
  MaxBlock = 2
  Undefined = Undefined
INVARIANTS
  TypeOK
  SpendInv
  ReleasedWithinCap
  SignsOnlyAsOwnPayer
  WireIsSigned
PROPERTIES
  EveryStepAdvances
CHECK_DEADLOCK FALSE
