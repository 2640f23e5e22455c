SPECIFICATION Spec
CONSTANTS
  c1 = c1
  Calls = {c1}
  Requests <- DisposalRequests
  Fees = {1}
  Caps = {1}
  MaxBlock = 1
  Undefined = Undefined
INVARIANTS
  DisposeErasesSigner
CHECK_DEADLOCK FALSE
