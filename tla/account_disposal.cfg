SPECIFICATION Spec
CONSTANTS
  c1 = c1
  c2 = c2
  Calls = {c1, c2}
  Requests <- SpendingRequests
  Fees = {1, 2}
  Caps <- MCCaps
  MaxBlock = 2
  Undefined = Undefined
SYMMETRY CallSymmetry
INVARIANTS
  LateCallsNeverSpend
  RejectionMeansNotSent
  ResultsAreTrue
PROPERTIES
  ImplementsGate
CHECK_DEADLOCK FALSE
