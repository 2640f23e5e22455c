SPECIFICATION FairSpec
CONSTANTS
  c1 = c1
  c2 = c2
  c3 = c3
  Calls = {c1, c2, c3}
  Requests <- DisposalRequests
  Fees = {1, 2}
  Caps = {1}
  MaxBlock = 1
  Undefined = Undefined
PROPERTIES
  EveryCallSettles
  ErasureIsFinal
  NoCallIsArmedAfterErasure
CHECK_DEADLOCK FALSE
