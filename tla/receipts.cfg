SPECIFICATION FairSpec
CONSTANTS
  q1 = q1
  n1 = n1
  n2 = n2
  Queries = {q1}
  Nodes = {n1, n2}
  Commitments = {"processed", "confirmed", "finalized"}
  Slots = {1, 2}
INVARIANTS
  TypeOK
  ReceiptsAreDurable
  ReceiptIsConsistent
  WaitEndsAtTarget
PROPERTIES
  EveryQuerySettles
