SPECIFICATION Spec
CONSTANTS
  q1 = q1
  n1 = n1
  Queries = {q1}
  Nodes = {n1}
  Commitments = {"finalized"}
  Slots = {1}
INVARIANTS
  NullOnlyWhilePending
