SPECIFICATION Spec
CONSTANTS
  p1 = p1
  p2 = p2
  Paths = {p1, p2}
  MaxObjects = 2
  Undefined = Undefined
INVARIANTS
  NoSecondClient
