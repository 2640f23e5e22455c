SPECIFICATION Spec
CONSTANTS
  p1 = p1
  p2 = p2
  p3 = p3
  Paths = {p1, p2, p3}
  MaxObjects = 4
  Undefined = Undefined
SYMMETRY PathSymmetry
INVARIANTS
  TypeOK
  NoOrphans
  ReturnedMeansErased
  ClientIsShared
