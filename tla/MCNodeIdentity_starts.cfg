SPECIFICATION Spec
CONSTANTS
  Starters = {s1, s2, s3}
  s1 = s1
  s2 = s2
  s3 = s3
  Ids = {i1, i2, i3, i4}
  i1 = i1
  i2 = i2
  i3 = i3
  i4 = i4
  MaxRunning = 3
SYMMETRY IdentitySymmetry
INVARIANTS
  TypeOK
  Agreement
  ReturnedIsStored
PROPERTIES
  DurableForever
