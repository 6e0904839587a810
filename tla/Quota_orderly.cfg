SPECIFICATION Spec
CONSTANTS
  o1 = o1
  o2 = o2
  i1 = i1
  i2 = i2
  m1 = m1
  m2 = m2
  m3 = m3
  Images = {i1, i2}
  Manifests = {m1, m2, m3}
  Size <- Sizes
  None = None
  Pushed <- Distinct
  Requests = {o1, o2}
  Ordered = {i1, i2}
  Scopes <- AllScopes
  Limits <- Roomy
  MaxUse = 9
  MaxFaults = 1
INVARIANTS
  TypeOK
  CountExact
  SizeExact
  RowRepaired
SYMMETRY RequestSymmetry
