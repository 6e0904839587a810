SPECIFICATION Spec
CONSTANTS
  Projects = {pr1}
  Targets = {t1, t2}
  Keys = {k1, k2}
  Policies = {p1, p2}
  None = None
  Requests = {o1, o2}
  MaxRequests = 6
INVARIANTS
  TypeOK
  NoOrphans
  NoDuplicates
PROPERTIES
  TargetFixed
  
SYMMETRY Symmetry
CHECK_DEADLOCK FALSE
