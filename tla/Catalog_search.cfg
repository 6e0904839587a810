SPECIFICATION Spec
CONSTANTS
  o1 = o1
  o2 = o2
  Requests = {o1, o2}
  Repos = {1, 2}
  Projects = {1, 2}
  ProjectOf <- Hyphen
  Tags = {1}
  Blobs = {1}
  PageSize = 1
  None = None
  MaxBatch = 2
  MaxPushes = 2
  MaxRequests = 2
  MaxFaults = 0
INVARIANTS
  SearchComplete
SYMMETRY RequestSymmetry
CHECK_DEADLOCK FALSE
