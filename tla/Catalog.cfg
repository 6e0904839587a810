SPECIFICATION Spec
CONSTANTS
  o1 = o1
  o2 = o2
  Requests = {o1, o2}
  Repos = {1, 2, 3}
  Projects = {1, 2}
  ProjectOf <- InOrder
  Tags = {1}
  Blobs = {1, 2}
  PageSize = 1
  None = None
  MaxBatch = 2
  MaxPushes = 2
  MaxRequests = 2
  MaxFaults = 1
INVARIANTS
  TypeOK
  RowsComplete
  RowsReal
  
  
  PagesComplete
  RowsOwned
  CopyComplete
  SearchComplete
SYMMETRY RequestSymmetry
CHECK_DEADLOCK FALSE
