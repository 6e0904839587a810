SPECIFICATION Spec
CONSTANTS
  j1 = j1
  j2 = j2
  p1 = p1
  p2 = p2
  Jobs = {j1, j2}
  Workers = {w1, w2}
  Policies = {p1}
  PolicyOf <- OnePolicy
  Operation <- TwoOps
  NoJob = NoJob
  RowsLimit = 2
  Requests = {"delete_job"}
  MaxTags = 1
  MaxFaults = 0
  MaxCrashes = 0
INVARIANTS
  StatusWriteFindsRow
SYMMETRY WorkerSymmetry
CHECK_DEADLOCK FALSE
