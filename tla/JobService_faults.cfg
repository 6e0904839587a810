SPECIFICATION Spec
CONSTANTS
  j1 = j1
  j2 = j2
  p1 = p1
  p2 = p2
  Jobs = {j1, j2}
  Workers = {w1, w2}
  Policies = {p1}
  PolicyOf <- OnePolicy
  Operation <- BadOp
  NoJob = NoJob
  RowsLimit = 1
  Requests = {"delete_job", "delete_target", "delete_project"}
  MaxTags = 1
  MaxFaults = 2
  MaxCrashes = 1
INVARIANTS
  TypeOK
  ExclusiveHolder
SYMMETRY WorkerSymmetry
CHECK_DEADLOCK FALSE
