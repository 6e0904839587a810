SPECIFICATION FairSpec
CONSTANTS
  j1 = j1
  j2 = j2
  p1 = p1
  p2 = p2
  Jobs = {j1, j2}
  Workers = {w1}
  Policies = {p1, p2}
  PolicyOf <- TwoPolicies
  Operation <- TwoOps
  NoJob = NoJob
  RowsLimit = 2
  Requests = {"delete_job", "enablement"}
  MaxTags = 2
  MaxFaults = 0
  MaxCrashes = 1
PROPERTIES
  PendingIsHandled
  DisabledPolicyDrains
  Recovers
CHECK_DEADLOCK FALSE
