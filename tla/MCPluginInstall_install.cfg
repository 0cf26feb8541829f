CONSTANTS
  Operator = {a, b}
  Profiles <- Homes
  Version = {"v1", "v2"}
  Source = "v2"
  Foreign = "other"
  FirstPlugins <- Begins
  FirstConfig <- Configs
  FirstDb <- Dbs
  MaxCalls = 3
  MaxFaults = 1
  MaxOverlap = 2
  OverlapFrom <- Older
SPECIFICATION Spec
SYMMETRY AnyOrder
INVARIANTS NothingIsLost RollbackReturns SuccessIsWhole
\* A bounded number of calls: the instance ends when they are made.
CHECK_DEADLOCK FALSE
