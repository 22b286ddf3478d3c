SPECIFICATION Spec
CONSTANTS
  NumDevices = 2
  MaxLoads = 3
  MaxThreads = 1
CHECK_DEADLOCK FALSE
INVARIANT TypeOK
INVARIANT FaultsHaveCause
INVARIANT OpenFindsLinked
INVARIANT ClassIsList
INVARIANT UnloadLeavesArrays
INVARIANT EitherOrder
