SPECIFICATION FairSpec
CONSTANTS
  Programs = {p1}
  NumDevices = 3
  MaxLoads = 2
CHECK_DEADLOCK FALSE
INVARIANT TypeOK
INVARIANT LiveIsWhole
INVARIANT OpenFindsLinked
INVARIANT FaultsHaveCause
INVARIANT ExitLeavesNothing
PROPERTY OpenReturns
