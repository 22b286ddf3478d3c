SPECIFICATION FairSpec
CONSTANTS
  SMP = FALSE
  NoOne = NoOne
  Clients = {c1}
  NumSamples = {1, 2}
  Distances <- MCDistances
  MAX_BUFF_SIZE = 2
  Faults = {}
  MaxLost = 2
  MaxStarts = 2
CHECK_DEADLOCK FALSE
INVARIANT ResultFromFreshSamples
INVARIANT BusyIsServed
PROPERTY IsMeasurement
PROPERTY MeasurementEnds
PROPERTY WaitingReadReturns
