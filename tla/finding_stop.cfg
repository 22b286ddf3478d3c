SPECIFICATION PlatformSpec
CONSTANTS
  SMP = FALSE
  NoOne = NoOne
  Clients = {c1}
  NumSamples = {1}
  Distances = {1}
  MAX_BUFF_SIZE = 1
  Faults = {}
  MaxLost = 0
  MaxStarts = 2
  MaxStores = 0
CHECK_DEADLOCK FALSE
INVARIANT OneMeasurement
