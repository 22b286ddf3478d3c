SPECIFICATION FairPlatformSpec
CONSTANTS
  SMP = FALSE
  NoOne = NoOne
  Clients = {c1}
  NumSamples = {0, 1}
  Distances = {1}
  MAX_BUFF_SIZE = 1
  Faults = {"memory"}
  MaxLost = 2
  MaxStarts = 2
  MaxStores = 1
CHECK_DEADLOCK FALSE
INVARIANT PlatformTypeOK
INVARIANT OneSampler
INVARIANT BusyIsServed
INVARIANT DistanceIsLatest
PROPERTY EverySamplerPublishes
