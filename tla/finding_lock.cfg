SPECIFICATION FairSpec
CONSTANTS
  SMP = TRUE
  NoOne = NoOne
  Clients = {c1}
  NumSamples = {1}
  Distances = {1}
  MAX_BUFF_SIZE = 2
  Faults = {}
  MaxLost = 0
  MaxStarts = 1
CHECK_DEADLOCK FALSE
PROPERTY LockIsReleased
