SPECIFICATION Spec
CONSTANTS
  SMP = FALSE
  NoOne = NoOne
  Clients = {c1}
  NumSamples <- MCSamples
  Distances = {1}
  MAX_BUFF_SIZE = 2
  Faults = {"kthread", "irq", "memory"}
  MaxLost = 1
  MaxStarts = 2
CHECK_DEADLOCK FALSE
INVARIANT TypeOK
PROPERTY IsMeasurement
