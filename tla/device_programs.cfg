SPECIFICATION OperatingSpec
CONSTANTS
  SMP = TRUE
  NoOne = NoOne
  Clients = {c1, c2, c3}
  NumSamples <- MCOnePulse
  Distances = {1}
  MAX_BUFF_SIZE = 2
  Faults = {}
  MaxLost = 0
  MaxStarts = 3
CHECK_DEADLOCK FALSE
SYMMETRY Symmetry
INVARIANT OneSampler
INVARIANT BusyIsServed
INVARIANT DeliveredWasPublished
PROPERTY DeliveredOnce
PROPERTY EmptyReadMeasures
