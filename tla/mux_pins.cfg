SPECIFICATION LineSpec
CONSTANTS
  Drivers = {"character", "platform"}
  NumDevices = 2
  Programs = {p1, p2}
  Pins = {0, 6}
  GpioPin <- MCGpioPin
  DirectionPin <- MCDirectionPin
  FunctionPins <- MCFunctionPins
  AskedPins = {0, 6}
  MaxCalls = 2
  Threads = {t1, t2}
  MaxStarts = 3
  MaxBusy = 2
  NoOne = NoOne
CHECK_DEADLOCK FALSE
SYMMETRY Symmetry
INVARIANT RequestedIsInUse
INVARIANT UndisturbedStaysSet
INVARIANT ExitFreesAll
INVARIANT LinesMatchThreads
 
