SPECIFICATION DisciplinedSpec
CONSTANTS
  SMP = FALSE
  NoOne = NoOne
  Nothing = Nothing
  Procs = {p1, p2}
  Data <- MCData
  Size = 3
  Cells = 3
  MaxUnits = 3
  MaxStores = 0
PROPERTY IsQueue
