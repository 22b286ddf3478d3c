SPECIFICATION Spec
CONSTANTS
  Devices = {d1, d2}
  SMP = TRUE
  Prompt = {d1}
  Slow = 1
  Second = 6
  PerCm = 2
  MaxTime = 6
  MaxPulses = 2
  MaxOthers = 1
CHECK_DEADLOCK FALSE
INVARIANT OneSamplePerPulse
INVARIANT OnlyShortened
INVARIANT OnlyRollsOver
