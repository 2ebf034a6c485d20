CONSTANTS
  EventTypes = {real, cpu}
  Periods = {p1, p2}
  Depths = {d1, d2}
  MaxSamplesValues = {1, 2}
  MaxTaken = 2
  MaxLogs = 3
  MaxNested = 2
  MaxVariables = 1
  MayThrow = TRUE
  MayBreak = TRUE
SYMMETRY Symmetry
SPECIFICATION Spec
INVARIANTS
  RefsExact
  EverySampleOnce
  SamplesHandedOver
  OptionsKept
  PeriodKept
PROPERTIES
  FlushedWhenFull
CHECK_DEADLOCK FALSE
