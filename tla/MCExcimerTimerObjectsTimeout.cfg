CONSTANTS
  Timers = {t1, t2}
  Durations = {0, 1}
  TimeoutCallbacks = {"callable", "other"}
  MaxEvents = 3
  MaxNested = 2
  MayThrow = FALSE
  MayBreak = FALSE
SPECIFICATION ObjectsSpec
SYMMETRY Symmetry
INVARIANTS
  Released
CHECK_DEADLOCK FALSE
