CONSTANTS
  Timers = {t1, t2}
  Durations = {1}
  TimeoutCallbacks = {"callable"}
  MaxEvents = 3
  MaxNested = 2
  MayThrow = TRUE
  MayBreak = TRUE
SPECIFICATION ObjectsSpec
SYMMETRY Symmetry
INVARIANTS
  ObjectsTypeOK
  Released
PROPERTIES
  EventsReported
CHECK_DEADLOCK FALSE
