CONSTANTS
  Timers = {t1, t2}
  Main = main
  None = none
  ZTS = FALSE
  INT_MAX = 2
  MaxDebt = 2
  MaxDepth = 2
SPECIFICATION Spec
SYMMETRY Symmetry
INVARIANTS
  EventsConserved
  OnlyLiveTimers
  NoLostWakeup
  ShutdownClean
  NoHoldAndWait
  IndInv
PROPERTIES
  StopWindsDown
  UsesTimerlib
