CONSTANTS
  MaxOwed = 3
  CondWaitMayFail = TRUE
  PthreadKillMayFail = TRUE
SPECIFICATION FairSpec
INVARIANTS
  NothingLeft
PROPERTIES
  CallsReturn
  ImplementsTimerlib
CHECK_DEADLOCK FALSE
