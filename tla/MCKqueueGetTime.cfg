CONSTANTS
  BILLION = 4
  WORD = 1024
  Modes <- MCModes
  MaxNow = 30
  MaxLate = 2
SPECIFICATION GetTimeSpec
INVARIANTS
  PeriodicEstimate
  ArithmeticExact
CHECK_DEADLOCK FALSE
