CONSTANTS
  MaxOwed = 3
  MaxOpen = 2
  Signals = TRUE
  StartMayFail = TRUE
  SetupMayFail = TRUE
  CloseMayFail = TRUE
  DescriptorReused = TRUE
SPECIFICATION FairSpec
INVARIANTS
  NoThreadWhenStopped
  PeriodicServed
  NoDescriptorLeft
PROPERTIES
  StopReturns
  EventReported
  ImplementsTimerlib
