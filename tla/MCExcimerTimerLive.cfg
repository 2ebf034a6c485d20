CONSTANTS
  Timers = {t1, t2}
  Main = main
  None = none
  ZTS = FALSE
  INT_MAX = 1
  MaxDebt = 1
  MaxDepth = 1
SPECIFICATION FairSpec
PROPERTIES
  EventuallyDelivered
