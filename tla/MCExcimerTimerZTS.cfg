CONSTANTS
  Timers = {t1}
  Main = main
  None = none
  ZTS = TRUE
  INT_MAX = 2
  MaxDebt = 2
  MaxDepth = 1
SPECIFICATION FairSpec
PROPERTY EventuallyDelivered
