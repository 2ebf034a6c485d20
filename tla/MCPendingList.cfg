CONSTANTS
  Timers = {t1, t2, t3, t4}
  NULL = null
SPECIFICATION ListSpec
INVARIANTS
  Ring
PROPERTY ImplementsQueue
