CONSTANTS
  Functions = {f}
  Lines = {1, 2}
  Marker = marker
  Iterators = {i1, i2}
  Objects = {1, 2, 3}
  MaxEntries = 2
  MaxVars = 1
SPECIFICATION Spec
INVARIANTS
  RefsExact
  EntriesExact
  StringsInMemory
CHECK_DEADLOCK FALSE
