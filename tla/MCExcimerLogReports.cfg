CONSTANTS
  Positions <- MCPositions
  Stacks <- MCStacks
  no_spaces <- MCNoSpaces
  MaxDepths = {0, 1}
  Counts = {2}
  MaxEntries = 3
  Period = 5
SPECIFICATION Spec
INVARIANTS
  LogFaithful
  TracesComplete
  CollapsedExact
  SpeedscopeExact
  AggregateExact
