SPECIFICATION Spec
CONSTANTS
  Item <- MCItem
  Dir <- MCDir
  Root = 1
  Entries <- MCEntries
  Errors = {7}
  RootError = RootError
  ScheduleError = ScheduleError
  Limit = 2
  Iterators <- MCIterators
  Rejecting = TRUE
  Panicking = {6}
CHECK_DEADLOCK FALSE
INVARIANTS
  DepthFirstOrder
  EndIsExplained
  ReadsAreAccounted
PROPERTIES
  CallsReturn
