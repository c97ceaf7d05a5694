SPECIFICATION Spec
CONSTANTS
  outer = outer
  inner = inner
  second = second
  deeper = deeper
  other = other
  NoJob = NoJob
  Job <- MCJob
  Parent <- MCParent
  Threads = 2
  Patient = {other}
  PoolDrops = TRUE
CHECK_DEADLOCK FALSE
PROPERTIES
  NobodyStarves
  KeepsTheContract
