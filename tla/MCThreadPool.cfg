SPECIFICATION PoolSpec
CONSTANTS
  Job = {j1, j2, j3, j4}
  NoJob = NoJob
  Size = 3
INVARIANTS
  EnoughAwake
  NothingLeftBehind
PROPERTIES
  ShutdownReturns
  KeepsTheContract
