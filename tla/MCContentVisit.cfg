SPECIFICATION Spec
CONSTANTS
  FileCount = 3
  WorkerCount = 2
  Calls <- MCCalls
  Capacity = 1
  BatchMax = 2
  MaxEntries = 4
  Unreliable = {2}
  WalkFaults = TRUE
  MayRefuse = TRUE
  Interruptions = {"cancel", "expire"}
  Answers = {"continue", "skip", "quit", "panic"}
CHECK_DEADLOCK FALSE
INVARIANTS
  CompleteReport
  OutcomeIsReported
PROPERTIES
  CallReturns
