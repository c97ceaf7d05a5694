SPECIFICATION Spec
CONSTANTS
  top = top
  left = left
  right = right
  leaf = leaf
  NoDir = NoDir
  Root = top
  Dir <- MCDir
  Subdirs <- MCSubdirs
  FileCount <- MCFileCount
  Failing = {left}
  Hidden = {right}
  WorkerCount = 3
  Threads = 2
  Calls <- MCCalls
INVARIANTS
  NoLostWakeup
  NoVisitAfterReturn
  ReportIsFaithful
PROPERTIES
  ImplementsDirectoryWalk
