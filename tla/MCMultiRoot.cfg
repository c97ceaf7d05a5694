CONSTANTS
    Nodes <- MCNodes
    Kind <- MCKind
    Listing <- MCListing
    Target <- MCTarget
    Device <- MCDevice
    Rank <- MCRank
    Gone = "gone"
    Roots <- MCRoots
    RootPath <- MCRootPath
    Callers <- MCCallers
    MaxRejections = 1
    RootWorkers = {1, 2, 3}
    TraversalWorkers = 2
    QuitAt = 1
SPECIFICATION Spec
INVARIANTS
  SameAsSerial
  IndependentOfSchedule
  LanesEndFirst
  FirstErrorInOrder
  DeliversUntilQuit
