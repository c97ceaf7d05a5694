CONSTANTS
    Nodes <- MCNodes
    Kind <- MCKind
    Listing <- MCListing
    Target <- MCTarget
    Device <- MCDevice
    Rank <- MCRank
    Gone = "gone"
    Starts <- MCStarts
    MaxSkips = 2
    OptionSets <- MCOptionSets
SPECIFICATION SerialSpec
CHECK_DEADLOCK FALSE
INVARIANTS
  ReturnsThePromise
  FramesAreAccounted
