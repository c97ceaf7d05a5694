SPECIFICATION Spec
CONSTANTS
  Root = 1
  Listing <- MCListing
  Failing = {7}
  Panicking = {6}
  Rejecting = TRUE
  Builders <- MCBuilders
CHECK_DEADLOCK FALSE
INVARIANTS
  SerialOrder
  EndIsExplained
  DirectoriesAreAccounted
PROPERTIES
  CallsReturn
