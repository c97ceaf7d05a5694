SPECIFICATION SessionSpec
CONSTANTS
  Path = {i, a, d, di, df}
  i = i
  a = a
  d = d
  di = di
  df = df
  hides = hides
  keeps = keeps
  Root = Root
  Nothing = Nothing
  Folder = Folder
  Content = {hides, keeps}
  Binary = {hides}
  IgnoreFile = {i, di}
  Above <- MCAbove
  Rank <- MCRank
  Bytes <- MCBytes
  Hides <- MCHides
  Starts <- MCStarts
  PageSize = 2
  MaxChanges = 2
  Scenarios <- MCScenarios
CHECK_DEADLOCK FALSE
INVARIANTS
  RevisionConverges
  PagesOfOneReport
PROPERTIES
  KeepsUp
