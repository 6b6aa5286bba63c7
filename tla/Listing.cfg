SPECIFICATION ListingSpec
CONSTANTS
  N = 3
  PlainNames = {a, b}
  HiddenNames = {h}
  DotsNames = {dd}
  FileNames = {b}
  FrameLimit = 4
  Files = {1, 2, 3}
  HiddenFiles = {1, 2}
  DotFiles = {1}
  DotDotFiles = {1}
  Stats <- MCStats
  OptionSets <- MCOptionSets
  IntMax = 3
  MaxChanges = 1
  Gone = gone
INVARIANTS FaultsStayInTheirArgument EverythingListed DepthOfTheTree NoneLost SortedAsAsked
