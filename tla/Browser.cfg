SPECIFICATION Spec
CONSTANTS
  CondensedDepthThreshold = 1
  CondensedStep = 1
  CondensedMax = 2
  HistorySize = 2
  Archives <- MCArchives
  Saved <- MCSaved
  FullRows = {3}
  SplitRows = {2}
INVARIANTS TreeRight HistoryRight
PROPERTIES StaysOnScreen LostOffScreenOnly
CHECK_DEADLOCK FALSE
