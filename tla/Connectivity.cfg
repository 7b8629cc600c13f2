SPECIFICATION FairSpec
CONSTANTS
  NumMsg = 4
  Archives <- MCArchives
  Missing = missing
  Malformed = malformed
  TimeTravelLimit = 2
  Word = 1024
  MaxTime = 5
INVARIANTS RecordsAgree EveryMessageReachable LoopsCutOnce SavedThreads DatesRight
PROPERTIES Terminates
CHECK_DEADLOCK FALSE
