SPECIFICATION FairSpec
CONSTANTS
  w1 = w1
  w2 = w2
  w3 = w3
  a = a
  b = b
  c = c
  a1 = a1
  a2 = a2
  Workers = {w1, w2}
  Main = main
  Task <- MCTask
  NoTask = none
  Batches <- MCBatches
  Spawn <- MCFlat
  MaxSpurious = 0
PROPERTIES DestructorReturns
CHECK_DEADLOCK FALSE
