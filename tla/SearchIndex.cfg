SPECIFICATION Spec
CONSTANTS
  a = a
  b = b
  c = c
  d = d
  NumMsg = 4
  ChildOrders <- MCChildOrders
  MapOrders <- MCMapOrders
  ChildMax = 1
  ChildUnit = 2
  Word = {a, b, c, d}
  MaxPos <- MCMaxPos
  Byte = 8
  Starting <- MCStarting
  Similar <- MCSimilar
  MaxWords = 3
  Texts <- MCTexts
  Queries <- MCQueries
  HitLists <- MCHitLists
INVARIANTS VerifySorted SameArchive IndexRight SearchRight DistanceRight
CHECK_DEADLOCK FALSE
