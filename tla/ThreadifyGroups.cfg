SPECIFICATION Spec
CONSTANTS
  NumMsg = 4
  Workers = {w1, w2}
  DateTables <- MCDateTables
  Ref = {r1, r2, r3}
  RefTables <- MCRefTables
  Year = 2
  Month = 1
  ChildMax = 2
  ChildUnit = 1
INVARIANTS GroupedHaveCommonParent
CHECK_DEADLOCK FALSE
