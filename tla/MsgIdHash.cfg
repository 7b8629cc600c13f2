SPECIFICATION Spec
CONSTANTS
  NumMsg = 5
  HashSize <- MCHashSize
  Str = {p, q, r}
  Empty = 3
  MaxSize = 300
INVARIANTS SizingLeavesRoom TypeOK LookupComplete MetaConsistent
CHECK_DEADLOCK FALSE
