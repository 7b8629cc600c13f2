SPECIFICATION FairSpec
CONSTANTS
  Proc = {p1, p2}
  MsgId = {a, b}
  NoMsgId = none
  Grace = 1
  Second = 2
  MaxClock = 3
  MaxFaults = 1
INVARIANTS MissedOnlySameSecond StaleAtMostGrace
PROPERTIES CallsReturn
CHECK_DEADLOCK FALSE
