SPECIFICATION VisitedSpec
CONSTANTS
  Proc = {p1, p2}
  MsgId = {a, b}
  NoMsgId = none
  Grace = 1
  Second = 2
  MaxClock = 3
  MaxFaults = 0
INVARIANTS HalfSecondGrace
CHECK_DEADLOCK FALSE
