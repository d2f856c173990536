SPECIFICATION FairSpec
CONSTANTS
  Messages = {m1}
  Pictures = {}
  Pings = {p1}
  Updates = {u1}
  Nights = {n1}
  NoEvent = NoEvent
  MaxOutages = 2
INVARIANTS
  SleepUndisturbed
PROPERTIES
  EveryMessageEnds
  StopEnds
CHECK_DEADLOCK FALSE
