SPECIFICATION FairSpec
CONSTANTS
  Nights = {n1}
  Pills = {p1}
  Others = {o1}
  NoEvent = NoEvent
  MaxNights = 2
  MaxOutages = 2
  Torn = FALSE
PROPERTIES
  AskIsAnswered
  PillEnds
  SwitchEnds
CHECK_DEADLOCK FALSE
