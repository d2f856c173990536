SPECIFICATION Spec
CONSTANTS
  Nights = {n1}
  Pills = {p1}
  Others = {o1}
  NoEvent = NoEvent
  MaxNights = 2
  MaxOutages = 1
  Torn = TRUE
INVARIANTS
  RowIsFree
CHECK_DEADLOCK FALSE
