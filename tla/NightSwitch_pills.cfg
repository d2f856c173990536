SPECIFICATION Spec
CONSTANTS
  Nights = {n1}
  Pills = {p1, p2}
  Others = {o1}
  NoEvent = NoEvent
  MaxNights = 2
  MaxOutages = 2
  Torn = TRUE
SYMMETRY Symmetry
INVARIANTS
  TypeOK
  
  
  TwoPendingAtMost
PROPERTIES
  ResumeIsNeeded
  KeepsHandover
CHECK_DEADLOCK FALSE
