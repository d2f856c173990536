SPECIFICATION Spec
CONSTANTS
  Messages = {m1, m2}
  Pictures = {}
  Pings = {}
  Updates = {u1, u2}
  Nights = {}
  NoEvent = NoEvent
  MaxOutages = 1
SYMMETRY Symmetry
INVARIANTS
  TypeOK
  Accounted
  SteeringSafety
  RepliesSafety
PROPERTIES
  KeepsPromise
CHECK_DEADLOCK FALSE
