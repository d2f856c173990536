SPECIFICATION Spec
CONSTANTS
  Chosen = {"workspace", "output", "checks", "memory"}
  HerCommands = {h1, h2}
  Curators = {}
  Tools = {t1}
  NoCommand = none
  Jobs = 1
  MaxCuts = 1
  Widths = {1, 3, 4}
  UTFMax = 4
  MaxOutput = 9
  MaxShown = 3
  MaxPiece = 6
  MaxCharacters = 6
  Slots = 3
  WeekDays = 2
  MonthDays = 3
  YearMonths = 1
  Aheads = {1}
  ShiftTimes = {4, 6}
  Shifts <- MCShifts
  SearchDays = 4
  Checks = {c}
  Crons <- MCCrons
  OneOff = OneOff
  Delays = {0, 2}
  Hours <- MCHours
  NightlySlot = 0
  PingInterval = 2
  MaxTime = 8
  MaxMessages = 1
  MaxChanges = 1
  PathOrder <- MCPathOrder
  Kind <- MCKind
  Words <- MCWords
  NoFile = NoFile
  FirstTree <- MCFirstTree
  Template <- MCTemplate
  HerEdits <- MCHerEdits
  CuratorEdits <- MCCuratorEdits
  OthersEdits <- MCOthersEdits
  Moves <- MCMoves
  RewriteAll = FALSE
  RotateFiles = 1
  MaxTurns = 2
  MaxWrites = 2
  MaxUpsets = 1
SYMMETRY Symmetry
INVARIANTS
  TypesOK
  WorkspaceSafety
  CappedSafety
  ChecksSafety
  MemorySafety
CHECK_DEADLOCK FALSE
