SPECIFICATION Spec
CONSTANTS
  Chosen = {"workspace", "checks", "settings"}
  HerCommands = {h1}
  Curators = {c1}
  Tools = {}
  NoCommand = none
  Jobs = 1
  MaxCuts = 2
  Slots = 2
  WeekDays = 1
  MonthDays = 1
  YearMonths = 1
  Aheads = {1}
  ShiftTimes = {3}
  Shifts <- MCShifts
  SearchDays = 1
  Checks = {c}
  Crons <- MCCrons
  OneOff = OneOff
  Delays = {1}
  Hours <- MCHours
  NightlySlot = 0
  PingInterval = 1
  MaxTime = 5
  MaxMessages = 1
  MaxChanges = 1
  Routes = {r1, r2}
  Default = r1
  Keys = {k1, k2}
  Values = {v}
  Unset = Unset
  Removable = {r2}
  MaxDeeds = 2
INVARIANTS
  SettingsSafety
PROPERTIES
  JobsComeToEnd
  DueComes
  SettingsComeToRest
CHECK_DEADLOCK FALSE
