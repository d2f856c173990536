SPECIFICATION Spec
CONSTANTS
  Chosen = {"sources", "requests", "inbox", "dove", "devices", "slack"}
  Dirs = {d1, d2}
  Attentions = {a1, a2}
  Pictured = {a2}
  MaxEvents = 3
  MaxWrites = 2
  MaxCrashes = 1
  MaxCalls = 0
  Tasks = {t1, t2}
  NoTask = NoTask
  Pushing = {t1}
  Hers = {}
  Answered = {t1}
  MaxWaits = 1
  MaxRuns = 2
  MaxFaults = 1
  Asked = {r1, r2}
  MaxOpen = 1
  MaxTexts = 3
  MaxMishaps = 2
  Posts = {1, 2}
  MaxReturns = 1
  MaxStops = 2
  Requests = {q1}
  Kinds = {"app", "browser"}
  Capacity = 1
  MaxReplies = 1
  MaxLinks = 2
  MaxEpochs = 2
  MaxSyncs = 3
  MaxTries = 2
  Speakers = {s1}
  DaySaid <- MCDaySaid
  Talks <- MCTalks
SYMMETRY Symmetry
INVARIANTS
  TypesOK
  
  RequestsSafety
  InboxSafety
  DoveSafety
  DeviceSafety
  SyncedAgrees
  SlackSafety
PROPERTIES
  StepsKept
CHECK_DEADLOCK FALSE
