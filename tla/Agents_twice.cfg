SPECIFICATION Spec
CONSTANTS
  Chosen = {"requests"}
  Dirs = {d1}
  Attentions = {a1, a2}
  Pictured = {a2}
  MaxEvents = 3
  MaxWrites = 1
  MaxCrashes = 1
  MaxCalls = 1
  Tasks = {t1}
  NoTask = NoTask
  Pushing = {t1}
  Hers = {t1}
  Answered = {t1}
  MaxWaits = 2
  MaxRuns = 0
  MaxFaults = 1
  Asked = {r1}
  MaxOpen = 1
  MaxTexts = 3
  MaxMishaps = 1
  Posts = {1}
  MaxReturns = 1
  MaxStops = 2
  Requests = {r1}
  Kinds = {"app"}
  Capacity = 1
  MaxReplies = 0
  MaxLinks = 1
  MaxEpochs = 1
  MaxSyncs = 1
  MaxTries = 1
  Speakers = {s1}
  DaySaid <- MCDaySaid
  Talks <- MCTalks
INVARIANTS
  SettledOnce
CHECK_DEADLOCK FALSE
