SPECIFICATION FairSpec
CONSTANTS
  t1 = t1
  t2 = t2
  NoTask = NoTask
  NoRun = NoRun
  Tasks <- Two
  Kinds = {"once", "event"}
  NeedsSlot = {t1, t2}
  AdminOnly = {}
  Then <- ThenTwo
  Threshold = 1
  MaxRuns = 1
  MaxAsks = 0
  MaxEvents = 1
  MaxCrashes = 1
  MaxFaults = 1
INVARIANT OneModelRun
PROPERTY TriggerAnswered
