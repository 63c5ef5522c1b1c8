SPECIFICATION Spec
CONSTANTS
  t1 = t1
  t2 = t2
  NoTask = NoTask
  NoRun = NoRun
  Tasks <- One
  Kinds = {"cron", "event"}
  NeedsSlot = {t1}
  AdminOnly = {t1}
  Then <- NoChain
  Threshold = 2
  MaxRuns = 2
  MaxAsks = 2
  MaxEvents = 2
  MaxCrashes = 1
  MaxFaults = 1
INVARIANT TypeOK
INVARIANT NoPhantomRows
INVARIANT MembershipIsHeld
INVARIANT TriggerKept
INVARIANT DoubleOnlyAfterStop
