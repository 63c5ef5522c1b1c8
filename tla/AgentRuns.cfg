SPECIFICATION FairSpec
CONSTANTS
  MaxRuns = 2
  MaxEvents = 1
  Subs = {s1, s2}
INVARIANTS TypeOK ReplayExact OneRunning BarrierUnlessLapsed NobodyWaitsInVain
PROPERTIES WholeStreamDelivered ImplementsTurns NobodyHangs
CHECK_DEADLOCK FALSE
