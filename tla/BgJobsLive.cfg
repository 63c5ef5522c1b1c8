SPECIFICATION FairSpec
CONSTANTS
  Jobs = {j1}
  NoJob = NoJob
  TheSession = s1
  Sessions <- MCSessions
  SessionOf <- MCSessionOf
  MaxCrashes = 1
PROPERTY EventuallyHeard
PROPERTY ImplementsDelivery
