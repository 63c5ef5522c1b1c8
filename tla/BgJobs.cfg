SPECIFICATION Spec
CONSTANTS
  Jobs = {j1, j2}
  NoJob = NoJob
  TheSession = s1
  Sessions <- MCSessions
  SessionOf <- MCSessionOf
  MaxCrashes = 1
INVARIANT TypeOK
INVARIANT ReportsAreTrue
INVARIANT ToldOnce
PROPERTY OutcomeIsFinal
PROPERTY NothingDroppedUnheard
SYMMETRY Symmetry
