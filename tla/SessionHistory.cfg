SPECIFICATION Spec
CONSTANTS
  Turns = {t1}
  NoTurn = NoTurn
  MaxMsgs = 4
  MaxFaults = 1
  MaxSystem = 1
  MaxContext = 1
  MinConvo = 3
  MinHistory = 2
  RecentKeep = 1
  KeepLong = 2
INVARIANT TypeOK
INVARIANT RowsInTurnOrder
INVARIANT RemovedStaysRemoved
PROPERTY PromptIsWhole
PROPERTY LongSessionsKept
PROPERTY ImplementsTranscript
VIEW Seen
CHECK_DEADLOCK FALSE
