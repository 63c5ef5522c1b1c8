SPECIFICATION Spec
CONSTANTS
  Turns = {t1}
  NoTurn = NoTurn
  MaxMsgs = 6
  MaxFaults = 0
  MaxSystem = 1
  MaxContext = 0
  MinConvo = 4
  MinHistory = 2
  RecentKeep = 1
  KeepLong = 2
PROPERTY AutoSummarisesWhatItDrops
CHECK_DEADLOCK FALSE
