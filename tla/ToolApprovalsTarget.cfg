SPECIFICATION Spec
CONSTANTS
  Docs = {d1, d2}
  Texts = {t1, t2}
  Sessions = {s1, s2}
  MaxCards = 2
  NoDoc = NoDoc
  MaxVersions = 2
  MaxPending = 1
  MaxTurns = 2
  MaxRequests = 2
SYMMETRY Symmetry
CHECK_DEADLOCK FALSE
PROPERTY EditsItsOwn
