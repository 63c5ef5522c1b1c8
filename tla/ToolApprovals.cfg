SPECIFICATION Spec
CONSTANTS
  Docs = {d1}
  Texts = {t1, t2}
  Sessions = {s1, s2}
  MaxCards = 2
  NoDoc = NoDoc
  MaxVersions = 2
  MaxPending = 1
  MaxTurns = 2
  MaxRequests = 2
INVARIANT TypeOK
INVARIANT ShownIsEdited
INVARIANT AnsweredOnce
PROPERTY ImplementsSealedEdits
SYMMETRY Symmetry
VIEW Lean
CHECK_DEADLOCK FALSE
