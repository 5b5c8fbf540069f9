CONSTANTS
  Goroutines = {g1, g2}
  Threads = {t1, t2}
  NoThread = NoThread
  MaxCalls = 2
SYMMETRY Symmetry
SPECIFICATION Spec
INVARIANTS
  TypeOK
  OwnMessage
PROPERTIES
  CallerStaysPinned
