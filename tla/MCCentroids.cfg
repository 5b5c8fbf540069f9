CONSTANTS
  Callers = {c1, c2, c3}
  MaxSet = 2
  NoSet = NoSet
SPECIFICATION RecoverySpec
INVARIANTS
  HistTypeOK
  OnlyOverlapIsStale
PROPERTIES
  ImplementsLoadOnce
  SettlesOnServerSet
