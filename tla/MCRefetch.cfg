CONSTANTS
  Callers = {c1, c2}
  MaxSet = 1
  NoSet = NoSet
SPECIFICATION HistSpec
INVARIANT NextCallRefetches
