CONSTANTS
  Callers = {c1, c2}
  MaxCalls = 1
  MaxSet = 1
  NoSet = NoSet
  KeySets = {k1}
  NoKeys = NoKeys
SPECIFICATION Spec
VIEW AllButResult
PROPERTY EveryCallReturns
CHECK_DEADLOCK FALSE
