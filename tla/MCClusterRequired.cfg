CONSTANTS
  Callers = {c1}
  MaxCalls = 2
  MaxSet = 1
  NoSet = NoSet
  KeySets = {k1}
  NoKeys = NoKeys
SPECIFICATION RememberedSpec
PROPERTY ClusterRequiredMeansNoSet
CHECK_DEADLOCK FALSE
