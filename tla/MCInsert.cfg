CONSTANTS
  Callers = {c1}
  MaxCalls = 2
  MaxSet = 2
  NoSet = NoSet
  KeySets = {k1, k2}
  NoKeys = NoKeys
SPECIFICATION Spec
INVARIANTS
  TypeOK
  OneRowPerItem
  OneKeySetPerRow
PROPERTIES
  AckedIsStored
  RoutedInServerSet
SYMMETRY Symmetry
VIEW AllButResult
CHECK_DEADLOCK FALSE
