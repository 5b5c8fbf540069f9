\* Goroutines that share one key set, without symmetry: liveness is checked.
CONSTANTS
  Procs = {g1, g2}
  NoProc = NoProc
SPECIFICATION Spec
INVARIANTS
  IInv
  SerializedCgo
  NoUseAfterFree
  NoDoubleFree
  NoNilHandle
PROPERTIES
  CloseFreesAll
  ImplementsKeyService
