\* Two goroutines, two clients of which one has a token, two key sets, three calls.
CONSTANTS
  Callers = {p1, p2}
  Clients = {c1, c2}
  Tokens = {c1}
  KeySets = {k1, k2}
  NoKeys = NoKeys
  NoPrint = NoPrint
  MaxCalls = 3
SPECIFICATION FairSpec
INVARIANTS
  TypeOK
  RegisteredMeansServed
  VerifiedMeansServed
  ClosedIsFinal
PROPERTY
  EveryCallReturns
CHECK_DEADLOCK FALSE
