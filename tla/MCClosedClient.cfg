\* One goroutine closes a client and calls it again.
CONSTANTS
  Callers = {p1}
  Clients = {c1}
  Tokens = {c1}
  KeySets = {k1, k2}
  NoKeys = NoKeys
  NoPrint = NoPrint
  MaxCalls = 2
SPECIFICATION Spec
INVARIANT
  AfterCloseSaysClosed
CHECK_DEADLOCK FALSE
