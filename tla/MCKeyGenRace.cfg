CONSTANTS
  Runs = {g1, g2}
  Old = Old
  Concurrent = TRUE
SPECIFICATION Spec
PROPERTY CompletedIsKept
CHECK_DEADLOCK FALSE
