SPECIFICATION Spec
CONSTANTS
  Terms = {t1}
  Handlers = {h1}
  MaxTerminals = 1
  None = None
INVARIANTS
  FailureIsReported
CHECK_DEADLOCK FALSE
