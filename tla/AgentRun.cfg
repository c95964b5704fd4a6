SPECIFICATION Spec
CONSTANTS
  Terms = {t1}
  Handlers = {h1, h2}
  MaxTerminals = 1
  None = None
INVARIANTS
  AgentLeavesNothing
  TerminalsLeaveNothing
  ExitIsReported
PROPERTIES
  ExecuteEnds
CHECK_DEADLOCK FALSE
