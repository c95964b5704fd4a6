SPECIFICATION Addressed
CONSTANTS
  Reqs = {r1}
  Ids = {i1}
  MaxCancels = 1
  Sessions = {s1}
  None = None
INVARIANTS
  CancelReachesPrompts
