SPECIFICATION MCFair
CONSTANTS
  r1 = r1
  r2 = r2
  i1 = i1
  i2 = i2
  s1 = s1
  s2 = s2
  Reqs = {r1, r2}
  Ids = {i1, i2}
  MaxCancels = 1
  Sessions = {s1, s2}
  None = None
CONSTRAINT
  InOrder
INVARIANTS
  TableIsExact
  CancelIsExact
  EndsCancelHandlers
  AnsweredAsRead
  PromptsAreReached
PROPERTIES
  CancelledEnds
