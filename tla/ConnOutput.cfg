SPECIFICATION FairSpec
CONSTANTS
  Users = {u1, u2}
  Tasks = {t1}
  Answers = {a1}
  Shutdowns = {d1, d2}
  Closers = {c1}
  Cap = 1
  Guarded = TRUE
  Marker = Marker
  Reader = Reader
  Casts = {{u1, u2}, {u1, d1, c1}, {u1, d1, d2}, {a1, d1}, {u1, t1}, {t1, a1}}
CONSTRAINTS OneCast Few
INVARIANTS
  MarkerIsLast
  GuardOrder
  CancelSparesDrain
  NilMeansFlushed
  EOFWaitsForTasks
PROPERTIES
  ImplementsOrderly
  EndersReturn
  StopFreesSenders
  EOFStops
