SPECIFICATION Spec
CONSTANTS
  Sessions = {s1, s2, s3}
  Attempts = {r1, r2}
  Live = Live
  None = None
SYMMETRY Symmetry
INVARIANTS
  Forest
  ControlsWait
  HistoryIsHidden
  FailureErases
