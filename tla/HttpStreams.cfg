SPECIFICATION Spec
CONSTANTS
  Sessions = {s1, s2}
  Conn = Conn
  Reqs = {1}
  Initialize = Initialize
  Gets = {1, 2}
  MaxUnconfirmed = 1
  MaxBoxes = 3
  MaxNotes = 1
  None = None
  MaxEvents = 3
CONSTRAINTS
  FewEvents
  InOrder
INVARIANTS
  WakeupsAreKept
  StreamsAreHeld
  FinalSend
  InitializeIsSettled
SYMMETRY Symmetry
