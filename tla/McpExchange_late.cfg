SPECIFICATION Exchange
CONSTANTS
  Ops = {o1, o2}
  Ids = {i1, i2}
  MaxRegs = 1
  Limits = {0}
  MaxNotes = 1
  Cap = 1
  None = None
  MaxEvents = 2
CONSTRAINT FewEvents
SYMMETRY Symmetry
INVARIANTS
  LateNotesDropped
