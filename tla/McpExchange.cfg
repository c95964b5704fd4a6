SPECIFICATION FairExchange
CONSTANTS
  Ops = {o1, o2}
  Ids = {i1, i2}
  MaxRegs = 2
  Limits = {0, 1}
  MaxNotes = 1
  Cap = 1
  None = None
  MaxEvents = 1
CONSTRAINT FewEvents
INVARIANTS
  NotesReachTheirCall
  SlotsAreExact
  RemovalIsFinal
PROPERTIES
  RemovalEnds
