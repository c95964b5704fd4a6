SPECIFICATION Exchange
CONSTANTS
  Sessions = {s1}
  Conn = Conn
  Reqs = {1, 2, 3}
  Initialize = Initialize
  Gets = {s1, Conn}
  MaxUnconfirmed = 1
  MaxBoxes = 2
  MaxNotes = 1
  None = None
CONSTRAINT InStory
INVARIANT LoadIsHeard
