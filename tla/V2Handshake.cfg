SPECIFICATION FairSpec
CONSTANTS
  MaxEra = 3
  ClientSends = 2
  AgentSends = 1
INVARIANTS
  AgentWelcomes
  SameEra
  QuietAgree
PROPERTIES
  InitializeEnds
