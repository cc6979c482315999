SPECIFICATION FairSpec
CONSTANTS
  r1 = r1
  r2 = r2
  r3 = r3
  None = None
  Requests <- MCRequests2
  Oversized <- MCOversized
  MaxSessions = 1
  MaxControls = 0
  InitialMs = 2
  MaxMs = 7
  MaxFailures = 2
  PeerMayStall = FALSE
  MayThrow = FALSE
  PeerMayErr = FALSE
PROPERTY AnsweredUnlessPeerLeaves
