SPECIFICATION FairSpec
CONSTANTS
  r1 = r1
  r2 = r2
  r3 = r3
  None = None
  Requests <- MCRequests2
  Oversized <- MCOversized
  MaxSessions = 1
  MaxControls = 1
  InitialMs = 2
  MaxMs = 7
  MaxFailures = 2
  PeerMayStall = TRUE
  MayThrow = TRUE
  PeerMayErr = TRUE
PROPERTY StopTerminatesIfRead
PROPERTY LostSessionEnds
PROPERTY AnsweredOrClosed
