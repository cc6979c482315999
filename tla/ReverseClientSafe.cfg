SPECIFICATION Spec
CONSTANTS
  r1 = r1
  r2 = r2
  r3 = r3
  None = None
  Requests <- MCRequests2
  Oversized <- MCOversized
  MaxSessions = 2
  MaxControls = 1
  InitialMs = 2
  MaxMs = 7
  MaxFailures = 2
  PeerMayStall = TRUE
  MayThrow = TRUE
  PeerMayErr = TRUE
INVARIANT TypeOK
INVARIANT SocketOutlivesCallbacks
INVARIANT FramesWhole
INVARIANT AnsweredWhereAsked
INVARIANT PendingExact
INVARIANT BoundedBackoff
