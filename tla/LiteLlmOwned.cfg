SPECIFICATION FairSpec
CONSTANTS
  r1 = r1
  r2 = r2
  r3 = r3
  c1 = c1
  c2 = c2
  n1 = n1
  n2 = n2
  None = None
  Requests <- MCRequests3
  Controllers <- MCOneOwner
  Instances <- MCTwoInstances
  RuntimeStatuses <- MCStatuses
  ShutdownCallers <- MCOneOwner
INVARIANT TypeOK
INVARIANT RuntimeOutlivesGeneration
INVARIANT AcceptedNotLost
INVARIANT BusyExact
INVARIANT QuietAfterShutdown
INVARIANT NoAbort
PROPERTY ShutdownReturns
PROPERTY ImplementsService
