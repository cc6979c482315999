SPECIFICATION Spec
CONSTANTS
  r1 = r1
  r2 = r2
  r3 = r3
  c1 = c1
  c2 = c2
  n1 = n1
  n2 = n2
  None = None
  Requests <- MCRequests2
  Controllers <- MCOneOwner
  Instances <- MCOneInstance
  RuntimeStatuses <- MCStatuses
  ShutdownCallers <- MCOneInstance
INVARIANT AcceptedNotLost
CHECK_DEADLOCK FALSE
