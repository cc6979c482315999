SPECIFICATION FairSpec
CONSTANTS
  PollInterval = 2
  HandshakeTimeout = 3
  CommandLines <- MCCommandLines
  ProxyPort <- MCProxyPort
  ProxyToken <- MCProxyToken
  Scripts <- MCScripts
INVARIANTS
  TypeOK
  AcceptedAsWritten
  HelloFits
  FramesFaithful
  DeadlineHolds
  HandledIfPassed
PROPERTIES
  SignalEndsIfRead
