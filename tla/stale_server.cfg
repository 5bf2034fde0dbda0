\* A Media Foundation source and a DirectShow pin that outlive the one
\* launch of the service, which may stop or crash.
CONSTANTS
  c1 = c1
  c2 = c2
  Clients <- MCClients
  MFClients <- MCOneSource
  DSClients <- MCOnePin
  Server = Server
  NoOwner = NoOwner
  MaxCaptures = 2
  MaxServerStarts = 1
  MaxCrashes = 1
  Crashable = {Server}
  NoClientLimit = 1
  ConnectDuringCreate = FALSE
  CountFloor <- MCCountFloor
  MaxAttempts = 2
  LockTimeouts = FALSE
  ActivationEnds = FALSE

SPECIFICATION AdaptersSpec
PROPERTY StaleServerReleased

\* After the last launch of the service stops, the adapters can only poll.
CHECK_DEADLOCK FALSE
