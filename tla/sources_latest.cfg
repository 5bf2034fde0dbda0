\* Two Media Foundation sources reading from one launch of the service.
CONSTANTS
  c1 = c1
  c2 = c2
  Clients <- MCClients
  MFClients <- MCClients
  DSClients <- MCNone
  Server = Server
  NoOwner = NoOwner
  MaxCaptures = 2
  MaxServerStarts = 1
  MaxCrashes = 0
  Crashable = {}
  NoClientLimit = 1
  ConnectDuringCreate = FALSE
  CountFloor <- MCCountFloor
  MaxAttempts = 2
  LockTimeouts = FALSE
  ActivationEnds = FALSE

SPECIFICATION AdaptersSpec
PROPERTY LatestFrameReachesSources

\* After the last launch of the service stops, the adapters can only poll.
CHECK_DEADLOCK FALSE
