\* A Media Foundation source and a DirectShow pin reading from one launch of
\* the service, one capture, no crashes; a 100 ms mutex wait may time out.
\* Only the pin's streaming thread is assumed fair.
CONSTANTS
  c1 = c1
  c2 = c2
  Clients <- MCClients
  MFClients <- MCOneSource
  DSClients <- MCOnePin
  Server = Server
  NoOwner = NoOwner
  MaxCaptures = 1
  MaxServerStarts = 1
  MaxCrashes = 0
  Crashable = {}
  NoClientLimit = 1
  ConnectDuringCreate = FALSE
  CountFloor <- MCCountFloor
  MaxAttempts = 2
  LockTimeouts = TRUE
  ActivationEnds = TRUE

SPECIFICATION PinOnlySpec
INVARIANT AdaptersTypeOK
INVARIANT ThreadUsesOpenClient
INVARIANT ShutdownReleasesChannel
PROPERTY SamplesOnlyWhileStarted
PROPERTY PinFillReturns

\* After the last launch of the service stops, the adapters can only poll.
CHECK_DEADLOCK FALSE
