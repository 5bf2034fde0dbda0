\* A TestClient, a FastTest and a SharedMemoryTest against one launch of
\* the capture service that captures two frames and may crash once (also inside
\* WriteFrame, abandoning the mutex); mutex waits may time out.
CONSTANTS
  c1 = c1  c2 = c2  c3 = c3
  Clients <- MCClients
  TCClients <- MCTestClient
  FTClients <- MCFastTest
  SMTClients <- MCSharedMemoryTest
  Server = Server  NoOwner = NoOwner  MagicVersion = MagicVersion
  MaxCaptures = 2  MaxServerStarts = 1  MaxCrashes = 1  Crashable = {Server}
  NoClientLimit = 1  ConnectDuringCreate = FALSE  CountFloor <- MCCountFloor
  TestFrames = 2  LockTimeouts = TRUE
SPECIFICATION TestSpec
INVARIANT TestClientsTypeOK
INVARIANT TestClientsCounted
INVARIANT TestMutexReleasedAfterRead
PROPERTY TestClientStartsCamera
\* Every program may exit and the service may stop for good.
CHECK_DEADLOCK FALSE
