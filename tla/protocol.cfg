\* One launch of the service, no crashes, clients connect once the header
\* is initialised: the protocol as intended.
CONSTANTS
  c1 = c1
  c2 = c2
  Clients <- MCClients
  Server = Server
  NoOwner = NoOwner
  MaxCaptures = 2
  MaxServerStarts = 1
  MaxCrashes = 0
  Crashable = {}
  NoClientLimit = 1
  ConnectDuringCreate = FALSE
  CountFloor <- MCCountFloor

SPECIFICATION Spec
INVARIANT TypeOK
INVARIANT FrameIntegrity
INVARIANT ClientCountAccurate
INVARIANT LockHeldOnlyInCriticalSection
PROPERTY ReadsOnlyNewer
PROPERTY CameraFollowsClients
PROPERTY CameraReleasedWhenIdle
PROPERTY NewFramesReachReaders
PROPERTY RefinesLatestFrameSlot
\* After the last launch of the service stops, clients can only poll.
CHECK_DEADLOCK FALSE
