\* Connects may overlap Create, and one client process may crash.
CONSTANTS
  c1 = c1
  c2 = c2
  Clients <- MCClients
  Server = Server
  NoOwner = NoOwner
  MaxCaptures = 2
  MaxServerStarts = 1
  MaxCrashes = 1
  Crashable <- MCClients
  NoClientLimit = 1
  ConnectDuringCreate = TRUE
  CountFloor <- MCCountFloor

SPECIFICATION Spec
SYMMETRY ClientSymmetry
INVARIANT FrameIntegrity
PROPERTY ReadsOnlyNewer
\* After the last launch of the service stops, clients can only poll.
CHECK_DEADLOCK FALSE
