\* The service is launched twice; clients may stay attached across.
CONSTANTS
  c1 = c1
  c2 = c2
  Clients <- MCClients
  Server = Server
  NoOwner = NoOwner
  MaxCaptures = 2
  MaxServerStarts = 2
  MaxCrashes = 0
  Crashable = {}
  NoClientLimit = 1
  ConnectDuringCreate = FALSE
  CountFloor <- MCCountFloor

SPECIFICATION Spec
SYMMETRY ClientSymmetry
INVARIANT ClientCountCoversAttached
\* After the last launch of the service stops, clients can only poll.
CHECK_DEADLOCK FALSE
