\* One process may crash; clients connect after Create.
CONSTANTS
  c1 = c1
  c2 = c2
  Clients <- MCClients
  Server = Server
  NoOwner = NoOwner
  MaxCaptures = 2
  MaxServerStarts = 1
  MaxCrashes = 1
  Crashable <- MCProcs
  NoClientLimit = 1
  ConnectDuringCreate = FALSE
  CountFloor <- MCCountFloor

SPECIFICATION Spec
SYMMETRY ClientSymmetry
INVARIANT ClientCountCoversAttached
\* After the last launch of the service stops, clients can only poll.
CHECK_DEADLOCK FALSE
