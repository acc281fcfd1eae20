CONSTANTS
  numCameras = 2
  MAX_NUM_CAMERAS = 8
  MAX_PENDING_REQUESTS = 1
  Clients = {c1}
  Requests <- SomeRequests
SPECIFICATION FairSpec
INVARIANTS
  RepliesAreFresh
  PendingFitsTable
PROPERTIES
  ImplementsPollCycle
  SignalStopsAdapter
  EveryCameraGetsItsTurn
  WaitersAreServed
