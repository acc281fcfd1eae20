CONSTANTS
  numCameras = 2
  MAX_NUM_CAMERAS = 8
  MAX_PENDING_REQUESTS = 1
  Clients = {c1, c2}
  Requests <- SomeRequests
SPECIFICATION Spec
INVARIANTS
  PendingFitsTable
