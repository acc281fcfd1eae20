CONSTANTS
  numCameras = 2
  MAX_NUM_CAMERAS = 8
  MAX_PENDING_REQUESTS = 2
  Clients = {c1, c2, c3}
  Requests <- WaitingRequests
SYMMETRY ClientSymmetry
SPECIFICATION Spec
INVARIANTS
  TypeOK
  AtMostOneConnection
  CameraEventsAreCurrent
  EntryBelongsToOneCamera
  WaitersAreInTheTable
  RepliesAreFresh
