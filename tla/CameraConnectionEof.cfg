CONSTANTS
  outputLength = 3
  SendRoom = 2
  MaxInbox = 2
SPECIFICATION Spec
INVARIANTS
  ReceivedImageIsDelivered
