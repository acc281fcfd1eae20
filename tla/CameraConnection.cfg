CONSTANTS
  outputLength = 3
  SendRoom = 2
  MaxInbox = 2
SPECIFICATION FairSpec
INVARIANTS
  TypeOK
  NoLostEdge
PROPERTIES
  ImplementsLink
  ConnectionsEnd
