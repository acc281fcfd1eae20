CONSTANTS
  RecvSize = 24
  MaxHeader = 24
  WordSize = 32
  Responses <- SomeResponses
SPECIFICATION Spec
INVARIANTS
  TypeOK
  AssertionsHold
  BodyIsPayload
  NothingIsHeldBack
PROPERTIES
  LengthIsBodyLeft
  ImplementsBodyStream
