CONSTANTS
  HeaderSize = 2
  FooterSize = 1
  BufferSize = 10
  RecvSize = 5
  WordSize = 16
  CallerSize = 3
  Streams <- BriefStreams
SPECIFICATION Spec
INVARIANTS
  MostRecentIsOffered
