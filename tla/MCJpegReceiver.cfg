CONSTANTS
  HeaderSize = 2
  FooterSize = 1
  BufferSize = 10
  RecvSize = 5
  WordSize = 16
  CallerSize = 3
  Streams <- SomeStreams
SPECIFICATION Spec
INVARIANTS
  TypeOK
  LatestIsAnImage
  FirstImageIsOffered
  OnlyOversizedImagesEnd
  NewestIsOffered
PROPERTIES
  ImagesAdvance
  ExecutesSegments
