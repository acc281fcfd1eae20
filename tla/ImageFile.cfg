CONSTANTS
  Cameras = {c1, c2}
  Sizes = {1, 2}
  MaxImages = 3
  Readers = {r1}
SPECIFICATION Spec
INVARIANTS
  TypeOK
  TableIsReadable
  FileIsTable
  OnlyFailuresLeak
  ReadersGetOneImage
PROPERTIES
  WholeImagesStay
  ImplementsStore
