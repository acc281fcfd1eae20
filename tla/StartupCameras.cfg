CONSTANT MAX_NUM_CAMERAS = 3
SPECIFICATION Spec
INVARIANTS
  ActiveCameraExists
