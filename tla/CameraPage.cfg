\* Both pages, two cameras, four calls of getUserMedia.
CONSTANTS
  Pages = {"1", "s1"}
  Device = {d1, d2}
  NoDevice = NoDevice
  Sizes = {0, 2}
  Requested = 2
  MaxAsked = 4
SPECIFICATION FairCameraSpec
INVARIANTS OneStart CamerasLeftOn
PROPERTIES ScanningStarts
CHECK_DEADLOCK FALSE
