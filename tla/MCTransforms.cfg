SPECIFICATION TransformSpec
CONSTANTS
  Frames <- MCFrames
  Settings <- AllSettings
  MaxPackets = 4
  MaxStarts = 2
INVARIANTS
  PointsInFrameId
  PointsCompensated
CHECK_DEADLOCK FALSE
