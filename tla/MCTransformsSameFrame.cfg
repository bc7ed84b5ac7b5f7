SPECIFICATION TransformSpec
CONSTANTS
  Frames <- MCFrames
  Settings <- AllSettings
  MaxPackets = 4
  MaxStarts = 2
INVARIANTS
  SensorTargetNeedsNoTransform
CHECK_DEADLOCK FALSE
