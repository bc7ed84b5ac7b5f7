SPECIFICATION Spec
CONSTANTS
  Circle = 8
  MaxRate = 3
  Slack = 1
  Steps = {2}
  MinTurn = 2
  Blocks = 2
  Returns = {1, 2}
  MaxPoints = 18
  Lasers = {0, 1}
  StartAngles = {0, 1}
  PclTypes = {FALSE, TRUE}
  MaxLost = 1
  MaxPackets = 5
  MaxRestarts = 1
INVARIANTS
  FramesPure
  ScansExact
  FrameBounded
CHECK_DEADLOCK FALSE
