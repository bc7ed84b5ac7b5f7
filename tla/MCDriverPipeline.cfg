SPECIFICATION Spec
CONSTANTS
  Tolerance = 1
  RestartIdle = 3
  SeqModulus = 16
  NotFinite = NotFinite
  TimestampTypes = {"realtime", ""}
  SensorUptime = 0
  Reordering = 1
  MaxSent = 2
  MaxTime = 3
  MaxSteps = 2
  MaxBoots = 1
  MaxArrivals = 4
INVARIANTS
  CloudFilterRedundant
  ReorderingCostsNoCloud
CHECK_DEADLOCK FALSE
