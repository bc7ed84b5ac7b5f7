SPECIFICATION Spec
CONSTANTS
  Tolerance = 1
  RestartIdle = 3
  SeqModulus = 16
  NotFinite = NotFinite
  TimestampTypes = {""}
  SensorUptime = 2
  Reordering = 0
  MaxSent = 2
  MaxTime = 5
  MaxSteps = 0
  MaxBoots = 1
  MaxArrivals = 4
INVARIANTS
  RebootRecovers
CHECK_DEADLOCK FALSE
