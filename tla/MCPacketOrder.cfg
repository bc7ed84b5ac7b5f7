SPECIFICATION Spec
CONSTANTS
  Tolerance = 1
  RestartIdle = 3
  SeqModulus = 16
  NotFinite = NotFinite
  Reordering = 1
  Bases = {14}
  MaxSent = 3
  MaxTime = 4
  MaxSteps = 2
  MaxBoots = 1
  MaxArrivals = 4
INVARIANTS
  DecodedInOrder
  GapsExact
  StampsNearMonotone
PROPERTIES
  StaleOnlyAfterSilence
  SilenceEndsRejection
CHECK_DEADLOCK FALSE
