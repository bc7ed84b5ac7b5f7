SPECIFICATION FairSpec
CONSTANTS
  Tolerance = 1
  NotFinite = NotFinite
  PublishTypes = {"both", "points", "raw"}
  MaxClouds = 4
  MaxTime = 4
INVARIANTS
  CloudsAccounted
  NoLostWakeup
  CallbackInsideLifetime
PROPERTIES
  RefinesLatestValue
  TeardownCompletes
