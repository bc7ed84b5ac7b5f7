SPECIFICATION Spec
CONSTANTS
  MaxDatagrams = 2
  MaxWaiting = 3
  SocketNumbers = {0, 1, 2, 3}
  Gap = 2
  Captures <- MCCaptures
  Counts <- MCCounts
  MaxStarts = 2
  MaxDelay = 2
  MaxInterrupts = 1
  Tolerance = 1
  RestartIdle = 3
  SeqModulus = 16
  NotFinite = NotFinite
  Bags <- MCBags
  ScanSize = 2
  SubscriptionDepth = 2
  MaxBacklog = 3
INVARIANTS
  LidarPushedInOrder
  NoDrift
  NeverEarly
  EchoNotDecoded
PROPERTIES
  LidarServed
  ReplayStops
  EchoDiesOut
