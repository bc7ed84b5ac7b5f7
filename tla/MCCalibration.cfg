SPECIFICATION AnsweringSpec
CONSTANTS
  Modes = {"live", "pcap", "rosbag"}
  MaxStarts = 3
INVARIANTS
  ThreadInsideLifetime
  SensorTableKept
PROPERTIES
  StopReturns
  TableArrives
