SPECIFICATION FairSpec
CONSTANTS
  StorageCapacity = 3
  MaxDepth = 2
  MaxPackets = 5
INVARIANTS
  NoSlotRace
  PacketsAccounted
PROPERTIES
  RefinesFifo
  StopCompletes
  BacklogServed
