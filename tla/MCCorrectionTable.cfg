SPECIFICATION Spec
CONSTANTS
  Lasers = 2
  ArrayLen = 3
  Contents <- CompleteContents
  MaxLoads = 2
INVARIANTS
  ReadsInVector
PROPERTIES
  QuietReadsUntorn
