SPECIFICATION Spec
CONSTANTS
  Sensors <- DocumentedSensors
  HeaderCounts <- MCHeaderCounts
  MaxWord = 15
  Step = 3
  MaxPoints = 17
INVARIANTS
  ReadsInside
  ParsedAsSent
  FieldsWhereExpected
  BlocksInFiringOrder
  MessageConsistent
CHECK_DEADLOCK FALSE
