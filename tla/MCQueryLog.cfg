SPECIFICATION QueryLogSpec
CONSTANTS
  Events <- MCEvents
  Capacity = 2
  BufferSize = 2
INVARIANTS
  QueryLogTypeOK
  EveryEventAccounted
PROPERTIES
  ImplementsLossyLog
  EventsSettle
CHECK_DEADLOCK FALSE
