\* The ping-pong widgets, one of them beside the batch transactions.
CONSTANTS
  Duration = 2
  MaxQueries = 2
  MaxClicks = 3
  Beside <- MCBeside
  MaxBeside = 2
CHECK_DEADLOCK FALSE
SPECIFICATION DashboardSpec
INVARIANTS
  PongNotEarly
PROPERTIES
  PongOffered
  SentAsAsked
  BatchSent
