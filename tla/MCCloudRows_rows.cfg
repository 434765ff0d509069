\* Three requests over two connections, on an empty Qube or one with a reader,
\* two sensors and a mapping.
SPECIFICATION FairSpec
CONSTANTS
  NRequests = 3
  MaxSmall = 1
  PoolSize = 2
  MultiTarget = {"snmp"}
  Rows <- MCRows
  GivenReader <- MCGivenReader
  Changes <- MCChanges
  None = None
\* The requests are bounded, so the system stops.
CHECK_DEADLOCK FALSE
INVARIANTS RowsSound
PROPERTIES SensorKept Answered
