\* The defaults of the service: means of a minute, a run each minute over the last
\* five, in ticks of thirty seconds; any three failures.
SPECIFICATION Spec
CONSTANTS
  Points <- MCPoints
  Tables <- MCTables
  Maps <- MCMaps
  Normal <- MCNormal
  Exact <- MCExact
  Wildcard <- MCWildcard
  Device <- MCDevice
  NoSensor = ""
  Invalid = {"bad"}
  Poll = 2
  Lookback = 10
  BatchSize = 2
  MaxTime = 11
  MaxFails = 3
  MaxEdits = 1
INVARIANTS TypeOK Delivered MapFresh
CHECK_DEADLOCK FALSE
