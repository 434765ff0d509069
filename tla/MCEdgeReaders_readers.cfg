\* Each kind of reader beside core-switch; those with alerts and pollers with faults.
SPECIFICATION FairSpec
CONSTANTS
  None = None
  Senders = {"modbus", "snmp", "http", "opcua", "mqtt", "con"}
  Slots = 2
  Texts = {"cannot connect", "read error", "restored"}
  Mode <- AlertMode
  InfluxEnabled = TRUE
  LiveEnabled = TRUE
  AddrSpace = 16
  SingleReadCount = 2
  ReadLimit = 4
  Steady = {"s3", "h2"}
  Topics <- AllTopics
  DollarLevels = {"$SYS"}
  Fleets <- AllFleets
INVARIANTS TypeOK ValuesWhole BlocksFit FiredExactly LockSound
PROPERTIES DownIsHeard SteadySensorsReported
