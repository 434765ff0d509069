\* Two requests at once, both agent goroutines, every kind of event.
SPECIFICATION Spec
CONSTANTS
  r1 = r1
  r2 = r2
  NoHash = NoHash
  Torn = Torn
  Requests <- TwoRequests
  Threads = {"poll", "ws"}
  AdminOps = {"create_sensor"}
  Reverts = FALSE
  Events = {"net", "disk", "deploy", "crash", "wsdrop", "api", "reload"}
  MaxRequests = 2
  MaxEvents = 2
  InboxCap = 1
SYMMETRY Symmetry
INVARIANTS TypeOK DownloadCoversHash
