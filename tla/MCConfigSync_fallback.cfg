\* One request at a time; the agent polls over HTTP; network, disk, the API and crashes
\* fail it.
SPECIFICATION FairSpec
CONSTANTS
  r1 = r1
  r2 = r2
  NoHash = NoHash
  Torn = Torn
  Requests <- OneRequest
  Threads = {"poll"}
  AdminOps <- AllOps
  Reverts = FALSE
  Events = {"net", "disk", "crash", "api"}
  MaxRequests = 2
  MaxEvents = 2
  InboxCap = 1
INVARIANTS HashNeverAhead QuietHashExact
PROPERTIES NoRollback Converges
