\* One request at a time, no failure: only the agent's two goroutines race.
SPECIFICATION FairSpec
CONSTANTS
  r1 = r1
  r2 = r2
  NoHash = NoHash
  Torn = Torn
  Requests <- OneRequest
  Threads = {"poll", "ws"}
  AdminOps = {"update_reader"}
  Reverts = FALSE
  Events = {}
  MaxRequests = 2
  MaxEvents = 0
  InboxCap = 1
PROPERTIES Converges
