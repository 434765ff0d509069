\* One command, two connections, every kind of failure.
SPECIFICATION FairSpec
CONSTANTS
  m1 = m1
  c1 = c1
  c2 = c2
  None = None
  Commands = {m1}
  Conns = {c1, c2}
  Events = {"cut", "lost", "crash", "restart"}
  ChanCap = 1
  MaxBeats = 1
  MaxEvents = 1
INVARIANTS TypeOK AckTruthful
PROPERTIES OutcomeSticks PollingSettles LiveLinkDelivers
\* With the commands and the failures used up and a connection up, nothing is left to do.
CHECK_DEADLOCK FALSE
