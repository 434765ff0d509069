\* One command, one connection that stays up, no failure.
SPECIFICATION FairSpec
CONSTANTS
  m1 = m1
  c1 = c1
  c2 = c2
  None = None
  Commands = {m1}
  Conns = {c1}
  Events = {}
  ChanCap = 1
  MaxBeats = 0
  MaxEvents = 0
PROPERTIES EveryCommandSettles
\* With the commands and the failures used up and a connection up, nothing is left to do.
CHECK_DEADLOCK FALSE
