\* Four writes, a queue that cannot hold them all, a backend that fails twice.
SPECIFICATION FairSpec
CONSTANTS
  w1 = w1
  w2 = w2
  w3 = w3
  w4 = w4
  k1 = k1
  k2 = k2
  None = None
  Keys = {k1, k2}
  Writers <- Four
  Key <- FourKey
  Size <- FourSize
  MaxBuffered = 5
  MaxBatch = 3
  Replies = {"ok"}
  MaxFails = 2
INVARIANTS TypeOK QueueSound BytesNotReused AckedIsStored
PROPERTIES EveryWriteAnswered KeyedQueue
\* The writers are done and run sleeps: the system stops.
CHECK_DEADLOCK FALSE
