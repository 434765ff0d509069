\* The pointer into the list is read after the lock is released.
SPECIFICATION Spec
CONSTANTS
  w1 = w1
  w2 = w2
  w3 = w3
  w4 = w4
  k1 = k1
  k2 = k2
  None = None
  Keys = {k1, k2}
  Writers <- Four
  Key <- FourKey
  Size <- FourSize
  MaxBuffered = 4
  MaxBatch = 3
  Replies = {"ok", "rejected"}
  MaxFails = 1
INVARIANTS HandleValid
\* The writers are done and run sleeps: the system stops.
CHECK_DEADLOCK FALSE
