\* Two organisations, three claims and unclaims, a failure anywhere: the Qube ends under its
\* owner's token.
SPECIFICATION FairSpec
CONSTANTS
  Orgs = {a, b}
  None = None
  Empty = Empty
  MaxClaims = 3
  MaxEdits = 2
  MaxUpdates = 1
  MaxCrashes = 1
INVARIANTS TypeOK
PROPERTIES Adopted ServicesSend
CHECK_DEADLOCK FALSE
