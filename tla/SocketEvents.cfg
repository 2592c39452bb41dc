SPECIFICATION FairSpec
CONSTANTS
  k1 = k1
  k2 = k2
  a1 = a1
  r1 = r1
  r2 = r2
  Streams = {k1, k2}
  Acceptors = {a1}
  Refs = {r1, r2}
  MaxCloses = 1
  MaxSends = 1
  None = None
CONSTRAINT OnTime
INVARIANTS
  TypeOK
  SlotsOwned
  SlotsReturned
PROPERTIES
  ClosedTold
CHECK_DEADLOCK FALSE
