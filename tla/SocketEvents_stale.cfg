SPECIFICATION Spec
CONSTANTS
  k1 = k1
  k2 = k2
  r1 = r1
  r2 = r2
  Streams = {k1, k2}
  Acceptors = {}
  Refs = {r1, r2}
  MaxCloses = 1
  MaxSends = 1
  None = None
INVARIANT OwnHandler
CHECK_DEADLOCK FALSE
