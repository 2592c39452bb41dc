SPECIFICATION FairSpec
CONSTANTS
  p1 = p1
  p2 = p2
  t1 = t1
  c1 = c1
  c2 = c2
  Procs = {p1, p2}
  Topics = {t1}
  Conns = {c1, c2}
  MaxConns = 1
  MaxSubs = 2
  MaxOps = 3
  Leavers = {p1}
  None = None
PROPERTIES
  InterestFollows
CHECK_DEADLOCK FALSE
