SPECIFICATION Spec
CONSTANTS
  p1 = p1
  p2 = p2
  t1 = t1
  c1 = c1
  c2 = c2
  c3 = c3
  Procs = {p1, p2}
  Topics = {t1}
  Conns = {c1, c2, c3}
  MaxConns = 2
  MaxSubs = 1
  MaxOps = 2
  Leavers = {p1}
  None = None
INVARIANT NobodyElse
CHECK_DEADLOCK FALSE
