SPECIFICATION Spec
CONSTANTS
  p1 = p1
  p2 = p2
  p3 = p3
  t1 = t1
  c1 = c1
  c2 = c2
  c3 = c3
  Procs = {p1, p2, p3}
  Topics = {t1}
  Conns = {c1, c2, c3}
  MaxConns = 2
  MaxSubs = 2
  MaxOps = 3
  Leavers = {}
  None = None
SYMMETRY Symmetry
INVARIANTS
  TypeOK
  CountExact
  SessionExact
CHECK_DEADLOCK FALSE
