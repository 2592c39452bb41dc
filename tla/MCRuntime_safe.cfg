SPECIFICATION MCSpec
CONSTANTS
  Services = {s1, s2, s3}
  Publishers = {s2, s3}
  Watchers = {s1}
  Mortals = {s3}
  Topics = {t1}
  Masks = {0, 1, 2}
  Refs = {r1, r2}
  MaxPosts = 4
  Nobody = Nobody
  p1 = p1
  OtherProcs = {p2, p3}
  None = None
  MaxId = 3
  Owners <- Conns
  Base = 4
  Procs <- RouteProcs
  Proxy = 1
  Subscribers <- RouteServices
  Senders <- Sender
  SendMasks = {0, 1}
  MaxConns = 4
  MaxEach = 2
  MaxPublishes = 1
  MaxSends = 3
SYMMETRY Alike
INVARIANTS
  TypesOK
  ListedOnce
  LockOrder
  MasksSpread
  ViewExact
  RefsOwned
  SteadyTargets
  RepliesReturn
  DeliveredOnce
  IdsDiffer
CHECK_DEADLOCK FALSE
