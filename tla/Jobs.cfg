SPECIFICATION FairSpec
CONSTANTS
  s0 = s0
  s1 = s1
  s2 = s2
  Services = {s0, s1, s2}
  Root = s0
  Callers = {s1, s2}
  Quitters = {s0, s1}
  MaxCalls = 2
  None = None
INVARIANTS
  TypeOK
  JobOutlivesThread
  StopIsGraceful
  StuckHasCause
PROPERTIES
  BlockEnds
  ProcessEnds
CHECK_DEADLOCK FALSE
