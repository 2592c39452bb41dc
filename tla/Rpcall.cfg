SPECIFICATION FairSpec
CONSTANTS
  s1 = s1
  s2 = s2
  f = f
  g = g
  v = v
  r1 = r1
  r2 = r2
  Services = {s1, s2}
  Names = {f, g}
  Provides <- Owners
  Calls <- Both
  Cancellers = {s1, s2}
  Mortals = {s2}
  Refs = {r1, r2}
  Values <- Nothing
  MaxCalls = 3
  None = None
INVARIANTS
  TypeOK
  SlotsIntact
  AnswersItsCaller
PROPERTY CallEnds
CHECK_DEADLOCK FALSE
