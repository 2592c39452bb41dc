SPECIFICATION FairSpec
CONSTANTS
  s1 = s1
  s2 = s2
  f = f
  g = g
  v = v
  r1 = r1
  r2 = r2
  Services = {s1, s2}
  Names = {f, g}
  Provides <- OneProvides
  Calls <- OneCall
  Cancellers = {s2}
  Mortals = {}
  Refs = {r1}
  Values <- Nothing
  MaxCalls = 1
  None = None
PROPERTY CallReturns
CHECK_DEADLOCK FALSE
