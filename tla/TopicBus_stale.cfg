SPECIFICATION Spec
CONSTANTS
  s1 = s1
  s2 = s2
  s3 = s3
  t1 = t1
  t2 = t2
  r1 = r1
  r2 = r2
  Services = {s1, s2}
  Publishers = {s1}
  Watchers = {s2}
  Mortals = {s2}
  Topics = {t1, t2}
  Masks = {0}
  Refs = {r1, r2}
  MaxPosts = 4
  Nobody = Nobody
SYMMETRY Slots
PROPERTY HandlerOfTopic
CHECK_DEADLOCK FALSE
