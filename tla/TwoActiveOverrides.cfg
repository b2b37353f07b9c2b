SPECIFICATION Spec
CONSTANTS
  o1 = o1
  o2 = o2
  o3 = o3
  o4 = o4
  r1 = r1
  r2 = r2
  Overrides = {o1, o2}
  NoOverride = NoOverride
  Requests = {r1, r2}
  Values = {TRUE, FALSE}
  NotLifted = NotLifted
  Databases = {"postgresql"}
INVARIANTS
  OneActive
CHECK_DEADLOCK FALSE
