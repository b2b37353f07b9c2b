SPECIFICATION FairSpec
CONSTANTS
  o1 = o1
  o2 = o2
  o3 = o3
  o4 = o4
  r1 = r1
  r2 = r2
  Overrides = {o1, o2, o3, o4}
  NoOverride = NoOverride
  Requests = {r1, r2}
  Values = {TRUE}
  NotLifted = NotLifted
  Databases = {"postgresql", "sqlite"}
INVARIANTS
  TypeOK
  OnlyOverlappingActive
PROPERTIES
  IsKillSwitch
  RequestsEnd
CHECK_DEADLOCK FALSE
