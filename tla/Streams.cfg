SPECIFICATION FairSpec
CONSTANTS
  s1 = s1
  s2 = s2
  w1 = w1
  w2 = w2
  Streams = {s1}
  Writers = {w1, w2}
  WriteKinds <- AllKinds
  Redis = "unreliable"
  MaxWrites = 4
INVARIANTS
  TypeOK
  NoLostWakeup
PROPERTIES
  ReachesSubscribers
  PollersCatchUp
CHECK_DEADLOCK FALSE
