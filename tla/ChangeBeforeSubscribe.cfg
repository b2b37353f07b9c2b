SPECIFICATION FairSpec
CONSTANTS
  s1 = s1
  s2 = s2
  w1 = w1
  w2 = w2
  Streams = {s1}
  Writers = {w1}
  WriteKinds <- SignalAfterCommit
  Redis = "reliable"
  MaxWrites = 2
PROPERTIES
  CatchesUp
CHECK_DEADLOCK FALSE
