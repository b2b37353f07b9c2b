SPECIFICATION MCSpec
CONSTANTS
  f1 = f1
  f2 = f2
  v1 = v1
  v2 = v2
  v3 = v3
  k1 = k1
  r1 = r1
  r2 = r2
  Flags = {f1, f2}
  Variants = {v1, v2, v3}
  NoVariant = NoVariant
  New = New
  Rules = {k1}
  NoRule = NoRule
  Shares <- Weights
  Whole = 1
  Parts = 2
  Submissions <- ShortSets
  Requests = {r1, r2}
  Operations <- AllOperations
SYMMETRY Symmetry
INVARIANTS
  TypeOK
  RolloutsKept
  OneControl
PROPERTIES
  WrittenWhole
  LastVariantStays
CHECK_DEADLOCK FALSE
