SPECIFICATION MCSpec
CONSTANTS
  k1 = k1
  k2 = k2
  Rules = {k1, k2}
  Variants = {1, 2}
  Whole = 2
  Percentages = {1, 2}
  Weights <- SomeWeights
  Priorities = {1, 2}
  Conditions <- SomeConditions
  FlagTypes = {"MULTIVARIATE"}
  Forces = {TRUE}
  MaxConditions = 2
  Values = {1}
  Missing = Missing
  NoUser = NoUser
  NoVariant = NoVariant
  NoPercentage = NoPercentage
  NotForced = NotForced
SYMMETRY Symmetry
INVARIANTS
  TypeOK
  SdkAgrees
PROPERTIES
  RaisingOnlyAdds
  EarlierRulesShield
CHECK_DEADLOCK FALSE
