SPECIFICATION Spec
CONSTANTS
  Number = {n1, n2}
  health = health
  baseline = baseline
  i1 = i1
  i2 = i2
  Plan = {health, baseline}
  Intent = {i1, i2}
  IntentOf <- IntentOfPlan
  Needs <- NeedsOf
  End <- EndOf
  Limits = {1, 2}
  Cap = 2
  Operator = {o1, o2}
  MaxTasks = 2
  MaxVersions = 2
  MaxEvents = 4
  MaxTime = 2
  MaxSetBack = 1
  MaxTrouble = 1
SYMMETRY Symmetry
CONSTRAINT Bound
INVARIANTS
  LiabilityCovered
PROPERTIES
  WithdrawnStays
  ExpiryStays
CHECK_DEADLOCK FALSE
