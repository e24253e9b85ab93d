SPECIFICATION Spec
CONSTANTS
  Manifest = {1, 2}
  Intent = {1, 2}
  Number = {1, 2}
  Dispatcher = {d1, d2}
  Expected = "denied"
  ManifestLife = 2
  IntentLife = 2
  HealthLife = 2
  PairWindow = 1
  ResponseLife = 2
  MaxTime = 2
  MaxSetBack = 1
  MaxFacts = 1
  MaxDecisions = 2
  MaxTrouble = 1
SYMMETRY Symmetry
INVARIANT
  OneRequestPerSlot
PROPERTIES
  SentUnderTerms
  EndingIsFinal
  PairIsEvidence
CHECK_DEADLOCK FALSE
