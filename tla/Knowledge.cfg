SPECIFICATION MCSpec
CONSTANTS
  c1 = c1
  c2 = c2
  t1 = t1
  t2 = t2
  r1 = r1
  m1 = m1
  m2 = m2
  Ctx = {c1, c2}
  Target = {t1, t2}
  Ref = {r1}
  Material = {m1, m2}
  BatchOf <- Batch
  EntriesOf <- Entries
  Retention = 1
  MaxWindow = 3
  Keep = 2
  Grace = 1
  MaxIds = 2
  MaxCorrections = 1
  MaxTime = 5
  MaxTrouble = 1
  MaxVersions = 2
  MaxDecisions = 5
  MaxValidations = 1
  MaxFeedback = 1
  MaxSubjects = 2
  Spans = {1}
  ActorSets <- Cards
  Identity = {"anonymous", "bearer"}
CONSTRAINT Bound
INVARIANTS
  NoStalePending
PROPERTIES
  ServedIsLive
  TombstoneKept
  MatchOnEvidence
CHECK_DEADLOCK FALSE
