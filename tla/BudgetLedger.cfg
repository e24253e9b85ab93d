CONSTANTS
  Call = {c1, c2}
  Task = {t1, t2}
  Account = Account
  Reserved = 2
  AccountCap = 4
  TaskCap = 4
  CallCap = 2
  MaxN = 4
  Final <- Finals
  MaxReports = 2
  MaxGen = 2
  MaxReconciling = 1
  CoverageMayFail = TRUE
SPECIFICATION Spec
SYMMETRY Symmetry
CONSTRAINT Regimes
CHECK_DEADLOCK FALSE
INVARIANTS
  Conservation
  ActiveWithinCap
  UnresolvedFreezes
PROPERTY RevisedByDecision
