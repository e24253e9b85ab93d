CONSTANTS
  Op = {o1, o2}
  NoOp = NoOp
  MaxOperations = 1
  Reserved = 2
  Usage = {1, 3}
  MaxGeneration = 3
  MaxEpoch = 2
  MaxRollbacks = 1
SPECIFICATION Spec
SYMMETRY Symmetry
CHECK_DEADLOCK FALSE
INVARIANTS
  WriteOnce
  NoFork
  BarrierFences
  LiabilityFloor
