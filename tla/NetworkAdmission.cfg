CONSTANTS
  Call = {c1, c2}
  Target = {t1}
  Slots = 2
  Free = Free
  Orphan = Orphan
SPECIFICATION FairSpec
INVARIANTS
  SwitchStops
  LimitHolds
PROPERTIES
  StopDrains
  SlotsReturn
