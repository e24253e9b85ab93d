CONSTANTS
  Worker = {w1, w2}
  NoOwner = NoOwner
  MaxGeneration = 2
  MaxRetries = 2
  RequireApproval = TRUE
SPECIFICATION Spec
SYMMETRY Symmetry
INVARIANTS
  AtMostOneRequest
  CancelledNeverSent
  ResultTrue
  AuditTrue
PROPERTIES
  ImplementsLifecycle
