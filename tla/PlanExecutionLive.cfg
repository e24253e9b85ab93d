CONSTANTS
  Worker = {w1, w2}
  NoOwner = NoOwner
  MaxGeneration = 1
  MaxRetries = 2
  RequireApproval = FALSE
SPECIFICATION FairSpec
PROPERTY CallsEnd
