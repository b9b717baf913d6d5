SPECIFICATION MCSpec
CONSTANTS
  None = None
  Handlers = {h1, h2}
  Purposes = {"login", "verify_email"}
  Period = 1
  Expiry = 2
  MaxAttempts = 2
  LockTime = 2
  Window = 2
  SendLimit = 1
  MaxTime = 3
INVARIANTS
  OwnPurpose
  LockAfterFailuresSerially
  OnceSerially
PROPERTIES
  CodesExpire
  LockHoldsSerially
SYMMETRY Symmetry
