SPECIFICATION MCSpec
CONSTANTS
  None = None
  Users = {u1, u2}
  SystemUsers = {u2}
  Tokens = {t1, t2, t3}
  Handlers = {h1, h2}
  Ops = {"login", "refresh", "logout", "logoutAll", "revokeSession"}
  Eras = {0, 1, 2}
INVARIANTS
  StrictRotation
SYMMETRY Symmetry
