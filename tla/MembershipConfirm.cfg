SPECIFICATION MCSpec
CONSTANTS
  None = None
  Users = {u1, u2, u3}
  Founder = u1
  Staff = {u2, u3}
  u1 = u1
  u2 = u2
  u3 = u3
  Handlers = {h1, h2}
  Ops = {"initiate", "acceptTransfer", "confirm"}
PROPERTIES
  OwnerConfirms
SYMMETRY Symmetry
