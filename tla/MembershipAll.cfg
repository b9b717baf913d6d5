SPECIFICATION MCSpec
CONSTANTS
  None = None
  Users = {u1, u2}
  Founder = u1
  Staff = {u2}
  u1 = u1
  u2 = u2
  Handlers = {h1, h2}
  Ops = {"invite", "resend", "cancel", "expire", "acceptInvite", "role", "template", "permissions", "suspend", "activate", "remove", "initiate", "acceptTransfer", "confirm"}
INVARIANTS
  OwnerSeatedUntorn
  OwnerAgreed
PROPERTIES
  OwnerConfirmsSerially
  ActiveStaysJoinedSerially
SYMMETRY Symmetry
