SPECIFICATION MCSpec
CONSTANTS
  k1 = k1  p1 = p1  p2 = p2
  superUser = superUser support = support
  finance = finance agent = agent
  System = System
  None = None
  Users <- MCUsers
  Roles <- MCRoles
  Keys <- MCKeys
  InitialPolicy <- MCInitialPolicy
  InitialRole <- MCInitialRole
  ApprovalIds = {x1}
  Lifetime = 1
  MaxTime = 2
  Jobs <- TwoJobs
  Businesses = {b1}
  Admins = {}
  Staff = {u1, u2}
  SystemRoles = {superUser, support}
  BusinessRoles = {finance, agent}
  Handlers = {h1, h2}
  Ops = {"execute", "approve", "reject", "configure"}
INVARIANTS
  AtMostOnce
SYMMETRY Symmetry
