SPECIFICATION MCSpec
CONSTANTS
  None = None
  Handlers = {h1, h2}
  Applicants = {u1, u2}
  Required = {d1, d2}
  StaffOps = {"approve", "reject", "suspend", "reactivate"}
INVARIANTS
  ReviewsSubmitted
