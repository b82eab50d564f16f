SPECIFICATION Spec
CONSTANTS
  Invites = {i1, i2, i3}
  People = {p1, p2}
  Students = {s1, s2}
  StaffSeats = 1
  StudentSeats = 1
  Workers = {w1, w2}
  Budgets <- RaceBudgets
  None = None
SYMMETRY Symmetry
CHECK_DEADLOCK FALSE
INVARIANTS SeatsWithinPlan OneInvitationEach
PROPERTIES InvitationsKeepFaith
