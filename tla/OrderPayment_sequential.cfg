SPECIFICATION Spec
CONSTANTS
  Orders = {o1, o2}
  Seats = {s1}
  SeatOf <- MCSeatOf
  Owned = {o1, o2}
  Marketplace = {o1}
  Workers = {w1}
  RefundIds = {r1, r2}
  Price = 2
  Ceiling = 1
  Budget <- SequentialBudget
  None = None
CHECK_DEADLOCK FALSE
SYMMETRY RefundSymmetry
INVARIANTS FullRefundUndoesSale TransfersAddUp
PROPERTIES RefundsStayInBounds
