SPECIFICATION FairSpec
CONSTANTS
  Orders = {o1}
  Seats = {s1}
  SeatOf <- MCSeatOf
  Owned = {o1}
  Marketplace = {o1}
  Workers = {w1, w2}
  RefundIds = {r1}
  Price = 2
  Ceiling = 1
  Budget <- RaceBudget
  None = None
CHECK_DEADLOCK FALSE
INVARIANTS OncePerSale AccessOnlyFromCapture
PROPERTIES EventsAnswered CaptureGivesAccess
