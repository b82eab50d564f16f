SPECIFICATION Spec
CONSTANTS
  u1 = u1
  u2 = u2
  course = course
  Users = {u1, u2}
  Products = {plan, course, gratis}
  Orders = {o1, o2, o3}
  Coupons = {c1, c2}
  Keys = {k1}
  Plans = {plan}
  FreeCourses = {gratis}
  Admitted <- MCAdmitted
  Applies <- MCApplies
  FullDiscount = {c2}
  MaxRedemptions <- MCMax
  PerUserLimit <- One
  Workers = {w1, w2}
  Budget <- RaceBudget
  None = None
CHECK_DEADLOCK FALSE
SYMMETRY Symmetry
INVARIANTS RedemptionsWithinLimit OnePaymentPerKey OwnOrdersOnly FreeIsEarned
