---------------------------- MODULE MCCheckout ----------------------------
(* Instances of Checkout for TLC. *)
EXTENDS Checkout, TLC

Limit(checkout, disturbance) ==
  [k \in Kinds |-> IF k = "checkout" THEN checkout ELSE disturbance]

\* The institution's own course admits only the first user; coupons are for it.
CONSTANTS u1, u2, course
MCAdmitted == Seats \ {<<u2, course>>}
MCApplies == {<<c, p>> \in Coupons \X Products : p = course}

One == [c \in Coupons |-> 1]
\* Only the coupon with a partial discount limits its redemptions.
MCMax == [c \in Coupons |-> IF c \in FullDiscount THEN 0 ELSE 1]

\* Three checkouts race, with a fault or a change of the world.
RaceBudget == Limit(3, 1)

Symmetry == Permutations(Workers) \cup Permutations(Orders)
=============================================================================
