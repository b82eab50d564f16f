------------------------------ MODULE Checkout ------------------------------
(***************************************************************************)
(* Checkout: createOrder with its idempotency key, its eligibility checks, *)
(* the coupon redemption reserved under a row lock, the free path and the  *)
(* hand-over to the payment provider.  What happens to an order afterwards *)
(* (module OrderPayment) appears here only as Pay, Refund and Lapse.       *)
(*                                                                         *)
(* Source: apps/api/src/payments/payments.service.ts.                      *)
(***************************************************************************)
EXTENDS Integers, FiniteSets

CONSTANTS
  Users, Products, Orders, Coupons, Keys,
  Plans,           \* products of kind SUBSCRIPTION
  FreeCourses,     \* courses of accessType FREE
  Admitted,        \* (user, product): audience is open, or member, or access code
  Applies,         \* (coupon, product) with a matching course scope
  FullDiscount,    \* coupons that discount to zero
  MaxRedemptions, PerUserLimit,
  Workers,         \* concurrent request slots of the API
  Budget,          \* bound: how many checkouts, and disturbances of them, occur
  None             \* SQL NULL

Kinds == {"checkout", "disturbance"}
Seats == Users \X Products

ASSUME CheckoutAssumption ==
  /\ Plans \subseteq Products /\ FreeCourses \subseteq Products \ Plans
  /\ Admitted \subseteq Seats /\ Applies \subseteq Coupons \X Products
  /\ FullDiscount \subseteq Coupons
  /\ MaxRedemptions \in [Coupons -> Nat] /\ PerUserLimit \in [Coupons -> Nat]
  /\ Budget \in [Kinds -> Nat]
  /\ None \notin Users \cup Products \cup Orders \cup Coupons \cup Keys
  /\ IsFiniteSet(Orders)

VARIABLES
  orders,     \* the order rows
  redeemed,   \* coupon.redeemedCount
  ent,        \* the entitlement row of each (user, product)
  available,  \* products that are active and whose institution's KYC stands
  opened,     \* provider side: provider orders made for each of our orders
  answers,    \* history: what createOrder has answered, to whom
  job,        \* the request running in each slot
  budget      \* what is left of Budget

world == <<ent, available>>
vars  == <<orders, redeemed, world, opened, answers, job, budget>>

Pcs == {"idle", "product", "entitlement", "plan", "reserve", "enroll", "thank", "provider", "open"}
Statuses == {"NONE", "CREATED", "PENDING", "PAID", "REFUNDED_FULL"}

OrderRow == [status : Statuses, user : Users \cup {None}, product : Products \cup {None},
             coupon : Coupons \cup {None}, key : Keys \cup {None}, atProvider : BOOLEAN]
Job == [pc : Pcs, user : Users \cup {None}, product : Products \cup {None},
        coupon : Coupons \cup {None}, key : Keys \cup {None}, order : Orders \cup {None}]
Answer == [user : Users, order : Orders, alreadyPaid : BOOLEAN]

Row(s, u, p, c, k) ==
  [status |-> s, user |-> u, product |-> p, coupon |-> c, key |-> k, atProvider |-> FALSE]
Request(p, u, x, c, k, o) ==
  [pc |-> p, user |-> u, product |-> x, coupon |-> c, key |-> k, order |-> o]

NoRow == Row("NONE", None, None, None, None)
Idle == Request("idle", None, None, None, None, None)

TypeOK ==
  /\ orders \in [Orders -> OrderRow]
  /\ redeemed \in [Coupons -> Nat]
  /\ ent \in [Seats -> [active : BOOLEAN, order : Orders \cup {None}]]
  /\ available \subseteq Products
  /\ opened \in [Orders -> Nat]
  /\ answers \subseteq Answer
  /\ job \in [Workers -> Job]
  /\ budget \in [Kinds -> Nat]

Init ==
  /\ orders = [o \in Orders |-> NoRow]
  /\ redeemed = [c \in Coupons |-> 0]
  /\ ent = [s \in Seats |-> [active |-> FALSE, order |-> None]]
  /\ available = Products
  /\ opened = [o \in Orders |-> 0]
  /\ answers = {}
  /\ job = [w \in Workers |-> Idle]
  /\ budget = Budget

-----------------------------------------------------------------------------
At(w, p) == job[w].pc = p
Goto(w, p) == job' = [job EXCEPT ![w].pc = p]
End(w) == job' = [job EXCEPT ![w] = Idle]
Spend(k) == budget[k] > 0 /\ budget' = [budget EXCEPT ![k] = @ - 1]
Reply(u, o, paid) ==
  answers' = answers \cup {[user |-> u, order |-> o, alreadyPaid |-> paid]}

Taken == {o \in Orders : orders[o].status # "NONE"}
WithKey(k) == {o \in Taken : k # None /\ orders[o].key = k}
Redeeming(c) == {o \in Orders : orders[o].coupon = c}
Used(c, u) == {o \in Redeeming(c) : orders[o].user = u /\ orders[o].status = "PAID"}

(* Mutated forms: bugs this code could have had, each caught by a property. *)
OwnerIgnored(u, o) == FALSE
KeyNotUnique(k) == FALSE
AnyEntitlement(u) == \E p \in Products : ent[<<u, p>>].active
PaidRedemptionsOnly(c) ==
  Cardinality({o \in Redeeming(c) : orders[o].status = "PAID"}) >= MaxRedemptions[c]

-----------------------------------------------------------------------------
\* createOrder: the key belongs to somebody else's order.
Foreign(u, o) == orders[o].user # u

\* The unique index on idempotency_key.
KeyTaken(k) == WithKey(k) # {}

\* hasAnyActiveSubscription.
HasPlan(u) == \E p \in Plans : ent[<<u, p>>].active

\* applyCoupon, under the lock of the coupon row: maxRedemptions (0 and NULL
\* mean no limit) and perUserLimit, which counts the user's PAID orders.
FullyRedeemed(c) == MaxRedemptions[c] # 0 /\ redeemed[c] >= MaxRedemptions[c]
LimitReached(c, u) == Cardinality(Used(c, u)) >= PerUserLimit[c]

CouponHolds(u, p, c) ==
  c # None => <<c, p>> \in Applies /\ ~FullyRedeemed(c) /\ ~LimitReached(c, u)

\* A free course, or a coupon that takes the whole price off.
Free(p, c) == p \in FreeCourses \/ c \in FullDiscount
CreatedStatus(free) == IF free THEN "PAID" ELSE "CREATED"

\* createOrder: the order of the idempotency key is read and, when it is the
\* caller's own and usable, returned.
CreateOrder(w, u, p, c, k) ==
  /\ At(w, "idle") /\ Spend("checkout")
  /\ \/ /\ \A o \in WithKey(k) : ~Foreign(u, o) /\ orders[o].status = "CREATED"
        /\ job' = [job EXCEPT ![w] = Request("product", u, p, c, k, None)]
        /\ UNCHANGED answers
     \/ \E o \in WithKey(k) :
          /\ ~Foreign(u, o)
          /\ orders[o].atProvider \/ orders[o].status = "PAID"
          /\ Reply(u, o, orders[o].status = "PAID")
          /\ UNCHANGED job
  /\ UNCHANGED <<orders, redeemed, world, opened>>

\* createOrder: active product, KYC not REJECTED, INSTITUTE audience.
CheckProduct(w) ==
  /\ At(w, "product")
  /\ IF job[w].product \in available /\ <<job[w].user, job[w].product>> \in Admitted
       THEN Goto(w, "entitlement") ELSE End(w)
  /\ UNCHANGED <<orders, redeemed, world, opened, answers, budget>>

\* createOrder: a live entitlement for the product refuses the purchase.
CheckEntitlement(w) ==
  /\ At(w, "entitlement")
  /\ IF ent[<<job[w].user, job[w].product>>].active THEN End(w) ELSE Goto(w, "plan")
  /\ UNCHANGED <<orders, redeemed, world, opened, answers, budget>>

\* createOrder: a free course needs a plan; a plan takes no coupon.
CheckPlan(w) ==
  /\ At(w, "plan")
  /\ IF \/ job[w].product \in FreeCourses /\ ~HasPlan(job[w].user)
        \/ job[w].product \in Plans /\ job[w].coupon # None
       THEN End(w) ELSE Goto(w, "reserve")
  /\ UNCHANGED <<orders, redeemed, world, opened, answers, budget>>

\* createOrder, transaction: coupon limits, redemption slot and order row; a
\* failed check or the unique index on the key rolls everything back.
ReserveTx(w) ==
  LET u == job[w].user  p == job[w].product  c == job[w].coupon  k == job[w].key IN
  /\ At(w, "reserve")
  /\ \/ /\ CouponHolds(u, p, c) /\ ~KeyTaken(k)
        /\ \E o \in Orders \ Taken :
             /\ orders' = [orders EXCEPT ![o] = Row(CreatedStatus(Free(p, c)), u, p, c, k)]
             /\ job' = [job EXCEPT ![w] =
                  Request(IF Free(p, c) THEN "enroll" ELSE "provider", u, p, c, k, o)]
        /\ redeemed' = [x \in Coupons |-> IF x = c THEN redeemed[x] + 1 ELSE redeemed[x]]
     \/ /\ ~CouponHolds(u, p, c) \/ KeyTaken(k)
        /\ End(w) /\ UNCHANGED <<orders, redeemed>>
  /\ UNCHANGED <<world, opened, answers, budget>>

\* grantFromOrder: upsert on (user, product).
Grant(o) ==
  ent' = [ent EXCEPT ![<<orders[o].user, orders[o].product>>] =
            [active |-> TRUE, order |-> o]]

\* createOrder, free path: the entitlement is granted, ...
Enroll(w) ==
  /\ At(w, "enroll")
  /\ Grant(job[w].order)
  /\ Goto(w, "thank")
  /\ UNCHANGED <<orders, redeemed, available, opened, answers, budget>>

\* ... and the buyer, once notified, answered.
Thank(w) ==
  /\ At(w, "thank")
  /\ Reply(job[w].user, job[w].order, TRUE)
  /\ End(w)
  /\ UNCHANGED <<orders, redeemed, world, opened, budget>>

\* razorpay.createOrder, which may fail.
AskProvider(w) ==
  /\ At(w, "provider")
  /\ \/ opened' = [opened EXCEPT ![job[w].order] = @ + 1] /\ Goto(w, "open")
     \/ End(w) /\ UNCHANGED opened
  /\ UNCHANGED <<orders, redeemed, world, answers, budget>>

\* createOrder: the order is PENDING at the provider, and answered.
OpenOrder(w) ==
  LET o == job[w].order IN
  /\ At(w, "open")
  /\ orders' = [orders EXCEPT ![o].status = "PENDING", ![o].atProvider = TRUE]
  /\ Reply(job[w].user, o, FALSE)
  /\ End(w)
  /\ UNCHANGED <<redeemed, world, opened, budget>>

-----------------------------------------------------------------------------
(* Everything else that reads or changes the same rows. *)

\* markPaid: the order is paid and the entitlement granted (OrderPayment has
\* the steps in between).
Pay(o) ==
  /\ orders[o].status = "PENDING"
  /\ orders' = [orders EXCEPT ![o].status = "PAID"]
  /\ Grant(o)
  /\ UNCHANGED <<redeemed, available, opened, answers, job, budget>>

\* applyRefundEffects: a full refund revokes what the order granted.
Refund(o) ==
  /\ orders[o].status = "PAID" /\ Spend("disturbance")
  /\ orders' = [orders EXCEPT ![o].status = "REFUNDED_FULL"]
  /\ ent' = [s \in Seats |-> [ent[s] EXCEPT !.active = @ /\ ent[s].order # o]]
  /\ UNCHANGED <<redeemed, available, opened, answers, job>>

\* activeWhere: endsAt passes.
Lapse(s) ==
  /\ ent[s].active /\ Spend("disturbance")
  /\ ent' = [ent EXCEPT ![s].active = FALSE]
  /\ UNCHANGED <<orders, redeemed, available, opened, answers, job>>

\* A product is deactivated or its institution's KYC rejected, or the reverse.
Toggle(p) ==
  /\ Spend("disturbance")
  /\ available' = IF p \in available THEN available \ {p} ELSE available \cup {p}
  /\ UNCHANGED <<orders, redeemed, ent, opened, answers, job>>

\* An exception or a process death ends a request between two statements.
Abort(w) ==
  /\ ~At(w, "idle") /\ Spend("disturbance")
  /\ End(w)
  /\ UNCHANGED <<orders, redeemed, world, opened, answers>>

Step(w) ==
  \/ CheckProduct(w) \/ CheckEntitlement(w) \/ CheckPlan(w) \/ ReserveTx(w)
  \/ Enroll(w) \/ Thank(w) \/ AskProvider(w) \/ OpenOrder(w)

Next ==
  \/ \E w \in Workers :
       \/ Step(w) \/ Abort(w)
       \/ \E u \in Users, p \in Products, c \in Coupons \cup {None}, k \in Keys \cup {None} :
            CreateOrder(w, u, p, c, k)
  \/ \E o \in Orders : Pay(o) \/ Refund(o)
  \/ \E s \in Seats : Lapse(s)
  \/ \E p \in Products : Toggle(p)

Spec == Init /\ [][Next]_vars
-----------------------------------------------------------------------------
(* Properties. *)

\* However many checkouts race, a coupon is never attached to more orders than
\* its maxRedemptions (applyCoupon's row lock and its early increment).
RedemptionsWithinLimit ==
  \A c \in Coupons : MaxRedemptions[c] # 0 =>
    Cardinality(Redeeming(c)) <= MaxRedemptions[c]

\* Whatever key a caller sends, createOrder answers with the caller's own order.
OwnOrdersOnly == \A a \in answers : orders[a.order].user = a.user

\* One idempotency key opens at most one provider order, whatever is retried,
\* doubled or aborted: the buyer is never shown two payments for one key.
OnePaymentPerKey ==
  \A k \in Keys :
    /\ Cardinality({o \in WithKey(k) : opened[o] > 0}) <= 1
    /\ \A o \in WithKey(k) : opened[o] <= 1

\* A free course is a subscriber perk: nobody has ever been enrolled in one
\* without having held a subscription plan.
FreeNeedsPlan ==
  \A u \in Users, p \in FreeCourses :
    ent[<<u, p>>].order # None => \E q \in Plans : ent[<<u, q>>].order # None

\* A coupon that discounts to zero is used by one user at most perUserLimit
\* times: its orders are PAID when they are created, under the coupon's lock.
FreeCouponPerUser ==
  \A c \in FullDiscount, u \in Users : Cardinality(Used(c, u)) <= PerUserLimit[c]

\* Nobody gets for free what only a plan, or a coupon still unused, gives.
FreeIsEarned == FreeNeedsPlan /\ FreeCouponPerUser
=============================================================================
