--------------------------- MODULE CheckoutProofs ---------------------------
(* Theorems about Checkout, for every value of its constants. *)
EXTENDS Checkout, FiniteSetTheorems, TLAPS

\* An order row: one that exists names its buyer and product, one that does
\* not exist yet redeems nothing.
RowOK(r) ==
  /\ r \in OrderRow
  /\ r.status # "NONE" => r.user \in Users /\ r.product \in Products
  /\ r.status = "NONE" => r.coupon = None

RowsOK == orders \in [Orders -> OrderRow] /\ \A o \in Orders : RowOK(orders[o])

Ordering == {"enroll", "thank", "provider", "open"}

\* A running request knows its buyer and product and, once its transaction
\* has committed, works on an order of that very buyer.
JobOK(j) ==
  /\ j \in Job
  /\ j.pc # "idle" => j.user \in Users /\ j.product \in Products
  /\ j.pc \in Ordering =>
       /\ j.order \in Orders
       /\ orders[j.order].status # "NONE" /\ orders[j.order].user = j.user

JobsOK == job \in [Workers -> Job] /\ \A w \in Workers : JobOK(job[w])

AnswersOK ==
  /\ answers \subseteq Answer
  /\ \A a \in answers : orders[a.order].status # "NONE" /\ orders[a.order].user = a.user

RestOK ==
  /\ redeemed \in [Coupons -> Nat]
  /\ ent \in [Seats -> [active : BOOLEAN, order : Orders \cup {None}]]
  /\ available \subseteq Products
  /\ opened \in [Orders -> Nat]
  /\ budget \in [Kinds -> Nat]

\* redeemedCount counts the orders that carry the coupon, paid or not.
CountOK ==
  \A c \in Coupons :
    /\ redeemed[c] = Cardinality(Redeeming(c))
    /\ MaxRedemptions[c] # 0 => redeemed[c] <= MaxRedemptions[c]

IInv == RowsOK /\ JobsOK /\ AnswersOK /\ RestOK /\ CountOK

LEMMA IInvImpliesTypeOK == IInv => TypeOK
  BY DEF IInv, TypeOK, RowsOK, JobsOK, AnswersOK, RestOK

LEMMA IInvImpliesLimit == IInv => RedemptionsWithinLimit
  BY DEF IInv, CountOK, RedemptionsWithinLimit

LEMMA IInvImpliesOwn == IInv => OwnOrdersOnly
  BY DEF IInv, AnswersOK, OwnOrdersOnly

-----------------------------------------------------------------------------
(* Steps that change at most the status and atProvider of rows. *)

SameRow(r, s) ==
  /\ s \in OrderRow
  /\ s.user = r.user /\ s.product = r.product /\ s.coupon = r.coupon
  /\ s.status = "NONE" <=> r.status = "NONE"

RowsKept ==
  orders' \in [Orders -> OrderRow] /\ \A o \in Orders : SameRow(orders[o], orders'[o])

LEMMA RowsUnchanged ==
  ASSUME RowsOK, UNCHANGED orders
  PROVE  RowsKept
  BY DEF RowsOK, RowOK, RowsKept, SameRow

LEMMA RowUpdated ==
  ASSUME RowsOK, NEW o \in Orders, NEW r, SameRow(orders[o], r),
         orders' = [orders EXCEPT ![o] = r]
  PROVE  RowsKept
  BY DEF RowsOK, RowOK, RowsKept, SameRow

LEMMA KeptRowsOK ==
  ASSUME RowsOK, RowsKept
  PROVE  RowsOK'
  BY DEF RowsOK, RowOK, RowsKept, SameRow

LEMMA KeptCountOK ==
  ASSUME CountOK, RowsKept, UNCHANGED redeemed
  PROVE  CountOK'
<1>1. ASSUME NEW c \in Coupons PROVE Redeeming(c)' = Redeeming(c)
  BY DEF Redeeming, RowsKept, SameRow
<1> QED
  BY <1>1 DEF CountOK

LEMMA KeptAnswersOK ==
  ASSUME AnswersOK, RowsKept, UNCHANGED answers
  PROVE  AnswersOK'
<1>1. \A a \in answers : a.order \in Orders
  BY DEF AnswersOK, Answer
<1> QED
  BY <1>1 DEF AnswersOK, RowsKept, SameRow

\* A new answer about an order of the user it goes to.
LEMMA RepliedAnswersOK ==
  ASSUME AnswersOK, RowsKept, NEW u \in Users, NEW o \in Orders, NEW b \in BOOLEAN,
         Reply(u, o, b), orders[o].status # "NONE", orders[o].user = u
  PROVE  AnswersOK'
<1> DEFINE a == [user |-> u, order |-> o, alreadyPaid |-> b]
<1>1. a \in Answer /\ a.order = o /\ a.user = u
  BY DEF Answer
<1>2. answers' = answers \cup {a}
  BY DEF Reply
<1>3. \A x \in answers : x.order \in Orders
  BY DEF AnswersOK, Answer
<1>4. \A x \in answers \cup {a} :
        orders[x.order].status # "NONE" /\ orders[x.order].user = x.user /\ x.order \in Orders
  BY <1>1, <1>3 DEF AnswersOK
<1>5. answers' \subseteq Answer
  BY <1>1, <1>2 DEF AnswersOK
<1> QED
  BY <1>2, <1>4, <1>5 DEF AnswersOK, RowsKept, SameRow

\* One slot's record is replaced; the other requests still know their orders.
LEMMA KeptJobsOK ==
  ASSUME JobsOK, RowsKept, NEW w \in Workers, NEW j, JobOK(j),
         job' = [job EXCEPT ![w] = j]
  PROVE  JobsOK'
<1>1. ASSUME NEW x, JobOK(x) PROVE JobOK(x)'
  BY <1>1 DEF JobOK, RowsKept, SameRow
<1>2. j \in Job
  BY DEF JobOK
<1>3. job' \in [Workers -> Job]
  BY <1>2 DEF JobsOK
<1>4. ASSUME NEW v \in Workers PROVE JobOK(job[v])' 
  <2>1. JobOK(job'[v])
    BY DEF JobsOK
  <2> QED
    BY <2>1, RowsKept DEF JobOK, RowsKept, SameRow
<1> QED
  BY <1>3, <1>4 DEF JobsOK

LEMMA IdleOK == JobOK(Idle)
  BY DEF JobOK, Idle, Request, Job, Pcs, Ordering

LEMMA EndOK ==
  ASSUME JobsOK, RowsKept, NEW w \in Workers, End(w)
  PROVE  JobsOK'
  BY IdleOK, KeptJobsOK DEF End

\* A check passes: nothing but the place in the program changes.
LEMMA GotoOK ==
  ASSUME JobsOK, RowsKept, NEW w \in Workers, NEW p \in Pcs, Goto(w, p),
         job[w].pc # "idle", p \in Ordering => job[w].pc \in Ordering
  PROVE  JobsOK'
<1> DEFINE j == [job[w] EXCEPT !.pc = p]
<1>1. job' = [job EXCEPT ![w] = j]
  BY DEF Goto
<1>2. JobOK(j)
  BY DEF JobOK, JobsOK, Job
<1> QED
  BY <1>1, <1>2, KeptJobsOK

-----------------------------------------------------------------------------
LEMMA InitIInv == Init => IInv
<1> SUFFICES ASSUME Init PROVE IInv
  OBVIOUS
<1>1. RowOK(NoRow)
  BY DEF RowOK, NoRow, Row, OrderRow, Statuses
<1>2. RowsOK
  BY <1>1 DEF Init, RowsOK, RowOK
<1>3. JobsOK
  BY IdleOK DEF Init, JobsOK, JobOK
<1>4. AnswersOK /\ RestOK
  BY CheckoutAssumption DEF Init, AnswersOK, RestOK
<1>5. \A c \in Coupons : Redeeming(c) = {}
  BY CheckoutAssumption DEF Init, Redeeming, NoRow, Row
<1>6. CountOK
  <2>1. Cardinality({}) = 0
    BY FS_EmptySet
  <2>2. \A c \in Coupons : redeemed[c] = 0 /\ MaxRedemptions[c] \in Nat
    BY CheckoutAssumption DEF Init
  <2> QED
    BY <1>5, <2>1, <2>2 DEF CountOK
<1> QED
  BY <1>2, <1>3, <1>4, <1>6 DEF IInv

\* A checkout starts, or is answered with the order of its key.
LEMMA CreateOrderIInv ==
  ASSUME IInv, NEW w \in Workers, NEW u \in Users, NEW p \in Products,
         NEW c \in Coupons \cup {None}, NEW k \in Keys \cup {None},
         CreateOrder(w, u, p, c, k)
  PROVE  IInv'
<1> USE DEF IInv
<1>1. RowsKept
  BY RowsUnchanged DEF CreateOrder
<1>2. RowsOK' /\ CountOK'
  BY <1>1, KeptRowsOK, KeptCountOK DEF CreateOrder
<1>3. RestOK'
  <2>1. budget' \in [Kinds -> Nat]
    <3>1. Spend("checkout") /\ budget \in [Kinds -> Nat] /\ "checkout" \in Kinds
      BY DEF CreateOrder, RestOK, Kinds
    <3> QED
      BY <3>1 DEF Spend
  <2>2. UNCHANGED <<redeemed, ent, available, opened>>
    BY DEF CreateOrder, world
  <2> QED
    BY <2>1, <2>2 DEF RestOK
<1>4. CASE /\ job' = [job EXCEPT ![w] = Request("product", u, p, c, k, None)]
           /\ UNCHANGED answers
  <2>1. JobOK(Request("product", u, p, c, k, None))
    BY DEF JobOK, Request, Job, Pcs, Ordering
  <2> QED
    BY <1>1, <1>2, <1>3, <1>4, <2>1, KeptJobsOK, KeptAnswersOK
<1>5. CASE /\ \E o \in WithKey(k) : ~Foreign(u, o) /\ Reply(u, o, orders[o].status = "PAID")
           /\ UNCHANGED job
  <2>1. PICK o \in WithKey(k) : ~Foreign(u, o) /\ Reply(u, o, orders[o].status = "PAID")
    BY <1>5
  <2>2. o \in Orders /\ orders[o].status # "NONE" /\ orders[o].user = u
    BY <2>1 DEF WithKey, Taken, Foreign
  <2>3. AnswersOK'
    BY <1>1, <2>1, <2>2, RepliedAnswersOK
  <2>4. JobsOK'
    BY <1>5 DEF CreateOrder, JobsOK, JobOK
  <2> QED
    BY <1>2, <1>3, <2>3, <2>4
<1> QED
  BY <1>4, <1>5 DEF CreateOrder

\* The three checks before the transaction, and a request that dies.
LEMMA ChecksIInv ==
  ASSUME IInv, NEW w \in Workers,
         CheckProduct(w) \/ CheckEntitlement(w) \/ CheckPlan(w) \/ Abort(w)
  PROVE  IInv'
<1> USE DEF IInv
<1>1. UNCHANGED <<orders, redeemed, answers, ent, available, opened>>
  BY DEF CheckProduct, CheckEntitlement, CheckPlan, Abort, world
<1>2. RowsKept
  BY <1>1, RowsUnchanged
<1>3. budget' \in [Kinds -> Nat]
  BY DEF CheckProduct, CheckEntitlement, CheckPlan, Abort, RestOK, Spend
<1>4. JobsOK'
  <2>1. CASE End(w)
    BY <1>2, <2>1, EndOK
  <2>2. CASE /\ job[w].pc # "idle"
             /\ \E q \in {"entitlement", "plan", "reserve"} : Goto(w, q)
    BY <1>2, <2>2, GotoOK DEF Pcs, Ordering
  <2> QED
    BY <2>1, <2>2 DEF CheckProduct, CheckEntitlement, CheckPlan, Abort, At
<1> QED
  BY <1>1, <1>2, <1>3, <1>4, KeptRowsOK, KeptCountOK, KeptAnswersOK DEF RestOK

\* The transaction: a new row takes the coupon's slot, or nothing changes.
LEMMA ReserveTxIInv ==
  ASSUME IInv, NEW w \in Workers, ReserveTx(w)
  PROVE  IInv'
<1> USE DEF IInv
<1> DEFINE u == job[w].user  p == job[w].product  c == job[w].coupon  k == job[w].key
<1>1. /\ u \in Users /\ p \in Products /\ c \in Coupons \cup {None}
      /\ k \in Keys \cup {None} /\ job[w].pc = "reserve"
  BY DEF ReserveTx, At, JobsOK, JobOK, Job
<1>2. UNCHANGED <<answers, ent, available, opened, budget>>
  BY DEF ReserveTx, world
<1>3. CASE End(w) /\ UNCHANGED <<orders, redeemed>>
  <2>1. RowsKept
    BY <1>3, RowsUnchanged
  <2> QED
    BY <1>2, <1>3, <2>1, KeptRowsOK, KeptCountOK, KeptAnswersOK, EndOK DEF RestOK
<1>4. CASE /\ CouponHolds(u, p, c)
           /\ \E o \in Orders \ Taken :
                /\ orders' = [orders EXCEPT ![o] = Row(CreatedStatus(Free(p, c)), u, p, c, k)]
                /\ job' = [job EXCEPT ![w] =
                     Request(IF Free(p, c) THEN "enroll" ELSE "provider", u, p, c, k, o)]
           /\ redeemed' = [x \in Coupons |-> IF x = c THEN redeemed[x] + 1 ELSE redeemed[x]]
  <2> DEFINE row == Row(CreatedStatus(Free(p, c)), u, p, c, k)
             req(o) == Request(IF Free(p, c) THEN "enroll" ELSE "provider", u, p, c, k, o)
  <2>1. PICK o \in Orders \ Taken :
          orders' = [orders EXCEPT ![o] = row] /\ job' = [job EXCEPT ![w] = req(o)]
    BY <1>4
  <2>2. redeemed' = [x \in Coupons |-> IF x = c THEN redeemed[x] + 1 ELSE redeemed[x]]
    BY <1>4
  <2>3. orders[o].status = "NONE" /\ orders[o].coupon = None
    BY <2>1 DEF Taken, RowsOK, RowOK
  <2>4. RowOK(row) /\ row.status # "NONE" /\ row.coupon = c /\ row.user = u
    BY <1>1, CheckoutAssumption DEF RowOK, Row, OrderRow, CreatedStatus, Statuses
  <2>5. RowsOK'
    BY <2>1, <2>4 DEF RowsOK, RowOK
  <2>6. \A x \in Orders : orders'[x] = IF x = o THEN row ELSE orders[x]
    BY <2>1 DEF RowsOK
  <2>7. AnswersOK'
    BY <1>2, <2>3, <2>6 DEF AnswersOK, Answer
  <2>8. JobsOK'
    <3>1. req(o) \in Job /\ req(o).order = o /\ req(o).user = u /\ req(o).product = p
          /\ req(o).pc \in Ordering
      BY <1>1, <2>1 DEF Request, Job, Pcs, Ordering
    <3>2. job' \in [Workers -> Job]
      BY <2>1, <3>1 DEF JobsOK
    <3>3. ASSUME NEW v \in Workers PROVE JobOK(job[v])'
      <4>1. CASE v = w
        <5>1. job'[v] = req(o)
          BY <2>1, <4>1 DEF JobsOK
        <5> QED
          BY <1>1, <2>4, <2>6, <3>1, <5>1 DEF JobOK
      <4>2. CASE v # w
        <5>1. job'[v] = job[v] /\ JobOK(job[v])
          BY <2>1, <4>2 DEF JobsOK
        <5>2. job[v].pc \in Ordering => job[v].order # o
          BY <2>3, <5>1 DEF JobOK
        <5> QED
          BY <2>6, <5>1, <5>2 DEF JobOK
      <4> QED
        BY <4>1, <4>2
    <3> QED
      BY <3>2, <3>3 DEF JobsOK
  <2>9. RestOK'
    BY <1>2, <2>2 DEF RestOK
  <2>10. CountOK'
    <3>1. ASSUME NEW d \in Coupons, d # c
          PROVE  redeemed'[d] = redeemed[d] /\ Redeeming(d)' = Redeeming(d)
      <4>1. Redeeming(d)' = Redeeming(d)
        BY <2>3, <2>4, <2>6, <3>1, CheckoutAssumption DEF Redeeming
      <4> QED
        BY <2>2, <3>1, <4>1
    <3>2. ASSUME NEW d \in Coupons, d = c
          PROVE  /\ redeemed'[d] = redeemed[d] + 1
                 /\ Cardinality(Redeeming(d)') = Cardinality(Redeeming(d)) + 1
                 /\ MaxRedemptions[d] # 0 => redeemed[d] + 1 <= MaxRedemptions[d]
      <4>1. Redeeming(d)' = Redeeming(d) \cup {o}
        BY <2>4, <2>6, <3>2 DEF Redeeming
      <4>2. o \notin Redeeming(d)
        BY <2>3, <3>2, CheckoutAssumption DEF Redeeming
      <4>3. IsFiniteSet(Redeeming(d))
        BY FS_Subset, CheckoutAssumption DEF Redeeming
      <4>4. Cardinality(Redeeming(d)') = Cardinality(Redeeming(d)) + 1
        BY <4>1, <4>2, <4>3, FS_AddElement
      <4>5. MaxRedemptions[d] # 0 => redeemed[d] + 1 <= MaxRedemptions[d]
        BY <1>4, <3>2, CheckoutAssumption DEF CouponHolds, FullyRedeemed, RestOK
      <4>6. redeemed'[d] = redeemed[d] + 1
        BY <2>2, <3>2
      <4> QED
        BY <4>4, <4>5, <4>6
    <3>3. ASSUME NEW d \in Coupons
          PROVE  /\ redeemed'[d] = Cardinality(Redeeming(d)')
                 /\ MaxRedemptions[d] # 0 => redeemed'[d] <= MaxRedemptions[d]
      <4>1. CASE d = c
        BY <3>2, <4>1 DEF CountOK
      <4>2. CASE d # c
        BY <3>1, <4>2 DEF CountOK
      <4> QED
        BY <4>1, <4>2
    <3> QED
      BY <3>3 DEF CountOK
  <2> QED
    BY <2>5, <2>7, <2>8, <2>9, <2>10
<1> QED
  BY <1>3, <1>4 DEF ReserveTx

\* The entitlement of an order that exists.
LEMMA GrantOK ==
  ASSUME IInv, NEW o \in Orders, orders[o].status # "NONE", Grant(o)
  PROVE  ent' \in [Seats -> [active : BOOLEAN, order : Orders \cup {None}]]
  BY DEF IInv, RowsOK, RowOK, RestOK, Grant, Seats

\* What follows the transaction.
LEMMA FulfilIInv ==
  ASSUME IInv, NEW w \in Workers, Enroll(w) \/ Thank(w) \/ AskProvider(w) \/ OpenOrder(w)
  PROVE  IInv'
<1> USE DEF IInv
<1> DEFINE o == job[w].order  u == job[w].user
<1>1. /\ job[w].pc \in Ordering /\ o \in Orders /\ u \in Users
      /\ orders[o].status # "NONE" /\ orders[o].user = u
  BY DEF Enroll, Thank, AskProvider, OpenOrder, At, Ordering, JobsOK, JobOK
<1>2. CASE Enroll(w)
  <2>1. RowsKept
    BY <1>2, RowsUnchanged DEF Enroll
  <2>2. RestOK'
    BY <1>1, <1>2, GrantOK DEF Enroll, RestOK
  <2>3. JobsOK'
    BY <1>1, <1>2, <2>1, GotoOK DEF Enroll, Pcs, Ordering
  <2> QED
    BY <1>2, <2>1, <2>2, <2>3, KeptRowsOK, KeptCountOK, KeptAnswersOK DEF Enroll
<1>5. CASE Thank(w)
  <2>1. RowsKept
    BY <1>5, RowsUnchanged DEF Thank
  <2>2. RestOK'
    BY <1>5 DEF Thank, RestOK, world
  <2>3. AnswersOK'
    BY <1>1, <1>5, <2>1, RepliedAnswersOK DEF Thank
  <2> QED
    BY <1>5, <2>1, <2>2, <2>3, KeptRowsOK, KeptCountOK, EndOK DEF Thank
<1>3. CASE AskProvider(w)
  <2>1. RowsKept
    BY <1>3, RowsUnchanged DEF AskProvider
  <2>2. RestOK'
    BY <1>3 DEF AskProvider, RestOK, world
  <2>3. JobsOK'
    <3>1. CASE End(w)
      BY <2>1, <3>1, EndOK
    <3>2. CASE Goto(w, "open")
      BY <1>1, <2>1, <3>2, GotoOK DEF Pcs, Ordering
    <3> QED
      BY <1>3, <3>1, <3>2 DEF AskProvider
  <2> QED
    BY <1>3, <2>1, <2>2, <2>3, KeptRowsOK, KeptCountOK, KeptAnswersOK DEF AskProvider
<1>4. CASE OpenOrder(w)
  <2> DEFINE r == [orders[o] EXCEPT !.status = "PENDING", !.atProvider = TRUE]
  <2>1. RowsKept
    <3>1. orders' = [orders EXCEPT ![o] = r]
      BY <1>4 DEF OpenOrder
    <3>2. SameRow(orders[o], r)
      BY <1>1 DEF SameRow, RowsOK, OrderRow, Statuses
    <3> QED
      BY <1>1, <3>1, <3>2, RowUpdated
  <2>2. RestOK'
    BY <1>4 DEF OpenOrder, RestOK, world
  <2>3. AnswersOK'
    BY <1>1, <1>4, <2>1, RepliedAnswersOK DEF OpenOrder
  <2> QED
    BY <1>4, <2>1, <2>2, <2>3, KeptRowsOK, KeptCountOK, EndOK DEF OpenOrder
<1> QED
  BY <1>2, <1>3, <1>4, <1>5

\* Payment, refund, expiry and the catalogue.
LEMMA WorldIInv ==
  ASSUME IInv,
         \/ \E o \in Orders : Pay(o) \/ Refund(o)
         \/ \E s \in Seats : Lapse(s)
         \/ \E p \in Products : Toggle(p)
  PROVE  IInv'
<1> USE DEF IInv
<1>1. UNCHANGED <<redeemed, opened, answers, job>>
  BY DEF Pay, Refund, Lapse, Toggle
<1>2. RowsKept
  <2>1. CASE UNCHANGED orders
    BY <2>1, RowsUnchanged
  <2>2. ASSUME NEW o \in Orders, NEW s \in Statuses \ {"NONE"},
               orders[o].status # "NONE",
               orders' = [orders EXCEPT ![o].status = s]
        PROVE  RowsKept
    <3> DEFINE r == [orders[o] EXCEPT !.status = s]
    <3>1. SameRow(orders[o], r)
      BY <2>2 DEF SameRow, RowsOK, OrderRow
    <3> QED
      BY <2>2, <3>1, RowUpdated
  <2> QED
    BY <2>1, <2>2 DEF Pay, Refund, Lapse, Toggle, Statuses
<1>3. JobsOK'
  <2>1. job' = job
    BY <1>1
  <2> QED
    BY <1>2, <2>1 DEF JobsOK, JobOK, RowsKept, SameRow
<1>4. ent' \in [Seats -> [active : BOOLEAN, order : Orders \cup {None}]]
  <2>1. CASE \E o \in Orders : Pay(o)
    BY <2>1, GrantOK DEF Pay
  <2>2. CASE \E o \in Orders : Refund(o)
    <3>1. PICK o \in Orders : Refund(o)
      BY <2>2
    <3>2. ent' = [s \in Seats |-> [ent[s] EXCEPT !.active = @ /\ ent[s].order # o]]
      BY <3>1 DEF Refund
    <3>3. ASSUME NEW s \in Seats
          PROVE  [ent[s] EXCEPT !.active = @ /\ ent[s].order # o]
                   \in [active : BOOLEAN, order : Orders \cup {None}]
      BY DEF RestOK
    <3> QED
      BY <3>2, <3>3 DEF RestOK
  <2>3. CASE \E s \in Seats : Lapse(s)
    BY <2>3 DEF Lapse, RestOK
  <2>4. CASE \E p \in Products : Toggle(p)
    BY <2>4 DEF Toggle, RestOK
  <2> QED
    BY <2>1, <2>2, <2>3, <2>4
<1>5. available' \subseteq Products /\ budget' \in [Kinds -> Nat]
  BY DEF Pay, Refund, Lapse, Toggle, RestOK, Spend
<1>6. RestOK'
  BY <1>1, <1>4, <1>5 DEF RestOK
<1> QED
  BY <1>1, <1>2, <1>3, <1>6, KeptRowsOK, KeptCountOK, KeptAnswersOK

LEMMA NextIInv == IInv /\ [Next]_vars => IInv'
<1> SUFFICES ASSUME IInv, [Next]_vars PROVE IInv'
  OBVIOUS
<1>1. CASE Next
  BY <1>1, CreateOrderIInv, ChecksIInv, ReserveTxIInv, FulfilIInv, WorldIInv DEF Next, Step
<1>2. CASE UNCHANGED vars
  BY <1>2 DEF vars, world, IInv, RowsOK, RowOK, JobsOK, JobOK, AnswersOK, RestOK, CountOK,
              Redeeming
<1> QED
  BY <1>1, <1>2

LEMMA InvariantHolds == Spec => []IInv
  BY InitIInv, NextIInv, PTL DEF Spec

\* Every variable of checkout keeps its type, whatever the requests do.
THEOREM CheckoutTypeCorrect == Spec => []TypeOK
  BY InvariantHolds, IInvImpliesTypeOK, PTL

\* For any number of coupons, buyers, racing checkouts and crashes, a coupon
\* with a limit is never attached to more orders than its maxRedemptions.
THEOREM RedemptionsWithinLimitHolds == Spec => []RedemptionsWithinLimit
  BY InvariantHolds, IInvImpliesLimit, PTL

\* Whatever idempotency keys callers send, nobody is answered with another
\* user's order.
THEOREM OwnOrdersOnlyHolds == Spec => []OwnOrdersOnly
  BY InvariantHolds, IInvImpliesOwn, PTL

-----------------------------------------------------------------------------
(* One payment per key. *)

Works(w) == job[w].pc \in Ordering

\* A key belongs to one order; an order has been opened at most once, and no two
\* requests work on one order, of which the next provider call is the first.
KeysInv ==
  /\ \A o, x \in Orders :
       /\ orders[o].status # "NONE" /\ orders[x].status # "NONE"
       /\ orders[o].key = orders[x].key /\ orders[o].key # None
       => o = x
  /\ \A o \in Orders : opened[o] <= 1 /\ (orders[o].status = "NONE" => opened[o] = 0)
  /\ \A v, w \in Workers : Works(v) /\ Works(w) /\ job[v].order = job[w].order => v = w
  /\ \A w \in Workers : job[w].pc = "provider" => opened[job[w].order] = 0

KeysSame ==
  \A o \in Orders :
    orders'[o].key = orders[o].key /\ (orders'[o].status = "NONE" <=> orders[o].status = "NONE")

\* No request takes up an order, and none returns to the provider.
NoNewWork ==
  \A w \in Workers :
    /\ Works(w)' => Works(w) /\ job'[w].order = job[w].order
    /\ job'[w].pc = "provider" => job[w].pc = "provider"

LEMMA KeysKept ==
  ASSUME IInv, KeysInv, KeysSame, NoNewWork, UNCHANGED opened
  PROVE  KeysInv'
<1>1. \A w \in Workers : job'[w].pc = "provider" => Works(w)'
  BY DEF Works, Ordering
<1> QED
  BY <1>1 DEF KeysInv, KeysSame, NoNewWork, Works

LEMMA EndsNoWork ==
  ASSUME IInv, NEW w \in Workers, End(w)
  PROVE  NoNewWork
  BY DEF IInv, JobsOK, End, Idle, Request, NoNewWork, Works, Ordering

LEMMA GoesNoWork ==
  ASSUME IInv, NEW w \in Workers, NEW p \in {"entitlement", "plan", "reserve"}, Goto(w, p)
  PROVE  NoNewWork
  BY DEF IInv, JobsOK, JobOK, Job, Goto, NoNewWork, Works, Ordering

LEMMA ReserveTxKeys ==
  ASSUME IInv, KeysInv, NEW w \in Workers, ReserveTx(w)
  PROVE  KeysInv'
<1> DEFINE u == job[w].user  p == job[w].product  c == job[w].coupon  k == job[w].key
<1>1. UNCHANGED opened
  BY DEF ReserveTx
<1>2. CASE End(w) /\ UNCHANGED orders
  BY <1>1, <1>2, EndsNoWork, KeysKept DEF KeysSame
<1>3. CASE /\ ~KeyTaken(k)
           /\ \E o \in Orders \ Taken :
                /\ orders' = [orders EXCEPT ![o] = Row(CreatedStatus(Free(p, c)), u, p, c, k)]
                /\ job' = [job EXCEPT ![w] =
                     Request(IF Free(p, c) THEN "enroll" ELSE "provider", u, p, c, k, o)]
  <2> DEFINE row == Row(CreatedStatus(Free(p, c)), u, p, c, k)
             req(o) == Request(IF Free(p, c) THEN "enroll" ELSE "provider", u, p, c, k, o)
  <2>1. PICK o \in Orders \ Taken :
          orders' = [orders EXCEPT ![o] = row] /\ job' = [job EXCEPT ![w] = req(o)]
    BY <1>3
  <2>2. orders[o].status = "NONE" /\ opened[o] = 0
    BY <2>1 DEF Taken, KeysInv
  <2>3. \A x \in Orders : orders'[x] = IF x = o THEN row ELSE orders[x]
    BY <2>1 DEF IInv, RowsOK
  <2>4. \A v \in Workers : job'[v] = IF v = w THEN req(o) ELSE job[v]
    BY <2>1 DEF IInv, JobsOK
  <2>5. row.key = k /\ row.status # "NONE"
    BY DEF Row, CreatedStatus
  <2>6. \A x \in Orders : orders[x].status # "NONE" /\ k # None => orders[x].key # k
    BY <1>3 DEF KeyTaken, WithKey, Taken
  <2>7. req(o).order = o
    BY DEF Request
  <2>8. \A v \in Workers : Works(v) => job[v].order \in Orders /\ job[v].order # o
    BY <2>2 DEF Works, IInv, JobsOK, JobOK
  <2>9. \A x, y \in Orders :
          /\ orders'[x].status # "NONE" /\ orders'[y].status # "NONE"
          /\ orders'[x].key = orders'[y].key /\ orders'[x].key # None
          => x = y
    BY <2>3, <2>5, <2>6 DEF KeysInv
  <2>10. \A x \in Orders : opened'[x] <= 1 /\ (orders'[x].status = "NONE" => opened'[x] = 0)
    BY <1>1, <2>3, <2>5 DEF KeysInv
  <2>11. \A v, x \in Workers :
           Works(v)' /\ Works(x)' /\ job'[v].order = job'[x].order => v = x
    BY <2>4, <2>7, <2>8 DEF KeysInv, Works
  <2>12. \A v \in Workers : job'[v].pc = "provider" => opened'[job'[v].order] = 0
    BY <1>1, <2>2, <2>4, <2>7 DEF KeysInv
  <2> QED
    BY <2>9, <2>10, <2>11, <2>12 DEF KeysInv
<1> QED
  BY <1>2, <1>3 DEF ReserveTx

LEMMA AskProviderKeys ==
  ASSUME IInv, KeysInv, NEW w \in Workers, AskProvider(w)
  PROVE  KeysInv'
<1> DEFINE o == job[w].order
<1>1. job[w].pc = "provider" /\ UNCHANGED orders /\ o \in Orders
  BY DEF AskProvider, At, IInv, JobsOK, JobOK, Ordering
<1>2. CASE End(w) /\ UNCHANGED opened
  BY <1>1, <1>2, EndsNoWork, KeysKept DEF KeysSame
<1>3. CASE opened' = [opened EXCEPT ![o] = @ + 1] /\ Goto(w, "open")
  <2>1. opened[o] = 0 /\ opened \in [Orders -> Nat]
    BY <1>1 DEF KeysInv, IInv, RestOK
  <2>2. \A x \in Orders : opened'[x] = IF x = o THEN 1 ELSE opened[x]
    BY <1>3, <2>1
  <2>3. \A v \in Workers : /\ job'[v].order = job[v].order
                           /\ job'[v].pc = IF v = w THEN "open" ELSE job[v].pc
    BY <1>3 DEF Goto, IInv, JobsOK, Job
  <2>4. orders[o].status # "NONE"
    BY <1>1 DEF IInv, JobsOK, JobOK, Ordering
  <2>5. \A v \in Workers : Works(v)' <=> Works(v)
    BY <1>1, <2>3 DEF Works, Ordering
  <2>6. ASSUME NEW v \in Workers, job'[v].pc = "provider"
        PROVE  opened'[job'[v].order] = 0
    <3>1. v # w /\ job[v].pc = "provider"
      BY <2>3, <2>6
    <3>2. Works(v) /\ Works(w) /\ job[v].order \in Orders
      BY <1>1, <3>1 DEF Works, Ordering, IInv, JobsOK, JobOK
    <3>3. job[v].order # o
      BY <3>1, <3>2 DEF KeysInv
    <3> QED
      BY <2>2, <2>3, <3>1, <3>2, <3>3 DEF KeysInv
  <2>7. \A x \in Orders : opened'[x] <= 1 /\ (orders'[x].status = "NONE" => opened'[x] = 0)
    BY <1>1, <2>2, <2>4 DEF KeysInv
  <2>8. \A v, x \in Workers :
          Works(v)' /\ Works(x)' /\ job'[v].order = job'[x].order => v = x
    BY <2>3, <2>5 DEF KeysInv
  <2> QED
    BY <1>1, <2>6, <2>7, <2>8 DEF KeysInv
<1> QED
  BY <1>2, <1>3 DEF AskProvider

LEMMA NextKeys == IInv /\ KeysInv /\ [Next]_vars => KeysInv'
<1> SUFFICES ASSUME IInv, KeysInv, [Next]_vars PROVE KeysInv'
  OBVIOUS
<1>1. ASSUME NEW w \in Workers, CheckProduct(w) \/ CheckEntitlement(w) \/ CheckPlan(w) \/ Abort(w)
      PROVE  KeysInv'
  <2>1. UNCHANGED <<orders, opened>>
    BY <1>1 DEF CheckProduct, CheckEntitlement, CheckPlan, Abort
  <2>2. NoNewWork
    BY <1>1, EndsNoWork, GoesNoWork DEF CheckProduct, CheckEntitlement, CheckPlan, Abort
  <2> QED
    BY <2>1, <2>2, KeysKept DEF KeysSame
<1>2. ASSUME NEW w \in Workers, Thank(w) \/ OpenOrder(w)
      PROVE  KeysInv'
  <2>1. UNCHANGED opened /\ End(w) /\ (At(w, "thank") \/ At(w, "open"))
    BY <1>2 DEF Thank, OpenOrder
  <2>2. job[w].order \in Orders /\ orders[job[w].order].status # "NONE"
    BY <2>1 DEF At, IInv, JobsOK, JobOK, Ordering
  <2>3. KeysSame
    <3>1. CASE UNCHANGED orders
      BY <3>1 DEF KeysSame
    <3>2. CASE OpenOrder(w)
      <4> DEFINE o == job[w].order
                 r == [orders[o] EXCEPT !.status = "PENDING", !.atProvider = TRUE]
      <4>1. orders' = [orders EXCEPT ![o] = r]
        BY <3>2 DEF OpenOrder
      <4>2. r.key = orders[o].key /\ r.status = "PENDING"
        BY <2>2 DEF IInv, RowsOK, OrderRow
      <4> QED
        BY <2>2, <4>1, <4>2 DEF KeysSame, IInv, RowsOK
    <3> QED
      BY <1>2, <3>1, <3>2 DEF Thank
  <2> QED
    BY <2>1, <2>3, EndsNoWork, KeysKept
<1>6. ASSUME NEW w \in Workers, Enroll(w)
      PROVE  KeysInv'
  <2>1. UNCHANGED <<orders, opened>> /\ Goto(w, "thank") /\ job[w].pc = "enroll"
    BY <1>6 DEF Enroll, At
  <2>2. NoNewWork
    BY <2>1 DEF IInv, JobsOK, JobOK, Job, Goto, NoNewWork, Works, Ordering
  <2> QED
    BY <2>1, <2>2, KeysKept DEF KeysSame
<1>3. ASSUME NEW w \in Workers, NEW u \in Users, NEW p \in Products,
             NEW c \in Coupons \cup {None}, NEW k \in Keys \cup {None},
             CreateOrder(w, u, p, c, k)
      PROVE  KeysInv'
  <2>1. UNCHANGED <<orders, opened>>
    BY <1>3 DEF CreateOrder
  <2>2. job' = job \/ job' = [job EXCEPT ![w] = Request("product", u, p, c, k, None)]
    BY <1>3 DEF CreateOrder
  <2>3. NoNewWork
    BY <2>2 DEF NoNewWork, Request, Works, Ordering, IInv, JobsOK
  <2> QED
    BY <2>1, <2>3, KeysKept DEF KeysSame
<1>4. ASSUME \/ \E o \in Orders : Pay(o) \/ Refund(o)
             \/ \E s \in Seats : Lapse(s)
             \/ \E p \in Products : Toggle(p)
      PROVE  KeysInv'
  <2>1. UNCHANGED <<opened, job>>
    BY <1>4 DEF Pay, Refund, Lapse, Toggle
  <2>2. KeysSame
    BY <1>4 DEF KeysSame, Pay, Refund, Lapse, Toggle, IInv, RowsOK, OrderRow
  <2>3. NoNewWork
    BY <2>1 DEF NoNewWork, Works
  <2> QED
    BY <2>1, <2>2, <2>3, KeysKept
<1>5. CASE UNCHANGED vars
  BY <1>5, KeysKept DEF vars, KeysSame, NoNewWork, Works
<1> QED
  BY <1>1, <1>2, <1>3, <1>4, <1>5, <1>6, ReserveTxKeys, AskProviderKeys DEF Next, Step

LEMMA KeysInvImplies == IInv /\ KeysInv => OnePaymentPerKey
<1> SUFFICES ASSUME IInv, KeysInv, NEW k \in Keys
             PROVE  /\ Cardinality({o \in WithKey(k) : opened[o] > 0}) <= 1
                    /\ \A o \in WithKey(k) : opened[o] <= 1
  BY DEF OnePaymentPerKey
<1> DEFINE S == {o \in WithKey(k) : opened[o] > 0}
<1>1. \A o, x \in S : o = x
  BY CheckoutAssumption DEF WithKey, Taken, KeysInv
<1>2. \A o \in WithKey(k) : opened[o] <= 1
  BY DEF WithKey, Taken, KeysInv
<1>3. CASE S = {}
  BY <1>2, <1>3, FS_EmptySet
<1>4. CASE \E o \in S : TRUE
  <2>1. PICK o \in S : TRUE
    BY <1>4
  <2>2. S = {o}
    BY <1>1, <2>1
  <2>3. Cardinality({o}) = 1
    BY FS_Singleton
  <2> QED
    BY <1>2, <2>2, <2>3
<1> QED
  BY <1>3, <1>4

\* For any keys, buyers, retries, doubled requests and crashes, one idempotency
\* key never opens two orders at the provider, nor one order twice.
THEOREM OnePaymentPerKeyHolds == Spec => []OnePaymentPerKey
<1>1. Init => KeysInv
  BY DEF Init, KeysInv, NoRow, Row, Works, Idle, Request, Ordering
<1>2. Spec => []KeysInv
  BY <1>1, InvariantHolds, NextKeys, PTL DEF Spec
<1> QED
  BY <1>2, InvariantHolds, KeysInvImplies, PTL

-----------------------------------------------------------------------------
(* A free course follows a plan. *)

Held(u) == \E q \in Plans : ent[<<u, q>>].order # None

\* Whoever has an order of a free course, or a request past the plan check, has
\* once held a plan; an active entitlement names the order that granted it.
PlanInv ==
  /\ FreeNeedsPlan
  /\ \A s \in Seats : ent[s].active => ent[s].order # None
  /\ \A w \in Workers :
       job[w].pc = "reserve" /\ job[w].product \in FreeCourses => Held(job[w].user)
  /\ \A o \in Orders :
       orders[o].status # "NONE" /\ orders[o].product \in FreeCourses => Held(orders[o].user)

\* No entitlement forgets that it was granted, nor becomes active ungranted.
EntKept ==
  \A s \in Seats :
    /\ ent[s].order # None => ent'[s].order # None
    /\ ent'[s].active => ent'[s].order # None

LEMMA HeldKept ==
  ASSUME EntKept, NEW u \in Users, Held(u)
  PROVE  Held(u)'
  BY CheckoutAssumption DEF EntKept, Held, Seats

\* No entitlement is granted, no order made and no request reaches "reserve".
LEMMA PlanKept ==
  ASSUME IInv, PlanInv, EntKept, RowsKept,
         \A s \in Seats : ent'[s].order = ent[s].order,
         \A w \in Workers : job'[w].pc = "reserve" =>
           /\ job[w].pc = "reserve"
           /\ job'[w].user = job[w].user /\ job'[w].product = job[w].product
  PROVE  PlanInv'
<1>1. ASSUME NEW u \in Users, NEW p \in FreeCourses, ent'[<<u, p>>].order # None
      PROVE  Held(u)'
  BY <1>1, HeldKept, CheckoutAssumption DEF PlanInv, FreeNeedsPlan, Held, Seats
<1>2. ASSUME NEW w \in Workers, job'[w].pc = "reserve", job'[w].product \in FreeCourses
      PROVE  job'[w].user \in Users /\ Held(job[w].user)' /\ job'[w].user = job[w].user
  BY <1>2, HeldKept DEF PlanInv, IInv, JobsOK, JobOK
<1>3. ASSUME NEW o \in Orders, orders'[o].status # "NONE", orders'[o].product \in FreeCourses
      PROVE  Held(orders[o].user)' /\ orders'[o].user = orders[o].user
  BY <1>3, HeldKept DEF PlanInv, IInv, RowsOK, RowOK, RowsKept, SameRow
<1> QED
  BY <1>1, <1>2, <1>3 DEF PlanInv, FreeNeedsPlan, EntKept, Held

\* An order's grant: a free course is granted to the buyer of its order.
LEMMA GrantPlan ==
  ASSUME IInv, PlanInv, RowsKept, NEW o \in Orders, orders[o].status # "NONE", Grant(o),
         \A w \in Workers : job'[w].pc = "reserve" => job'[w] = job[w]
  PROVE  PlanInv'
<1> DEFINE b == orders[o].user  x == orders[o].product
<1>1. b \in Users /\ x \in Products /\ <<b, x>> \in Seats
  BY DEF IInv, RowsOK, RowOK, Seats
<1>2. \A s \in Seats : ent'[s] = IF s = <<b, x>> THEN [active |-> TRUE, order |-> o] ELSE ent[s]
  BY <1>1 DEF Grant, IInv, RestOK
<1>3. EntKept
  BY <1>2, CheckoutAssumption DEF EntKept, PlanInv
<1>4. ASSUME NEW u \in Users, NEW p \in FreeCourses, ent'[<<u, p>>].order # None
      PROVE  Held(u)'
  <2>1. <<u, p>> \in Seats
    BY CheckoutAssumption DEF Seats
  <2>2. CASE <<u, p>> = <<b, x>>
    <3>1. u = b /\ x \in FreeCourses
      BY <2>2
    <3> QED
      BY <1>3, <3>1, HeldKept DEF PlanInv
  <2>3. CASE <<u, p>> # <<b, x>>
    BY <1>2, <1>3, <1>4, <2>1, <2>3, HeldKept DEF PlanInv, FreeNeedsPlan, Held
  <2> QED
    BY <2>2, <2>3
<1>5. ASSUME NEW w \in Workers, job'[w].pc = "reserve", job'[w].product \in FreeCourses
      PROVE  Held(job[w].user)' /\ job'[w] = job[w]
  BY <1>3, <1>5, HeldKept DEF PlanInv, IInv, JobsOK, JobOK
<1>6. ASSUME NEW y \in Orders, orders'[y].status # "NONE", orders'[y].product \in FreeCourses
      PROVE  Held(orders[y].user)' /\ orders'[y].user = orders[y].user
  BY <1>3, <1>6, HeldKept DEF PlanInv, IInv, RowsOK, RowOK, RowsKept, SameRow
<1> QED
  BY <1>3, <1>4, <1>5, <1>6 DEF PlanInv, FreeNeedsPlan, EntKept, Held

LEMMA CheckPlanPlan ==
  ASSUME IInv, PlanInv, NEW w \in Workers, CheckPlan(w)
  PROVE  PlanInv'
<1>1. UNCHANGED <<orders, ent>>
  BY DEF CheckPlan, world
<1>2. CASE End(w)
  <2>1. RowsKept /\ EntKept
    BY <1>1, RowsUnchanged DEF IInv, EntKept, PlanInv
  <2>2. \A v \in Workers : job'[v].pc = "reserve" => job'[v] = job[v]
    BY <1>2 DEF End, Idle, Request, IInv, JobsOK
  <2> QED
    BY <1>1, <2>1, <2>2, PlanKept
<1>3. CASE Goto(w, "reserve") /\ (job[w].product \in FreeCourses => HasPlan(job[w].user))
  <2>1. job[w].user \in Users
    BY DEF CheckPlan, At, IInv, JobsOK, JobOK
  <2>2. job[w].product \in FreeCourses => Held(job[w].user)
    BY <1>3, <2>1, CheckoutAssumption DEF HasPlan, Held, PlanInv, Seats
  <2>3. \A v \in Workers :
          /\ job'[v].user = job[v].user /\ job'[v].product = job[v].product
          /\ job'[v].pc = IF v = w THEN "reserve" ELSE job[v].pc
    BY <1>3 DEF Goto, IInv, JobsOK, Job
  <2>4. \A v \in Workers :
          job'[v].pc = "reserve" /\ job'[v].product \in FreeCourses => Held(job'[v].user)
    BY <2>2, <2>3 DEF PlanInv
  <2> QED
    BY <1>1, <2>4 DEF PlanInv, FreeNeedsPlan, Held
<1> QED
  BY <1>2, <1>3 DEF CheckPlan

LEMMA ReserveTxPlan ==
  ASSUME IInv, PlanInv, NEW w \in Workers, ReserveTx(w)
  PROVE  PlanInv'
<1> DEFINE u == job[w].user  p == job[w].product  c == job[w].coupon  k == job[w].key
           row == Row(CreatedStatus(Free(p, c)), u, p, c, k)
<1>1. UNCHANGED ent /\ job[w].pc = "reserve"
  BY DEF ReserveTx, world, At
<1>2. \A v \in Workers : job'[v].pc = "reserve" => job'[v] = job[v]
  BY DEF ReserveTx, End, Idle, Request, IInv, JobsOK
<1>3. \A o \in Orders : orders'[o] = orders[o] \/ orders'[o] = row
  BY DEF ReserveTx, IInv, RowsOK
<1>4. row.user = u /\ row.product = p
  BY DEF Row
<1>5. p \in FreeCourses => Held(u)
  BY <1>1 DEF PlanInv
<1>6. \A o \in Orders :
        orders'[o].status # "NONE" /\ orders'[o].product \in FreeCourses => Held(orders'[o].user)
  BY <1>3, <1>4, <1>5 DEF PlanInv
<1>7. \A v \in Workers :
        job'[v].pc = "reserve" /\ job'[v].product \in FreeCourses => Held(job'[v].user)
  BY <1>2 DEF PlanInv
<1> QED
  BY <1>1, <1>6, <1>7 DEF PlanInv, FreeNeedsPlan, Held

LEMMA NextPlan == IInv /\ PlanInv /\ [Next]_vars => PlanInv'
<1> SUFFICES ASSUME IInv, PlanInv, [Next]_vars PROVE PlanInv'
  OBVIOUS
<1>1. ASSUME NEW w \in Workers,
             \/ CheckProduct(w) \/ CheckEntitlement(w) \/ Abort(w)
             \/ AskProvider(w) \/ Thank(w) \/ OpenOrder(w)
      PROVE  PlanInv'
  <2>1. UNCHANGED ent
    BY <1>1 DEF CheckProduct, CheckEntitlement, Abort, AskProvider, Thank, OpenOrder, world
  <2>2. RowsKept
    <3>1. CASE UNCHANGED orders
      BY <3>1, RowsUnchanged DEF IInv
    <3>2. CASE OpenOrder(w)
      <4> DEFINE o == job[w].order
                 r == [orders[o] EXCEPT !.status = "PENDING", !.atProvider = TRUE]
      <4>1. o \in Orders /\ orders[o].status # "NONE" /\ orders' = [orders EXCEPT ![o] = r]
        BY <3>2 DEF OpenOrder, At, IInv, JobsOK, JobOK, Ordering
      <4>2. orders[o] \in OrderRow
        BY <4>1 DEF IInv, RowsOK
      <4>3. SameRow(orders[o], r)
        BY <4>1, <4>2 DEF SameRow, OrderRow, Statuses
      <4> QED
        BY <4>1, <4>3, RowUpdated DEF IInv
    <3> QED
      BY <1>1, <3>1, <3>2 DEF CheckProduct, CheckEntitlement, Abort, AskProvider, Thank
  <2>3. \A v \in Workers : job'[v].pc = "reserve" => job'[v] = job[v]
    <3>1. End(w) \/ (\E q \in {"entitlement", "plan", "open"} : Goto(w, q))
      BY <1>1 DEF CheckProduct, CheckEntitlement, Abort, AskProvider, Thank, OpenOrder
    <3> QED
      BY <3>1 DEF End, Goto, Idle, Request, IInv, JobsOK, Job
  <2>4. EntKept
    BY <2>1 DEF EntKept, PlanInv
  <2> QED
    BY <2>1, <2>2, <2>3, <2>4, PlanKept
<1>2. ASSUME NEW w \in Workers, Enroll(w)
      PROVE  PlanInv'
  <2>1. RowsKept /\ Grant(job[w].order)
    BY <1>2, RowsUnchanged DEF Enroll, IInv
  <2>2. job[w].order \in Orders /\ orders[job[w].order].status # "NONE"
    BY <1>2 DEF Enroll, At, IInv, JobsOK, JobOK, Ordering
  <2>3. \A v \in Workers : job'[v].pc = "reserve" => job'[v] = job[v]
    BY <1>2 DEF Enroll, Goto, IInv, JobsOK, JobOK, Job
  <2> QED
    BY <2>1, <2>2, <2>3, GrantPlan
<1>3. ASSUME NEW w \in Workers, NEW u \in Users, NEW p \in Products,
             NEW c \in Coupons \cup {None}, NEW k \in Keys \cup {None},
             CreateOrder(w, u, p, c, k)
      PROVE  PlanInv'
  <2>1. UNCHANGED <<orders, ent>>
    BY <1>3 DEF CreateOrder, world
  <2>2. job' = job \/ job' = [job EXCEPT ![w] = Request("product", u, p, c, k, None)]
    BY <1>3 DEF CreateOrder
  <2>3. \A v \in Workers : job'[v].pc = "reserve" => job'[v] = job[v]
    BY <2>2 DEF Request, IInv, JobsOK
  <2>4. RowsKept /\ EntKept
    BY <2>1, RowsUnchanged DEF IInv, EntKept, PlanInv
  <2> QED
    BY <2>1, <2>3, <2>4, PlanKept
<1>4. ASSUME NEW o \in Orders, Pay(o)
      PROVE  PlanInv'
  <2> DEFINE r == [orders[o] EXCEPT !.status = "PAID"]
  <2>1. /\ orders[o].status = "PENDING" /\ Grant(o) /\ UNCHANGED job
        /\ orders' = [orders EXCEPT ![o] = r]
    BY <1>4 DEF Pay
  <2>2. SameRow(orders[o], r)
    BY <2>1 DEF SameRow, IInv, RowsOK, OrderRow, Statuses
  <2>3. RowsKept
    BY <2>1, <2>2, RowUpdated DEF IInv
  <2> QED
    BY <2>1, <2>3, GrantPlan
<1>5. ASSUME NEW o \in Orders, Refund(o)
      PROVE  PlanInv'
  <2> DEFINE r == [orders[o] EXCEPT !.status = "REFUNDED_FULL"]
  <2>1. /\ orders[o].status = "PAID" /\ UNCHANGED job
        /\ orders' = [orders EXCEPT ![o] = r]
        /\ ent' = [s \in Seats |-> [ent[s] EXCEPT !.active = @ /\ ent[s].order # o]]
    BY <1>5 DEF Refund
  <2>2. SameRow(orders[o], r)
    BY <2>1 DEF SameRow, IInv, RowsOK, OrderRow, Statuses
  <2>3. RowsKept
    BY <2>1, <2>2, RowUpdated DEF IInv
  <2>4. ASSUME NEW s \in Seats
        PROVE  ent'[s].order = ent[s].order /\ (ent'[s].active => ent[s].active)
    BY <2>1, <2>4 DEF IInv, RestOK
  <2>5. EntKept
    BY <2>4 DEF EntKept, PlanInv
  <2> QED
    BY <2>1, <2>3, <2>4, <2>5, PlanKept
<1>6. ASSUME (\E s \in Seats : Lapse(s)) \/ (\E p \in Products : Toggle(p)) \/ UNCHANGED vars
      PROVE  PlanInv'
  <2>1. UNCHANGED <<orders, job>>
    BY <1>6 DEF Lapse, Toggle, vars
  <2>2. ASSUME NEW s \in Seats
        PROVE  ent'[s].order = ent[s].order /\ (ent'[s].active => ent[s].active)
    BY <1>6, <2>2 DEF Lapse, Toggle, vars, world, IInv, RestOK
  <2>3. RowsKept /\ EntKept
    BY <2>1, <2>2, RowsUnchanged DEF IInv, EntKept, PlanInv
  <2> QED
    BY <2>1, <2>2, <2>3, PlanKept
<1> QED
  BY <1>1, <1>2, <1>3, <1>4, <1>5, <1>6, CheckPlanPlan, ReserveTxPlan DEF Next, Step

-----------------------------------------------------------------------------
(* A coupon that takes off the whole price is used within perUserLimit. *)

Unpaid == {"CREATED", "PENDING"}
Charging == {"provider", "open"}

\* An order with such a coupon is never one that has still to be paid.
CouponInv ==
  /\ FreeCouponPerUser
  /\ \A o \in Orders : orders[o].status \in Unpaid => orders[o].coupon \notin FullDiscount
  /\ \A w \in Workers :
       job[w].pc \in Charging => orders[job[w].order].coupon \notin FullDiscount

LEMMA UsedFinite ==
  ASSUME NEW c, NEW u
  PROVE  IsFiniteSet(Used(c, u)) /\ Cardinality(Used(c, u)) \in Nat
<1>1. Used(c, u) \in SUBSET Orders
  BY DEF Used, Redeeming
<1>2. IsFiniteSet(Used(c, u))
  BY <1>1, FS_Subset, CheckoutAssumption
<1> QED
  BY <1>2, FS_CardinalityType

\* No order made, none paid that carries such a coupon, none newly charging.
LEMMA CouponKept ==
  ASSUME IInv, CouponInv, RowsKept,
         \A o \in Orders :
           /\ orders'[o].status = "PAID" =>
                orders[o].status = "PAID" \/ orders[o].coupon \notin FullDiscount
           /\ orders'[o].status \in Unpaid => orders[o].coupon \notin FullDiscount,
         \A w \in Workers : job'[w].pc \in Charging =>
           job[w].pc \in Charging /\ job'[w].order = job[w].order
  PROVE  CouponInv'
<1>1. ASSUME NEW c \in FullDiscount, NEW u \in Users
      PROVE  Cardinality(Used(c, u)') <= PerUserLimit[c]
  <2>1. Used(c, u)' \in SUBSET Used(c, u)
    BY DEF Used, Redeeming, RowsKept, SameRow
  <2>2. Cardinality(Used(c, u)') <= Cardinality(Used(c, u))
    BY <2>1, UsedFinite, FS_Subset
  <2>3. Cardinality(Used(c, u)') \in Nat
    BY <2>1, UsedFinite, FS_Subset, FS_CardinalityType
  <2>4. Cardinality(Used(c, u)) <= PerUserLimit[c] /\ PerUserLimit[c] \in Nat
    BY CheckoutAssumption DEF CouponInv, FreeCouponPerUser
  <2> QED
    BY <2>2, <2>3, <2>4, UsedFinite
<1>2. \A o \in Orders : orders'[o].status \in Unpaid => orders'[o].coupon \notin FullDiscount
  BY DEF RowsKept, SameRow
<1>3. ASSUME NEW w \in Workers, job'[w].pc \in Charging
      PROVE  orders'[job'[w].order].coupon \notin FullDiscount
  <2>1. job[w].pc \in Charging /\ job'[w].order = job[w].order /\ job[w].order \in Orders
    BY <1>3 DEF IInv, JobsOK, JobOK, Ordering, Charging
  <2> QED
    BY <2>1 DEF CouponInv, RowsKept, SameRow
<1> QED
  BY <1>1, <1>2, <1>3 DEF CouponInv, FreeCouponPerUser

LEMMA ReserveTxCoupon ==
  ASSUME IInv, CouponInv, NEW w \in Workers, ReserveTx(w)
  PROVE  CouponInv'
<1> DEFINE u == job[w].user  p == job[w].product  c == job[w].coupon  k == job[w].key
<1>1. CASE End(w) /\ UNCHANGED orders
  <2>1. RowsKept
    BY <1>1, RowsUnchanged DEF IInv
  <2>2. \A v \in Workers : job'[v].pc \in Charging => job'[v] = job[v]
    BY <1>1 DEF End, Idle, Request, Charging, IInv, JobsOK
  <2> QED
    BY <1>1, <2>1, <2>2, CouponKept DEF CouponInv
<1>2. CASE /\ CouponHolds(u, p, c)
           /\ \E o \in Orders \ Taken :
                /\ orders' = [orders EXCEPT ![o] = Row(CreatedStatus(Free(p, c)), u, p, c, k)]
                /\ job' = [job EXCEPT ![w] =
                     Request(IF Free(p, c) THEN "enroll" ELSE "provider", u, p, c, k, o)]
  <2> DEFINE row == Row(CreatedStatus(Free(p, c)), u, p, c, k)
             req(o) == Request(IF Free(p, c) THEN "enroll" ELSE "provider", u, p, c, k, o)
  <2>1. PICK o \in Orders \ Taken :
          orders' = [orders EXCEPT ![o] = row] /\ job' = [job EXCEPT ![w] = req(o)]
    BY <1>2
  <2>2. \A x \in Orders : orders'[x] = IF x = o THEN row ELSE orders[x]
    BY <2>1 DEF IInv, RowsOK
  <2>3. \A v \in Workers : job'[v] = IF v = w THEN req(o) ELSE job[v]
    BY <2>1 DEF IInv, JobsOK
  <2>4. orders[o].status = "NONE" /\ o \in Orders
    BY <2>1 DEF Taken
  <2>5. row.coupon = c /\ row.user = u /\ (row.status \in Unpaid => c \notin FullDiscount)
    BY DEF Row, CreatedStatus, Free, Unpaid
  <2>6. req(o).order = o /\ (req(o).pc \in Charging => c \notin FullDiscount)
    BY DEF Request, Free, Charging
  <2>7. ASSUME NEW d \in FullDiscount, NEW b \in Users
        PROVE  Cardinality(Used(d, b)') <= PerUserLimit[d]
    <3>1. Cardinality(Used(d, b)) <= PerUserLimit[d] /\ PerUserLimit[d] \in Nat
      BY CheckoutAssumption DEF CouponInv, FreeCouponPerUser
    <3>2. CASE d # c \/ b # u
      <4>1. Used(d, b)' = Used(d, b)
        BY <2>2, <2>4, <2>5, <3>2 DEF Used, Redeeming
      <4> QED
        BY <3>1, <4>1
    <3>3. CASE d = c /\ b = u
      <4>1. ~LimitReached(d, b)
        BY <1>2, <3>3, CheckoutAssumption DEF CouponHolds
      <4>2. Cardinality(Used(d, b)) < PerUserLimit[d]
        BY <3>1, <4>1, UsedFinite DEF LimitReached
      <4>3. Used(d, b)' \in SUBSET (Used(d, b) \cup {o})
        BY <2>2 DEF Used, Redeeming
      <4>4. /\ IsFiniteSet(Used(d, b) \cup {o})
            /\ Cardinality(Used(d, b) \cup {o}) <= Cardinality(Used(d, b)) + 1
        <5>1. IsFiniteSet(Used(d, b)) /\ Cardinality(Used(d, b)) \in Nat
          BY UsedFinite
        <5>2. /\ IsFiniteSet(Used(d, b) \cup {o})
              /\ Cardinality(Used(d, b) \cup {o}) =
                   IF o \in Used(d, b) THEN Cardinality(Used(d, b))
                                      ELSE Cardinality(Used(d, b)) + 1
          BY <5>1, FS_AddElement
        <5> QED
          BY <5>1, <5>2
      <4>5. /\ Cardinality(Used(d, b)') <= Cardinality(Used(d, b) \cup {o})
            /\ Cardinality(Used(d, b) \cup {o}) \in Nat /\ Cardinality(Used(d, b)') \in Nat
        BY <4>3, <4>4, FS_Subset, FS_CardinalityType
      <4> QED
        BY <3>1, <4>2, <4>4, <4>5, UsedFinite
    <3> QED
      BY <3>2, <3>3
  <2>8. \A x \in Orders :
          orders'[x].status \in Unpaid => orders'[x].coupon \notin FullDiscount
    BY <2>2, <2>5 DEF CouponInv
  <2>9. ASSUME NEW v \in Workers, job'[v].pc \in Charging
        PROVE  orders'[job'[v].order].coupon \notin FullDiscount
    <3>1. CASE v = w
      BY <2>2, <2>3, <2>4, <2>5, <2>6, <2>9, <3>1
    <3>2. CASE v # w
      <4>1. job'[v] = job[v] /\ job[v].order \in Orders /\ job[v].order # o
        BY <2>3, <2>4, <2>9, <3>2 DEF IInv, JobsOK, JobOK, Ordering, Charging
      <4> QED
        BY <2>2, <2>9, <4>1 DEF CouponInv
    <3> QED
      BY <3>1, <3>2
  <2> QED
    BY <2>7, <2>8, <2>9 DEF CouponInv, FreeCouponPerUser
<1> QED
  BY <1>1, <1>2 DEF ReserveTx

LEMMA NextCoupon == IInv /\ CouponInv /\ [Next]_vars => CouponInv'
<1> SUFFICES ASSUME IInv, CouponInv, [Next]_vars PROVE CouponInv'
  OBVIOUS
<1>1. ASSUME NEW w \in Workers,
             \/ CheckProduct(w) \/ CheckEntitlement(w) \/ CheckPlan(w) \/ Abort(w)
             \/ AskProvider(w) \/ Enroll(w) \/ Thank(w)
      PROVE  CouponInv'
  <2>1. UNCHANGED orders
    BY <1>1 DEF CheckProduct, CheckEntitlement, CheckPlan, Abort, AskProvider, Enroll, Thank
  <2>2. RowsKept
    BY <2>1, RowsUnchanged DEF IInv
  <2>3. \A v \in Workers : job'[v].pc \in Charging =>
          job[v].pc \in Charging /\ job'[v].order = job[v].order
    <3>1. CASE End(w) \/ (\E q \in {"entitlement", "plan", "reserve", "thank"} : Goto(w, q))
      BY <3>1 DEF End, Goto, Idle, Request, Charging, IInv, JobsOK, Job
    <3>2. CASE Goto(w, "open") /\ job[w].pc = "provider"
      BY <3>2 DEF Goto, Charging, IInv, JobsOK, Job
    <3> QED
      BY <1>1, <3>1, <3>2
      DEF CheckProduct, CheckEntitlement, CheckPlan, Abort, AskProvider, Enroll, Thank, At
  <2> QED
    BY <2>1, <2>2, <2>3, CouponKept DEF CouponInv
<1>2. ASSUME NEW w \in Workers, OpenOrder(w)
      PROVE  CouponInv'
  <2> DEFINE o == job[w].order
             r == [orders[o] EXCEPT !.status = "PENDING", !.atProvider = TRUE]
  <2>1. /\ job[w].pc = "open" /\ o \in Orders /\ orders[o].status # "NONE"
        /\ orders' = [orders EXCEPT ![o] = r] /\ End(w)
    BY <1>2 DEF OpenOrder, At, IInv, JobsOK, JobOK, Ordering
  <2>2. orders[o] \in OrderRow
    BY <2>1 DEF IInv, RowsOK
  <2>3. SameRow(orders[o], r) /\ r.status = "PENDING"
    BY <2>1, <2>2 DEF SameRow, OrderRow, Statuses
  <2>4. RowsKept
    BY <2>1, <2>3, RowUpdated DEF IInv
  <2>5. orders[o].coupon \notin FullDiscount
    BY <2>1 DEF CouponInv, Charging
  <2>6. \A x \in Orders : orders'[x] = IF x = o THEN r ELSE orders[x]
    BY <2>1 DEF IInv, RowsOK
  <2>7. \A v \in Workers : job'[v].pc \in Charging => job'[v] = job[v]
    BY <2>1 DEF End, Idle, Request, Charging, IInv, JobsOK
  <2> QED
    BY <2>3, <2>4, <2>5, <2>6, <2>7, CouponKept DEF CouponInv
<1>3. ASSUME NEW w \in Workers, NEW u \in Users, NEW p \in Products,
             NEW c \in Coupons \cup {None}, NEW k \in Keys \cup {None},
             CreateOrder(w, u, p, c, k)
      PROVE  CouponInv'
  <2>1. UNCHANGED orders
    BY <1>3 DEF CreateOrder
  <2>2. job' = job \/ job' = [job EXCEPT ![w] = Request("product", u, p, c, k, None)]
    BY <1>3 DEF CreateOrder
  <2>3. \A v \in Workers : job'[v].pc \in Charging => job'[v] = job[v]
    BY <2>2 DEF Request, Charging, IInv, JobsOK
  <2>4. RowsKept
    BY <2>1, RowsUnchanged DEF IInv
  <2> QED
    BY <2>1, <2>3, <2>4, CouponKept DEF CouponInv
<1>4. ASSUME NEW o \in Orders, NEW s \in {"PAID", "REFUNDED_FULL"},
             orders' = [orders EXCEPT ![o].status = s], UNCHANGED job,
             orders[o].status # "NONE",
             s = "PAID" => orders[o].status \in Unpaid
      PROVE  CouponInv'
  <2> DEFINE r == [orders[o] EXCEPT !.status = s]
  <2>1. SameRow(orders[o], r) /\ r.status = s
    BY <1>4 DEF SameRow, IInv, RowsOK, OrderRow, Statuses
  <2>2. RowsKept
    BY <1>4, <2>1, RowUpdated DEF IInv
  <2>3. \A x \in Orders : orders'[x] = IF x = o THEN r ELSE orders[x]
    BY <1>4 DEF IInv, RowsOK
  <2>4. s \notin Unpaid
    BY DEF Unpaid
  <2> QED
    BY <1>4, <2>1, <2>2, <2>3, <2>4, CouponKept DEF CouponInv
<1>5. ASSUME NEW o \in Orders, Pay(o) \/ Refund(o)
      PROVE  CouponInv'
  BY <1>4, <1>5 DEF Pay, Refund, Unpaid
<1>6. ASSUME (\E s \in Seats : Lapse(s)) \/ (\E p \in Products : Toggle(p)) \/ UNCHANGED vars
      PROVE  CouponInv'
  <2>1. UNCHANGED <<orders, job>>
    BY <1>6 DEF Lapse, Toggle, vars
  <2>2. RowsKept
    BY <2>1, RowsUnchanged DEF IInv
  <2> QED
    BY <2>1, <2>2, CouponKept DEF CouponInv
<1> QED
  BY <1>1, <1>2, <1>3, <1>5, <1>6, ReserveTxCoupon DEF Next, Step

LEMMA InitFree == Init => PlanInv /\ CouponInv
<1> SUFFICES ASSUME Init PROVE PlanInv /\ CouponInv
  OBVIOUS
<1>1. PlanInv
  BY CheckoutAssumption
  DEF Init, PlanInv, FreeNeedsPlan, NoRow, Row, Idle, Request, Seats
<1>2. ASSUME NEW c \in FullDiscount, NEW u \in Users
      PROVE  Cardinality(Used(c, u)) <= PerUserLimit[c]
  <2>1. Used(c, u) = {}
    BY DEF Init, NoRow, Row, Used, Redeeming
  <2>2. PerUserLimit[c] \in Nat
    BY CheckoutAssumption
  <2> QED
    BY <2>1, <2>2, FS_EmptySet
<1> QED
  BY <1>1, <1>2
  DEF Init, CouponInv, FreeCouponPerUser, NoRow, Row, Idle, Request, Unpaid, Charging

\* For any buyers, products and coupons, whatever races, lapses or is refunded,
\* nobody is enrolled in a free course without having held a plan, and nobody
\* uses a coupon that takes off the whole price beyond its perUserLimit.
THEOREM FreeIsEarnedHolds == Spec => []FreeIsEarned
<1>1. Spec => []PlanInv
  BY InitFree, InvariantHolds, NextPlan, PTL DEF Spec
<1>2. Spec => []CouponInv
  BY InitFree, InvariantHolds, NextCoupon, PTL DEF Spec
<1>3. PlanInv /\ CouponInv => FreeIsEarned
  BY DEF PlanInv, CouponInv, FreeIsEarned
<1> QED
  BY <1>1, <1>2, <1>3, PTL
=============================================================================
