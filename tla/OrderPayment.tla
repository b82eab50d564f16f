---------------------------- MODULE OrderPayment ----------------------------
(***************************************************************************)
(* The life of a student's order after checkout: payment confirmation by   *)
(* the browser's /verify call and by the provider's webhooks, the grant of *)
(* the entitlement, the settlement split to the owning institution, and    *)
(* refunds.  Every request runs in one of the concurrent slots Workers;    *)
(* one action is one database statement, one transaction or one provider   *)
(* call of a handler, so that handlers interleave wherever the code awaits.*)
(*                                                                         *)
(* Source: apps/api/src/payments/payments.service.ts,                      *)
(* entitlement.service.ts and settlements.service.ts.                      *)
(***************************************************************************)
EXTENDS Integers, FiniteSets

CONSTANTS
  Orders,        \* orders that checkout has handed to the payment provider
  Seats,         \* (user, product) pairs; at most one entitlement row each
  SeatOf,        \* the seat an order buys
  Owned,         \* orders for a course of an institution
  Marketplace,   \* those whose institution is onboarded for payouts
  Workers,       \* concurrent request slots of the API
  RefundIds,     \* primary keys of refund rows
  Price,         \* payment.amountMinor
  Ceiling,       \* REFUND_AUTO_APPROVAL_CEILING_MINOR
  Budget,        \* bound: how many requests of each kind (and faults) occur
  None           \* SQL NULL

Kinds == {"verify", "refund", "request", "decide", "retry", "admin", "fault"}
EventTypes == {"payment.captured", "order.paid"}
Events == Orders \X EventTypes

ASSUME OrderPaymentAssumption ==
  /\ Marketplace \subseteq Owned /\ Owned \subseteq Orders
  /\ SeatOf \in [Orders -> Seats]
  /\ Price \in Nat \ {0}
  /\ Ceiling \in Nat
  /\ Budget \in [Kinds -> Nat]
  /\ None \notin Orders \cup Events \cup RefundIds

VARIABLES
  order,      \* order.status
  payment,    \* payment.status of the order's single payment row
  ent,        \* the entitlement row of each seat
  transfer,   \* transfer.status of the order, "NONE" when there is no row
  reserve,    \* instituteLinkedAccount.reserveHeldMinor, in held reserves
  refunds,    \* the refund rows
  seen,       \* payment_events rows (unique provider event id)
  processed,  \* payment_events rows whose processedAt is set
  captured,   \* provider side: orders whose money has been taken
  acked,      \* provider side: events answered with a 2xx
  payouts,    \* provider side: transfers made, by markPaid and by retry
  purchases,  \* "Purchase" conversion events sent
  refunded,   \* history: orders some refund transaction has committed for
  job,        \* the request running in each slot
  budget      \* what is left of Budget

sale    == <<order, payment>>
events  == <<seen, processed, acked>>
split   == <<transfer, reserve, payouts>>
refund  == <<refunds, refunded>>
vars    == <<sale, ent, events, split, refund, captured, purchases, job, budget>>

OrderStatus    == {"PENDING", "PAID", "REFUNDED_PARTIAL", "REFUNDED_FULL"}
PaymentStatus  == {"CREATED", "PAID", "REFUNDED_PARTIAL", "REFUNDED_FULL"}
EntStatus      == {"NONE", "ACTIVE", "REVOKED", "REFUNDED"}
TransferStatus == {"NONE", "PROCESSED", "ON_HOLD", "REVERSED"}
RefundStatus   == {"NONE", "PENDING_APPROVAL", "PROCESSED", "REJECTED"}

Entitlement == [status : EntStatus, order : Orders \cup {None},
                source : {"PURCHASE", "ADMIN"}]
RefundRow   == [status : RefundStatus, order : Orders \cup {None}, amount : Nat]
Payout      == [sale : Nat, retry : Nat]

\* Where a request stands: the statement it executes next.
Confirming == {"lookup", "confirm"}
Selling    == {"grant", "purchase", "split", "recordSplit"}
Refunding  == {"refundCheck", "refundTx", "reverse", "release", "recordRefund"}
Retrying   == {"retryPay", "retrySave"}
Pcs == {"idle", "finish", "decide", "recordRequest", "recordReject"}
         \cup Confirming \cup Selling \cup Refunding \cup Retrying

Job == [pc : Pcs, order : Orders \cup {None}, event : Events \cup {None},
        amount : Nat, row : RefundIds \cup {None}, byHead : BOOLEAN,
        paidOut : BOOLEAN]

Request(p, o, e, a, r, head) ==
  [pc |-> p, order |-> o, event |-> e, amount |-> a, row |-> r,
   byHead |-> head, paidOut |-> FALSE]

Idle == Request("idle", None, None, 0, None, FALSE)

TypeOK ==
  /\ order \in [Orders -> OrderStatus]
  /\ payment \in [Orders -> PaymentStatus]
  /\ ent \in [Seats -> Entitlement]
  /\ transfer \in [Orders -> TransferStatus]
  /\ reserve \in Int
  /\ refunds \in [RefundIds -> RefundRow]
  /\ seen \subseteq Events
  /\ processed \subseteq Events
  /\ captured \subseteq Orders
  /\ acked \subseteq Events
  /\ payouts \in [Orders -> Payout]
  /\ purchases \in [Orders -> Nat]
  /\ refunded \subseteq Orders
  /\ job \in [Workers -> Job]
  /\ budget \in [Kinds -> Nat]

\* Checkout has left every order PENDING at the provider, with one payment row.
Init ==
  /\ order = [o \in Orders |-> "PENDING"]
  /\ payment = [o \in Orders |-> "CREATED"]
  /\ ent = [s \in Seats |-> [status |-> "NONE", order |-> None, source |-> "PURCHASE"]]
  /\ transfer = [o \in Orders |-> "NONE"]
  /\ reserve = 0
  /\ refunds = [r \in RefundIds |-> [status |-> "NONE", order |-> None, amount |-> 0]]
  /\ seen = {} /\ processed = {} /\ captured = {} /\ acked = {}
  /\ payouts = [o \in Orders |-> [sale |-> 0, retry |-> 0]]
  /\ purchases = [o \in Orders |-> 0]
  /\ refunded = {}
  /\ job = [w \in Workers |-> Idle]
  /\ budget = Budget

-----------------------------------------------------------------------------
At(w, p) == job[w].pc = p
Goto(w, p) == job' = [job EXCEPT ![w].pc = p]
Free(w) == job[w] = Idle
Start(w, request) == job' = [job EXCEPT ![w] = request]
Spend(k) == budget[k] > 0 /\ budget' = [budget EXCEPT ![k] = @ - 1]

\* The end of markPaid: a webhook still has its processedAt to write.
Return(w) ==
  IF job[w].event = None THEN job' = [job EXCEPT ![w] = Idle]
                         ELSE Goto(w, "finish")

(* Mutated forms: bugs this code could have had, each caught by a property. *)

ConfirmTxUnlocked(w) ==
  /\ At(w, "confirm")
  /\ order' = [order EXCEPT ![job[w].order] = "PAID"]
  /\ payment' = [payment EXCEPT ![job[w].order] = "PAID"]
  /\ Goto(w, "grant")
  /\ UNCHANGED <<ent, events, split, refund, captured, purchases, budget>>

VerifyUnsigned(w, o) ==
  /\ Free(w) /\ Spend("verify") /\ order[o] # "PAID"
  /\ Start(w, Request("confirm", o, None, 0, None, FALSE))
  /\ UNCHANGED <<sale, ent, events, split, refund, captured, purchases>>

LookupOrderCreatedOnly(w) ==
  /\ At(w, "lookup") /\ Goto(w, "finish")
  /\ UNCHANGED <<sale, ent, events, split, refund, captured, purchases, budget>>

DuplicateEventFails(e) ==
  /\ e \in processed /\ e \notin acked
  /\ acked' = acked \cup {e}
  /\ UNCHANGED <<sale, ent, seen, processed, split, refund, captured, purchases, job, budget>>

RetryTransferUnchecked(w, o) ==
  /\ Free(w) /\ Spend("retry")
  /\ transfer[o] # "NONE" /\ payment[o] = "PAID"
  /\ Start(w, Request("retryPay", o, None, 0, None, FALSE))
  /\ UNCHANGED <<sale, ent, events, split, refund, captured, purchases>>


ReverseTransferHeld(w) ==
  /\ At(w, "reverse")
  /\ Goto(w, IF transfer[job[w].order] = "ON_HOLD" THEN "release" ELSE "recordRefund")
  /\ UNCHANGED <<sale, ent, events, split, refund, captured, purchases, budget>>

RevokedBySeat(o) == {SeatOf[o]}

-----------------------------------------------------------------------------
\* applyRefundEffects and requestRefund: only paid payments can be refunded.
Refundable(o) == payment[o] \in {"PAID", "REFUNDED_PARTIAL"}

\* applyRefundEffects: full is decided by the amount of this refund alone.
RefundedStatus(a) == IF a >= Price THEN "REFUNDED_FULL" ELSE "REFUNDED_PARTIAL"

\* The entitlements a full refund of o revokes: updateMany where orderId = o.
Revoked(o) == {s \in Seats : ent[s].order = o}

\* approveRefund and rejectRefund: the row must be PENDING_APPROVAL.
AwaitsApproval(r) == refunds[r].status = "PENDING_APPROVAL"

\* createTransferForOrder: only a transfer that moved money holds a reserve.
Held(paidOut) == IF paidOut THEN 1 ELSE 0

-----------------------------------------------------------------------------
(* The provider and the two ways a payment is confirmed. *)

\* Razorpay takes the money; from here on a valid signature exists for the
\* order, and both of its events may be delivered, in any order, repeatedly.
Capture(o) ==
  /\ o \notin captured
  /\ captured' = captured \cup {o}
  /\ UNCHANGED <<sale, ent, events, split, refund, purchases, job, budget>>

\* verify: the order is read, an order already PAID answers alreadyProcessed,
\* the signature is checked against the captured payment.
Verify(w, o) ==
  /\ Free(w) /\ Spend("verify")
  /\ order[o] # "PAID"
  /\ o \in captured
  /\ Start(w, Request("confirm", o, None, 0, None, FALSE))
  /\ UNCHANGED <<sale, ent, events, split, refund, captured, purchases>>

\* handleWebhook: the event row is inserted before anything is processed.
RecordEvent(w, e) ==
  /\ Free(w)
  /\ e[1] \in captured /\ e \notin seen
  /\ seen' = seen \cup {e}
  /\ Start(w, Request("lookup", e[1], e, 0, None, FALSE))
  /\ UNCHANGED <<sale, ent, processed, acked, split, refund, captured, purchases, budget>>

\* handleWebhook: the insert failed on the unique event id; answered 200.
DuplicateEvent(e) ==
  /\ e \in seen /\ e \notin acked
  /\ acked' = acked \cup {e}
  /\ UNCHANGED <<sale, ent, seen, processed, split, refund, captured, purchases, job, budget>>

\* handleWebhook: any other failure of the insert is answered in the same way,
\* and the event is lost.
InsertFails(e) ==
  /\ e[1] \in captured /\ e \notin acked /\ Spend("fault")
  /\ acked' = acked \cup {e}
  /\ UNCHANGED <<sale, ent, seen, processed, split, refund, captured, purchases, job>>

\* handleWebhook: the order is read outside markPaid's transaction.
LookupOrder(w) ==
  /\ At(w, "lookup")
  /\ Goto(w, IF order[job[w].order] = "PAID" THEN "finish" ELSE "confirm")
  /\ UNCHANGED <<sale, ent, events, split, refund, captured, purchases, budget>>

\* markPaid, transaction: SELECT ... FOR UPDATE, then both rows become PAID.
ConfirmTx(w) ==
  LET o == job[w].order IN
  /\ At(w, "confirm")
  /\ IF order[o] = "PAID"
       THEN Return(w) /\ UNCHANGED sale
       ELSE /\ order' = [order EXCEPT ![o] = "PAID"]
            /\ payment' = [payment EXCEPT ![o] = "PAID"]
            /\ Goto(w, "grant")
  /\ UNCHANGED <<ent, events, split, refund, captured, purchases, budget>>

\* grantFromOrder: upsert on (user, product).
Grant(w) ==
  LET o == job[w].order IN
  /\ At(w, "grant")
  /\ ent' = [ent EXCEPT ![SeatOf[o]] =
               [status |-> "ACTIVE", order |-> o, source |-> "PURCHASE"]]
  /\ Goto(w, "purchase")
  /\ UNCHANGED <<sale, events, split, refund, captured, purchases, budget>>

\* markPaid: the Purchase conversion event.
SendPurchase(w) ==
  LET o == job[w].order IN
  /\ At(w, "purchase")
  /\ purchases' = [purchases EXCEPT ![o] = @ + 1]
  /\ Goto(w, "split")
  /\ UNCHANGED <<sale, ent, events, split, refund, captured, budget>>

\* createTransferForOrder: nothing to split, or a row exists; otherwise the
\* provider is asked to pay the institution and may refuse.
Split(w) ==
  LET o == job[w].order IN
  /\ At(w, "split")
  /\ \/ /\ o \notin Marketplace \/ transfer[o] # "NONE"
        /\ Return(w) /\ UNCHANGED payouts
     \/ /\ o \in Marketplace /\ transfer[o] = "NONE"
        /\ payouts' = [payouts EXCEPT ![o].sale = @ + 1]
        /\ job' = [job EXCEPT ![w].pc = "recordSplit", ![w].paidOut = TRUE]
     \/ /\ o \in Marketplace /\ transfer[o] = "NONE"
        /\ Goto(w, "recordSplit") /\ UNCHANGED payouts
  /\ UNCHANGED <<sale, ent, events, transfer, reserve, refund, captured, purchases, budget>>

\* createTransferForOrder, transaction: the row (unique order id) and, when
\* money moved, the reserve.  A unique violation is caught and logged.
RecordSplit(w) ==
  LET o == job[w].order IN
  /\ At(w, "recordSplit")
  /\ IF transfer[o] # "NONE"
       THEN UNCHANGED <<transfer, reserve>>
       ELSE /\ transfer' = [transfer EXCEPT ![o] =
                              IF job[w].paidOut THEN "PROCESSED" ELSE "ON_HOLD"]
            /\ reserve' = reserve + Held(job[w].paidOut)
  /\ Return(w)
  /\ UNCHANGED <<sale, ent, events, payouts, refund, captured, purchases, budget>>

\* createTransferForOrder swallows every exception of its own.
SplitFails(w) ==
  /\ job[w].pc \in {"split", "recordSplit"} /\ Spend("fault")
  /\ Return(w)
  /\ UNCHANGED <<sale, ent, events, split, refund, captured, purchases>>

\* handleWebhook: processedAt, then the 2xx.
FinishEvent(w) ==
  /\ At(w, "finish")
  /\ processed' = processed \cup {job[w].event}
  /\ acked' = acked \cup {job[w].event}
  /\ job' = [job EXCEPT ![w] = Idle]
  /\ UNCHANGED <<sale, ent, seen, split, refund, captured, purchases, budget>>

-----------------------------------------------------------------------------
(* Settlement retry. *)

\* retryTransfer: the ON_HOLD row and the order's PAID payment are read.
RetryTransfer(w, o) ==
  /\ Free(w) /\ Spend("retry")
  /\ transfer[o] = "ON_HOLD" /\ payment[o] = "PAID"
  /\ Start(w, Request("retryPay", o, None, 0, None, FALSE))
  /\ UNCHANGED <<sale, ent, events, split, refund, captured, purchases>>

\* retryTransfer: the provider pays, or refuses and the row stays as it is.
RetryPay(w) ==
  /\ At(w, "retryPay")
  /\ \/ /\ payouts' = [payouts EXCEPT ![job[w].order].retry = @ + 1]
        /\ Goto(w, "retrySave")
     \/ job' = [job EXCEPT ![w] = Idle] /\ UNCHANGED payouts
  /\ UNCHANGED <<sale, ent, events, transfer, reserve, refund, captured, purchases, budget>>

\* retryTransfer, transaction: an update by id that rechecks nothing.
RetrySave(w) ==
  /\ At(w, "retrySave")
  /\ transfer' = [transfer EXCEPT ![job[w].order] = "PROCESSED"]
  /\ reserve' = reserve + 1
  /\ job' = [job EXCEPT ![w] = Idle]
  /\ UNCHANGED <<sale, ent, events, payouts, refund, captured, purchases, budget>>

-----------------------------------------------------------------------------
(* Refunds. *)

\* refund: a Super Admin's direct refund of a chosen amount.
Refund(w, o, a) ==
  /\ Free(w) /\ Spend("refund")
  /\ Start(w, Request("refundCheck", o, None, a, None, FALSE))
  /\ UNCHANGED <<sale, ent, events, split, refund, captured, purchases>>

\* requestRefund: the institution's Academic Head asks; the payment is read.
RequestRefund(w, o, a) ==
  /\ Free(w) /\ Spend("request")
  /\ o \in Owned /\ Refundable(o)
  /\ Start(w, Request("decide", o, None, a, None, TRUE))
  /\ UNCHANGED <<sale, ent, events, split, refund, captured, purchases>>

\* requestRefund: hasProcessedTransfer and the ceiling decide who executes.
DecideRequest(w) ==
  LET o == job[w].order IN
  /\ At(w, "decide")
  /\ Goto(w, IF transfer[o] = "PROCESSED" \/ job[w].amount > Ceiling
               THEN "recordRequest" ELSE "refundCheck")
  /\ UNCHANGED <<sale, ent, events, split, refund, captured, purchases, budget>>

\* requestRefund: the PENDING_APPROVAL row.
RecordRequest(w) ==
  /\ At(w, "recordRequest")
  /\ \E r \in RefundIds :
       /\ refunds[r].status = "NONE"
       /\ refunds' = [refunds EXCEPT ![r] =
            [status |-> "PENDING_APPROVAL", order |-> job[w].order, amount |-> job[w].amount]]
  /\ job' = [job EXCEPT ![w] = Idle]
  /\ UNCHANGED <<sale, ent, events, split, refunded, captured, purchases, budget>>

\* approveRefund: the row is read; nothing holds it until it is updated.
ApproveRefund(w, r) ==
  /\ Free(w) /\ Spend("decide")
  /\ AwaitsApproval(r)
  /\ Start(w, Request("refundCheck", refunds[r].order, None, refunds[r].amount, r, FALSE))
  /\ UNCHANGED <<sale, ent, events, split, refund, captured, purchases>>

\* rejectRefund: the row is read ...
RejectRefund(w, r) ==
  /\ Free(w) /\ Spend("decide")
  /\ AwaitsApproval(r)
  /\ Start(w, Request("recordReject", None, None, 0, r, FALSE))
  /\ UNCHANGED <<sale, ent, events, split, refund, captured, purchases>>

\* ... and updated.
RecordReject(w) ==
  /\ At(w, "recordReject")
  /\ refunds' = [refunds EXCEPT ![job[w].row].status = "REJECTED"]
  /\ job' = [job EXCEPT ![w] = Idle]
  /\ UNCHANGED <<sale, ent, events, split, refunded, captured, purchases, budget>>

\* applyRefundEffects: the payment is read; only a paid one goes on.
RefundCheck(w) ==
  /\ At(w, "refundCheck")
  /\ IF Refundable(job[w].order) THEN Goto(w, "refundTx")
                                 ELSE job' = [job EXCEPT ![w] = Idle]
  /\ UNCHANGED <<sale, ent, events, split, refund, captured, purchases, budget>>

\* applyRefundEffects, transaction.
RefundTx(w) ==
  LET o == job[w].order
      status == RefundedStatus(job[w].amount)
  IN
  /\ At(w, "refundTx")
  /\ payment' = [payment EXCEPT ![o] = status]
  /\ order' = [order EXCEPT ![o] = status]
  /\ ent' = IF status = "REFUNDED_FULL"
              THEN [s \in Seats |-> IF s \in Revoked(o)
                                      THEN [ent[s] EXCEPT !.status = "REFUNDED"]
                                      ELSE ent[s]]
              ELSE ent
  /\ refunded' = refunded \cup {o}
  /\ Goto(w, "reverse")
  /\ UNCHANGED <<events, split, refunds, captured, purchases, budget>>

\* reverseTransferForOrder: the transfer is read; only PROCESSED is reversed.
ReverseTransfer(w) ==
  /\ At(w, "reverse")
  /\ Goto(w, IF transfer[job[w].order] = "PROCESSED" THEN "release" ELSE "recordRefund")
  /\ UNCHANGED <<sale, ent, events, split, refund, captured, purchases, budget>>

\* reverseTransferForOrder, transaction.
ReleaseReserve(w) ==
  /\ At(w, "release")
  /\ transfer' = [transfer EXCEPT ![job[w].order] = "REVERSED"]
  /\ reserve' = reserve - 1
  /\ Goto(w, "recordRefund")
  /\ UNCHANGED <<sale, ent, events, payouts, refund, captured, purchases, budget>>

\* refund creates a PROCESSED row; approveRefund updates the one it read.
RecordRefund(w) ==
  /\ At(w, "recordRefund")
  /\ \/ /\ job[w].row # None
        /\ refunds' = [refunds EXCEPT ![job[w].row].status = "PROCESSED"]
     \/ /\ job[w].row = None
        /\ \E r \in RefundIds :
             /\ refunds[r].status = "NONE"
             /\ refunds' = [refunds EXCEPT ![r] =
                  [status |-> "PROCESSED", order |-> job[w].order, amount |-> job[w].amount]]
  /\ job' = [job EXCEPT ![w] = Idle]
  /\ UNCHANGED <<sale, ent, events, split, refunded, captured, purchases, budget>>

-----------------------------------------------------------------------------
(* Manual entitlement changes, and faults. *)

\* grantManual: the update leaves the order id of the row alone.
GrantManual(s) ==
  /\ Spend("admin")
  /\ ent' = [ent EXCEPT ![s].status = "ACTIVE", ![s].source = "ADMIN"]
  /\ UNCHANGED <<sale, events, split, refund, captured, purchases, job>>

\* revoke.
Revoke(s) ==
  /\ Spend("admin")
  /\ ent[s].status # "NONE"
  /\ ent' = [ent EXCEPT ![s].status = "REVOKED"]
  /\ UNCHANGED <<sale, events, split, refund, captured, purchases, job>>

\* An exception or a process death ends a request between two steps; the
\* provider of a webhook gets no 2xx and will deliver it again.
Abort(w) ==
  /\ ~Free(w) /\ Spend("fault")
  /\ job' = [job EXCEPT ![w] = Idle]
  /\ UNCHANGED <<sale, ent, events, split, refund, captured, purchases>>

-----------------------------------------------------------------------------
\* What a running request does next.
Step(w) ==
  \/ LookupOrder(w) \/ ConfirmTx(w) \/ Grant(w) \/ SendPurchase(w)
  \/ Split(w) \/ RecordSplit(w) \/ FinishEvent(w)
  \/ RetryPay(w) \/ RetrySave(w)
  \/ DecideRequest(w) \/ RecordRequest(w) \/ RecordReject(w)
  \/ RefundCheck(w) \/ RefundTx(w) \/ ReverseTransfer(w) \/ ReleaseReserve(w)
  \/ RecordRefund(w)

\* What arrives from outside.
Arrive(w) ==
  \/ \E o \in Orders :
       \/ Verify(w, o) \/ RetryTransfer(w, o)
       \/ \E a \in 1..Price : Refund(w, o, a) \/ RequestRefund(w, o, a)
  \/ \E e \in Events : RecordEvent(w, e)
  \/ \E r \in RefundIds : ApproveRefund(w, r) \/ RejectRefund(w, r)

Next ==
  \/ \E o \in Orders : Capture(o)
  \/ \E e \in Events : DuplicateEvent(e) \/ InsertFails(e)
  \/ \E s \in Seats : GrantManual(s) \/ Revoke(s)
  \/ \E w \in Workers : Step(w) \/ Arrive(w) \/ SplitFails(w) \/ Abort(w)

Spec == Init /\ [][Next]_vars

\* What the provider owes: an event is delivered again until it is answered.
Redeliver(e) ==
  DuplicateEvent(e) \/ \E w \in Workers : e \notin acked /\ RecordEvent(w, e)

\* A running request is scheduled until it ends, and the provider redelivers.
Fairness ==
  /\ \A w \in Workers : WF_vars(Step(w))
  /\ \A e \in Events : WF_vars(Redeliver(e))

FairSpec == Spec /\ Fairness
-----------------------------------------------------------------------------
(* Properties. *)

\* Nothing is running for o.
Quiet(o) == \A w \in Workers : job[w].order # o

\* However /verify and the two webhooks of one charge interleave, an order
\* that nobody has refunded sends at most one Purchase event and pays its
\* institution at most once on behalf of the sale (markPaid's row lock).
OncePerSale ==
  \A o \in Orders \ refunded : purchases[o] <= 1 /\ payouts[o].sale <= 1

\* No order is PAID, and no entitlement is held through a purchase, unless the
\* provider has taken the money for that very order.
AccessOnlyFromCapture ==
  /\ \A o \in Orders : order[o] # "PENDING" => o \in captured
  /\ \A s \in Seats :
       ent[s].status = "ACTIVE" /\ ent[s].source = "PURCHASE" => ent[s].order \in captured

\* A full refund takes away only the access its own order granted: when a
\* later order has renewed the seat, refunding the earlier one leaves it.
RefundRevokesOwnGrantOnly ==
  [][\A s \in Seats : ent[s].status = "ACTIVE" /\ ent'[s].status = "REFUNDED"
       => ent[s].order \in Orders /\ order'[ent[s].order] = "REFUNDED_FULL"]_vars

\* The reserve held for the institution is the sum of the reserves of its
\* transfers that stand as PROCESSED.
ReserveMatchesTransfers ==
  reserve = Cardinality({o \in Orders : transfer[o] = "PROCESSED"})

\* Once a full refund is over, the purchase no longer gives access.
FullRefundRevokes ==
  \A o \in Orders : order[o] = "REFUNDED_FULL" /\ Quiet(o) =>
    \A s \in Seats : ~ (ent[s].status = "ACTIVE" /\ ent[s].source = "PURCHASE" /\ ent[s].order = o)

\* Once a full refund is over, the institution's transfer has been reversed.
FullRefundReversesTransfer ==
  \A o \in Orders : order[o] = "REFUNDED_FULL" /\ Quiet(o) => transfer[o] # "PROCESSED"

\* A decision on a refund request is final: a rejected one is never executed.
RejectionIsFinal ==
  [][\A r \in RefundIds : refunds[r].status = "REJECTED"
       => refunds'[r].status = "REJECTED"]_vars

\* A transfer that has been paid out is reversed only on a Super Admin's
\* authority, never by a refund the Academic Head had executed directly.
HeadNeverReverses ==
  [][\A w \in Workers : ReleaseReserve(w) => ~ job[w].byHead]_vars

\* One sale is paid to the institution once, whoever retries it.
RetryNeverDoublePays == \A o \in Orders : payouts[o].sale + payouts[o].retry <= 1

\* Unless a request dies, an event is lost or a refund is asked for, money the
\* provider has taken ends in a PAID order, access for the buyer and the Purchase
\* event; the two webhooks alone, without the browser, do it.
CaptureGivesAccess ==
  \A o \in Orders : o \in captured ~>
    \/ order[o] = "PAID" /\ ent[SeatOf[o]].status = "ACTIVE" /\ purchases[o] > 0
    \/ \E k \in {"fault", "refund"} : budget[k] < Budget[k]

\* Every event of a captured order is answered in the end, faults included,
\* so that the provider stops redelivering it.
EventsAnswered ==
  \A e \in Events : e[1] \in captured ~> e \in acked

\* A full refund that is over has undone the sale on both sides.
FullRefundUndoesSale == FullRefundRevokes /\ FullRefundReversesTransfer

\* Whatever is retried, reversed or refunded, an institution is paid once for a sale
\* and what is held back of it is the reserve of its standing transfers.
TransfersAddUp == ReserveMatchesTransfers /\ RetryNeverDoublePays

\* A refund takes what its own order gave, and only on the authority it needs.
RefundsStayInBounds == RefundRevokesOwnGrantOnly /\ RejectionIsFinal /\ HeadNeverReverses
=============================================================================
