------------------------- MODULE OrderPaymentProofs -------------------------
(* Theorems about OrderPayment, for every value of its constants. *)
EXTENDS OrderPayment, FiniteSetTheorems, TLAPS

\* What a request remembers at each of its steps: the order it works on, the
\* event it was started by, the row it decides.
Knows(j) ==
  /\ j \in Job
  /\ j.pc \in Confirming \cup Selling \cup Refunding \cup Retrying
                \cup {"decide", "recordRequest"} => j.order \in Orders
  /\ j.pc \in {"lookup", "finish"} => j.event \in Events
  /\ j.pc = "recordReject" => j.row \in RefundIds

JobsOK == job \in [Workers -> Job] /\ \A w \in Workers : Knows(job[w])

\* Every refund row that exists names an order, and so does every row that a
\* running request has read.
RowsOK ==
  /\ refunds \in [RefundIds -> RefundRow]
  /\ \A r \in RefundIds : refunds[r].status # "NONE" => refunds[r].order \in Orders
  /\ \A w \in Workers : job[w].row # None => refunds[job[w].row].order \in Orders

DataOK ==
  /\ order \in [Orders -> OrderStatus]
  /\ payment \in [Orders -> PaymentStatus]
  /\ ent \in [Seats -> Entitlement]
  /\ transfer \in [Orders -> TransferStatus]
  /\ reserve \in Int
  /\ seen \subseteq Events
  /\ processed \subseteq Events
  /\ captured \subseteq Orders
  /\ acked \subseteq Events
  /\ payouts \in [Orders -> Payout]
  /\ purchases \in [Orders -> Nat]
  /\ refunded \subseteq Orders
  /\ budget \in [Kinds -> Nat]

TypeInv == JobsOK /\ RowsOK /\ DataOK

LEMMA TypeInvImpliesTypeOK == TypeInv => TypeOK
  BY DEF TypeInv, JobsOK, RowsOK, DataOK, TypeOK, Knows

-----------------------------------------------------------------------------
(* How a request's record changes. *)

LEMMA IdleKnows == Knows(Idle)
  BY DEF Knows, Idle, Request, Job, Pcs, Confirming, Selling, Refunding, Retrying

LEMMA JobUpdate ==
  ASSUME JobsOK, NEW w \in Workers, NEW j, Knows(j), job' = [job EXCEPT ![w] = j]
  PROVE  JobsOK'
<1>1. j \in Job
  BY DEF Knows
<1>2. job' \in [Workers -> Job]
  BY <1>1 DEF JobsOK
<1>3. \A v \in Workers : job'[v] = IF v = w THEN j ELSE job[v]
  BY DEF JobsOK
<1> QED
  BY <1>2, <1>3 DEF JobsOK

LEMMA JobIdle ==
  ASSUME JobsOK, NEW w \in Workers, job' = [job EXCEPT ![w] = Idle]
  PROVE  JobsOK'
  BY IdleKnows, JobUpdate

\* Moving on to a step that works on the same order keeps the record right.
LEMMA JobGoto ==
  ASSUME JobsOK, NEW w \in Workers, NEW p \in Pcs, Goto(w, p),
         job[w].order \in Orders,
         p \in {"lookup", "finish"} => job[w].event \in Events,
         p # "recordReject"
  PROVE  JobsOK'
<1> DEFINE j == [job[w] EXCEPT !.pc = p]
<1>1. job' = [job EXCEPT ![w] = j]
  BY DEF Goto
<1>2. Knows(j)
  BY DEF Knows, JobsOK, Job
<1> QED
  BY <1>1, <1>2, JobUpdate

LEMMA JobReturn ==
  ASSUME JobsOK, NEW w \in Workers, Return(w), job[w].order \in Orders
  PROVE  JobsOK'
<1>1. job[w].event \in Events \cup {None}
  BY DEF JobsOK, Knows, Job
<1>2. CASE job[w].event = None
  BY <1>2, JobIdle DEF Return
<1>3. CASE job[w].event # None
  <2>1. Goto(w, "finish") /\ "finish" \in Pcs
    BY <1>3 DEF Return, Pcs
  <2> QED
    BY <2>1, <1>1, <1>3, JobGoto
<1> QED
  BY <1>2, <1>3

\* The order a request works on.
LEMMA OrderOfJob ==
  ASSUME JobsOK, NEW w \in Workers,
         job[w].pc \in Confirming \cup Selling \cup Refunding \cup Retrying
                \cup {"decide", "recordRequest"}
  PROVE  job[w].order \in Orders
  BY DEF JobsOK, Knows

\* A request about order o starts.
LEMMA JobStart ==
  ASSUME JobsOK, NEW w \in Workers, NEW o \in Orders, NEW e \in Events \cup {None},
         NEW p \in Pcs \ {"recordReject"}, NEW a \in Nat, NEW r \in RefundIds \cup {None},
         NEW b \in BOOLEAN,
         p \in {"lookup", "finish"} => e \in Events,
         Start(w, Request(p, o, e, a, r, b))
  PROVE  JobsOK'
<1>1. Knows(Request(p, o, e, a, r, b))
  BY DEF Knows, Job, Request
<1> QED
  BY <1>1, JobUpdate DEF Start

-----------------------------------------------------------------------------
(* Requests running. *)

LEMMA StepJobs ==
  ASSUME TypeInv, NEW w \in Workers, Step(w)
  PROVE  JobsOK'
<1> USE DEF TypeInv
<1>1. CASE LookupOrder(w)
  <2>1. job[w].order \in Orders /\ job[w].event \in Events
    BY <1>1 DEF LookupOrder, At, JobsOK, Knows, Confirming
  <2> QED
    BY <1>1, <2>1, JobGoto DEF LookupOrder, Pcs, Confirming
<1>2. CASE ConfirmTx(w)
  BY <1>2, OrderOfJob, JobReturn, JobGoto DEF ConfirmTx, At, Confirming, Pcs, Selling
<1>3. CASE Grant(w)
  BY <1>3, OrderOfJob, JobGoto DEF Grant, At, Pcs, Selling
<1>4. CASE SendPurchase(w)
  BY <1>4, OrderOfJob, JobGoto DEF SendPurchase, At, Pcs, Selling
<1>5. CASE Split(w)
  <2>1. job[w].order \in Orders
    BY <1>5, OrderOfJob DEF Split, At, Selling
  <2>2. ASSUME job' = [job EXCEPT ![w].pc = "recordSplit", ![w].paidOut = TRUE]
        PROVE  JobsOK'
    <3> DEFINE j == [job[w] EXCEPT !.pc = "recordSplit", !.paidOut = TRUE]
    <3>1. job' = [job EXCEPT ![w] = j]
      BY <2>2 DEF JobsOK
    <3>2. Knows(j)
      BY <2>1 DEF JobsOK, Knows, Job, Pcs, Selling
    <3> QED
      BY <3>1, <3>2, JobUpdate
  <2> QED
    BY <1>5, <2>1, <2>2, JobReturn, JobGoto DEF Split, Pcs, Selling
<1>6. CASE RecordSplit(w)
  BY <1>6, OrderOfJob, JobReturn DEF RecordSplit, At, Selling
<1>7. CASE FinishEvent(w)
  BY <1>7, JobIdle DEF FinishEvent
<1>8. CASE RetryPay(w)
  BY <1>8, OrderOfJob, JobIdle, JobGoto DEF RetryPay, At, Pcs, Retrying
<1>9. CASE RetrySave(w)
  BY <1>9, JobIdle DEF RetrySave
<1>10. CASE DecideRequest(w)
  BY <1>10, OrderOfJob, JobGoto DEF DecideRequest, At, Pcs, Refunding
<1>11. CASE RecordRequest(w)
  BY <1>11, JobIdle DEF RecordRequest
<1>12. CASE RecordReject(w)
  BY <1>12, JobIdle DEF RecordReject
<1>13. CASE RefundCheck(w)
  BY <1>13, OrderOfJob, JobIdle, JobGoto DEF RefundCheck, At, Pcs, Refunding
<1>14. CASE RefundTx(w)
  BY <1>14, OrderOfJob, JobGoto DEF RefundTx, At, Pcs, Refunding
<1>15. CASE ReverseTransfer(w)
  BY <1>15, OrderOfJob, JobGoto DEF ReverseTransfer, At, Pcs, Refunding
<1>16. CASE ReleaseReserve(w)
  BY <1>16, OrderOfJob, JobGoto DEF ReleaseReserve, At, Pcs, Refunding
<1>17. CASE RecordRefund(w)
  BY <1>17, JobIdle DEF RecordRefund
<1> QED
  BY <1>1, <1>2, <1>3, <1>4, <1>5, <1>6, <1>7, <1>8, <1>9, <1>10, <1>11, <1>12, <1>13,
     <1>14, <1>15, <1>16, <1>17 DEF Step

LEMMA StepKeepsRow ==
  ASSUME TypeInv, NEW w \in Workers, Step(w), NEW v \in Workers
  PROVE  job'[v].row \in {job[v].row, None}
<1>1. job \in [Workers -> Job]
  BY DEF TypeInv, JobsOK
<1>2. ASSUME job' = [job EXCEPT ![w] = Idle]
      PROVE  job'[v].row \in {job[v].row, None}
  BY <1>1, <1>2 DEF Idle, Request
<1>3. ASSUME NEW p, Goto(w, p)
      PROVE  job'[v].row \in {job[v].row, None}
  BY <1>1, <1>3 DEF Goto, Job
<1>4. ASSUME job' = [job EXCEPT ![w].pc = "recordSplit", ![w].paidOut = TRUE]
      PROVE  job'[v].row \in {job[v].row, None}
  BY <1>1, <1>4 DEF Job
<1> QED
  BY <1>2, <1>3, <1>4 DEF Step, LookupOrder, ConfirmTx, Grant, SendPurchase, Split,
     RecordSplit, FinishEvent, RetryPay, RetrySave, DecideRequest, RecordRequest,
     RecordReject, RefundCheck, RefundTx, ReverseTransfer, ReleaseReserve, RecordRefund,
     Return

\* If the rows keep or gain their orders, RowsOK is kept.
LEMMA RowsKept ==
  ASSUME TypeInv, refunds' \in [RefundIds -> RefundRow],
         \A r \in RefundIds :
            \/ refunds'[r].order \in Orders
            \/ refunds'[r].order = refunds[r].order /\ refunds'[r].status = refunds[r].status,
         \A v \in Workers : job'[v].row \in {job[v].row, None}
  PROVE  RowsOK'
<1>1. \A v \in Workers : job[v].row \in RefundIds \cup {None}
  BY DEF TypeInv, JobsOK, Job
<1>2. \A r \in RefundIds : refunds[r].order \in Orders => refunds'[r].order \in Orders
  OBVIOUS
<1> QED
  BY <1>1, <1>2 DEF TypeInv, RowsOK

LEMMA StepRows ==
  ASSUME TypeInv, NEW w \in Workers, Step(w)
  PROVE  RowsOK'
<1>1. \A v \in Workers : job'[v].row \in {job[v].row, None}
  BY StepKeepsRow
<1>2. refunds \in [RefundIds -> RefundRow] /\ job \in [Workers -> Job]
  BY DEF TypeInv, RowsOK, JobsOK
<1>3. ASSUME NEW r \in RefundIds, NEW s \in RefundStatus, NEW o \in Orders, NEW a \in Nat,
             refunds' = [refunds EXCEPT ![r] = [status |-> s, order |-> o, amount |-> a]]
      PROVE  RowsOK'
  <2>1. [status |-> s, order |-> o, amount |-> a] \in RefundRow
    BY DEF RefundRow
  <2> QED
    BY <1>1, <1>2, <1>3, <2>1, RowsKept
<1>4. ASSUME NEW s \in RefundStatus, job[w].row # None,
             refunds' = [refunds EXCEPT ![job[w].row].status = s]
      PROVE  RowsOK'
  <2>1. job[w].row \in RefundIds /\ refunds[job[w].row].order \in Orders
    BY <1>2, <1>4 DEF Job, TypeInv, RowsOK
  <2>2. refunds' \in [RefundIds -> RefundRow]
    BY <1>2, <1>4 DEF RefundRow
  <2>3. \A r \in RefundIds : refunds'[r].order = refunds[r].order
    BY <1>2, <1>4 DEF RefundRow
  <2>4. \A r \in RefundIds \ {job[w].row} : refunds'[r].status = refunds[r].status
    BY <1>2, <1>4 DEF RefundRow
  <2> QED
    BY <1>1, <2>1, <2>2, <2>3, <2>4, RowsKept
<1>5. CASE RecordRequest(w)
  <2>1. job[w].order \in Orders /\ job[w].amount \in Nat
    BY <1>2, <1>5, OrderOfJob DEF RecordRequest, At, TypeInv, Job
  <2> QED
    BY <1>3, <1>5, <2>1 DEF RecordRequest, RefundStatus
<1>6. CASE RecordReject(w)
  <2>1. job[w].row # None
    BY <1>6, OrderPaymentAssumption DEF RecordReject, At, TypeInv, JobsOK, Knows
  <2> QED
    BY <1>4, <1>6, <2>1 DEF RecordReject, RefundStatus
<1>7. CASE RecordRefund(w)
  <2>1. job[w].order \in Orders /\ job[w].amount \in Nat
    BY <1>2, <1>7, OrderOfJob DEF RecordRefund, At, TypeInv, Job, Refunding
  <2> QED
    BY <1>3, <1>4, <1>7, <2>1 DEF RecordRefund, RefundStatus
<1>8. CASE UNCHANGED refunds
  BY <1>1, <1>2, <1>8, RowsKept
<1> QED
  BY <1>5, <1>6, <1>7, <1>8 DEF Step, LookupOrder, ConfirmTx, Grant, SendPurchase, Split,
     RecordSplit, FinishEvent, RetryPay, RetrySave, DecideRequest, RefundCheck, RefundTx,
     ReverseTransfer, ReleaseReserve, refund

LEMMA StepData ==
  ASSUME TypeInv, NEW w \in Workers, Step(w)
  PROVE  DataOK'
<1> USE DEF sale, events, split, refund
<1>1. DataOK /\ job \in [Workers -> Job]
  BY DEF TypeInv, JobsOK
<1>2. CASE LookupOrder(w)
  BY <1>1, <1>2 DEF LookupOrder, DataOK
<1>3. CASE ConfirmTx(w)
  BY <1>1, <1>3 DEF ConfirmTx, DataOK, OrderStatus, PaymentStatus
<1>4. CASE Grant(w)
  BY <1>1, <1>4, OrderOfJob DEF Grant, DataOK, Entitlement, EntStatus, TypeInv, At, Selling
<1>5. CASE SendPurchase(w)
  <2>1. job[w].order \in Orders
    BY <1>5, OrderOfJob DEF SendPurchase, At, Selling, TypeInv
  <2>2. purchases' \in [Orders -> Nat]
    BY <1>1, <1>5, <2>1 DEF SendPurchase, DataOK
  <2> QED
    BY <1>1, <1>5, <2>2 DEF SendPurchase, DataOK
<1>6. CASE Split(w)
  BY <1>1, <1>6 DEF Split, DataOK, Payout
<1>7. CASE RecordSplit(w)
  BY <1>1, <1>7 DEF RecordSplit, Held, DataOK, TransferStatus
<1>8. CASE FinishEvent(w)
  <2>1. job[w].event \in Events
    BY <1>8 DEF FinishEvent, At, TypeInv, JobsOK, Knows
  <2> QED
    BY <1>1, <1>8, <2>1 DEF FinishEvent, DataOK
<1>9. CASE RetryPay(w)
  BY <1>1, <1>9 DEF RetryPay, DataOK, Payout
<1>10. CASE RetrySave(w)
  <2>1. reserve' \in Int
    BY <1>1, <1>10 DEF RetrySave, DataOK
  <2>2. transfer' \in [Orders -> TransferStatus]
    BY <1>1, <1>10 DEF RetrySave, DataOK, TransferStatus
  <2> QED
    BY <1>1, <1>10, <2>1, <2>2 DEF RetrySave, DataOK
<1>11. CASE DecideRequest(w)
  BY <1>1, <1>11 DEF DecideRequest, DataOK
<1>12. CASE RecordRequest(w)
  BY <1>1, <1>12 DEF RecordRequest, DataOK
<1>13. CASE RecordReject(w)
  BY <1>1, <1>13 DEF RecordReject, DataOK
<1>14. CASE RefundCheck(w)
  BY <1>1, <1>14 DEF RefundCheck, DataOK
<1>15. CASE RefundTx(w)
  <2>1. job[w].order \in Orders
    BY <1>15, OrderOfJob DEF RefundTx, At, Refunding, TypeInv
  <2>2. ent' \in [Seats -> Entitlement]
    BY <1>1, <1>15 DEF RefundTx, DataOK, Entitlement, EntStatus
  <2> QED
    BY <1>1, <1>15, <2>1, <2>2 DEF RefundTx, RefundedStatus, DataOK, OrderStatus, PaymentStatus
<1>16. CASE ReverseTransfer(w)
  BY <1>1, <1>16 DEF ReverseTransfer, DataOK
<1>17. CASE ReleaseReserve(w)
  <2>1. reserve' \in Int
    BY <1>1, <1>17 DEF ReleaseReserve, DataOK
  <2>2. transfer' \in [Orders -> TransferStatus]
    BY <1>1, <1>17 DEF ReleaseReserve, DataOK, TransferStatus
  <2> QED
    BY <1>1, <1>17, <2>1, <2>2 DEF ReleaseReserve, DataOK
<1>18. CASE RecordRefund(w)
  BY <1>1, <1>18 DEF RecordRefund, DataOK
<1> QED
  BY <1>2, <1>3, <1>4, <1>5, <1>6, <1>7, <1>8, <1>9, <1>10, <1>11, <1>12, <1>13,
     <1>14, <1>15, <1>16, <1>17, <1>18 DEF Step

-----------------------------------------------------------------------------
(* Requests arriving, faults, and what happens outside the slots. *)

LEMMA Spending ==
  ASSUME budget \in [Kinds -> Nat], NEW k \in Kinds, Spend(k)
  PROVE  budget' \in [Kinds -> Nat]
  BY DEF Spend

LEMMA ArriveTypeInv ==
  ASSUME TypeInv, NEW w \in Workers, Arrive(w)
  PROVE  TypeInv'
<1> USE DEF sale, events, split, refund
<1>1. JobsOK /\ RowsOK /\ DataOK /\ job \in [Workers -> Job]
  BY DEF TypeInv, JobsOK
<1>2. ASSUME NEW o \in Orders, Verify(w, o)
      PROVE  TypeInv'
  <2>1. JobsOK'
    BY <1>1, <1>2, JobStart DEF Verify, Pcs, Confirming
  <2>2. RowsOK'
    BY <1>1, <1>2 DEF Verify, Start, Request, RowsOK
  <2>3. DataOK'
    BY <1>1, <1>2, Spending DEF Verify, DataOK, Kinds
  <2> QED
    BY <2>1, <2>2, <2>3 DEF TypeInv
<1>3. ASSUME NEW o \in Orders, RetryTransfer(w, o)
      PROVE  TypeInv'
  <2>1. JobsOK'
    BY <1>1, <1>3, JobStart DEF RetryTransfer, Pcs, Retrying
  <2>2. RowsOK'
    BY <1>1, <1>3 DEF RetryTransfer, Start, Request, RowsOK
  <2>3. DataOK'
    BY <1>1, <1>3, Spending DEF RetryTransfer, DataOK, Kinds
  <2> QED
    BY <2>1, <2>2, <2>3 DEF TypeInv
<1>4. ASSUME NEW o \in Orders, NEW a \in 1..Price, Refund(w, o, a)
      PROVE  TypeInv'
  <2>1. JobsOK'
    <3>1. a \in Nat
      BY OrderPaymentAssumption
    <3> QED
      BY <1>1, <1>4, <3>1, JobStart DEF Refund, Pcs, Refunding
  <2>2. RowsOK'
    BY <1>1, <1>4 DEF Refund, Start, Request, RowsOK
  <2>3. DataOK'
    BY <1>1, <1>4, Spending DEF Refund, DataOK, Kinds
  <2> QED
    BY <2>1, <2>2, <2>3 DEF TypeInv
<1>5. ASSUME NEW o \in Orders, NEW a \in 1..Price, RequestRefund(w, o, a)
      PROVE  TypeInv'
  <2>1. JobsOK'
    <3>1. a \in Nat
      BY OrderPaymentAssumption
    <3> QED
      BY <1>1, <1>5, <3>1, JobStart DEF RequestRefund, Pcs
  <2>2. RowsOK'
    BY <1>1, <1>5 DEF RequestRefund, Start, Request, RowsOK
  <2>3. DataOK'
    BY <1>1, <1>5, Spending DEF RequestRefund, DataOK, Kinds
  <2> QED
    BY <2>1, <2>2, <2>3 DEF TypeInv
<1>6. ASSUME NEW e \in Events, RecordEvent(w, e)
      PROVE  TypeInv'
  <2>1. e[1] \in Orders
    BY DEF Events
  <2>2. JobsOK'
    BY <1>1, <1>6, <2>1, JobStart DEF RecordEvent, Pcs, Confirming
  <2>3. RowsOK'
    BY <1>1, <1>6 DEF RecordEvent, Start, Request, RowsOK
  <2>4. DataOK'
    BY <1>1, <1>6 DEF RecordEvent, DataOK
  <2> QED
    BY <2>2, <2>3, <2>4 DEF TypeInv
<1>7. ASSUME NEW r \in RefundIds, ApproveRefund(w, r)
      PROVE  TypeInv'
  <2>1. refunds[r].order \in Orders /\ refunds[r].amount \in Nat
    BY <1>1, <1>7 DEF ApproveRefund, AwaitsApproval, RowsOK, RefundRow
  <2>2. JobsOK'
    <3>1. Start(w, Request("refundCheck", refunds[r].order, None, refunds[r].amount, r, FALSE))
      BY <1>7 DEF ApproveRefund
    <3>2. "refundCheck" \in Pcs \ {"recordReject"}
      BY DEF Pcs, Refunding
    <3> QED
      BY <1>1, <2>1, <3>1, <3>2, JobStart
  <2>3. RowsOK'
    BY <1>1, <1>7, <2>1 DEF ApproveRefund, Start, Request, RowsOK
  <2>4. DataOK'
    BY <1>1, <1>7, Spending DEF ApproveRefund, DataOK, Kinds
  <2> QED
    BY <2>2, <2>3, <2>4 DEF TypeInv
<1>8. ASSUME NEW r \in RefundIds, RejectRefund(w, r)
      PROVE  TypeInv'
  <2> DEFINE j == Request("recordReject", None, None, 0, r, FALSE)
  <2>1. refunds[r].order \in Orders
    BY <1>1, <1>8 DEF RejectRefund, AwaitsApproval, RowsOK
  <2>2. Knows(j)
    BY DEF Knows, Request, Job, Pcs, Confirming, Selling, Refunding, Retrying
  <2>3. JobsOK'
    BY <1>1, <1>8, <2>2, JobUpdate DEF RejectRefund, Start
  <2>4. RowsOK'
    BY <1>1, <1>8, <2>1 DEF RejectRefund, Start, Request, RowsOK
  <2>5. DataOK'
    BY <1>1, <1>8, Spending DEF RejectRefund, DataOK, Kinds
  <2> QED
    BY <2>3, <2>4, <2>5 DEF TypeInv
<1> QED
  BY <1>2, <1>3, <1>4, <1>5, <1>6, <1>7, <1>8 DEF Arrive

LEMMA OtherTypeInv ==
  ASSUME TypeInv,
         \/ \E o \in Orders : Capture(o)
         \/ \E e \in Events : DuplicateEvent(e) \/ InsertFails(e)
         \/ \E s \in Seats : GrantManual(s) \/ Revoke(s)
         \/ \E w \in Workers : SplitFails(w) \/ Abort(w)
         \/ UNCHANGED vars
  PROVE  TypeInv'
<1> USE DEF sale, events, split, refund
<1>1. JobsOK /\ RowsOK /\ DataOK /\ job \in [Workers -> Job]
  BY DEF TypeInv, JobsOK
<1>2. ASSUME NEW o \in Orders, Capture(o)
      PROVE  TypeInv'
  BY <1>1, <1>2 DEF Capture, TypeInv, JobsOK, RowsOK, DataOK
<1>3. ASSUME NEW e \in Events, DuplicateEvent(e) \/ InsertFails(e)
      PROVE  TypeInv'
  <2>1. budget' \in [Kinds -> Nat]
    BY <1>1, <1>3, Spending DEF DuplicateEvent, InsertFails, DataOK, Kinds
  <2> QED
    BY <1>1, <1>3, <2>1 DEF DuplicateEvent, InsertFails, TypeInv, JobsOK, RowsOK, DataOK
<1>4. ASSUME NEW s \in Seats, GrantManual(s) \/ Revoke(s)
      PROVE  TypeInv'
  <2>1. ent' \in [Seats -> Entitlement]
    <3>1. ent \in [Seats -> Entitlement]
      BY <1>1 DEF DataOK
    <3>2. [ent[s] EXCEPT !.status = "ACTIVE", !.source = "ADMIN"] \in Entitlement
          /\ [ent[s] EXCEPT !.status = "REVOKED"] \in Entitlement
      BY <3>1 DEF Entitlement, EntStatus
    <3>3. \/ ent' = [ent EXCEPT ![s] = [ent[s] EXCEPT !.status = "ACTIVE", !.source = "ADMIN"]]
          \/ ent' = [ent EXCEPT ![s] = [ent[s] EXCEPT !.status = "REVOKED"]]
      BY <1>4, <3>1 DEF GrantManual, Revoke
    <3> QED
      BY <3>1, <3>2, <3>3
  <2>2. budget' \in [Kinds -> Nat]
    BY <1>1, <1>4, Spending DEF GrantManual, Revoke, DataOK, Kinds
  <2> QED
    BY <1>1, <1>4, <2>1, <2>2 DEF GrantManual, Revoke, TypeInv, JobsOK, RowsOK, DataOK
<1>5. ASSUME NEW w \in Workers, SplitFails(w)
      PROVE  TypeInv'
  <2>1. JobsOK'
    BY <1>1, <1>5, OrderOfJob, JobReturn DEF SplitFails, Selling
  <2>2. \A v \in Workers : job'[v].row \in {job[v].row, None}
    BY <1>1, <1>5 DEF SplitFails, Return, Goto, Idle, Request, Job
  <2>3. RowsOK'
    BY <1>1, <1>5, <2>2, RowsKept DEF SplitFails, RowsOK
  <2>4. DataOK'
    BY <1>1, <1>5, Spending DEF SplitFails, DataOK, Kinds
  <2> QED
    BY <2>1, <2>3, <2>4 DEF TypeInv
<1>6. ASSUME NEW w \in Workers, Abort(w)
      PROVE  TypeInv'
  <2>1. JobsOK'
    BY <1>1, <1>6, JobIdle DEF Abort
  <2>2. RowsOK'
    BY <1>1, <1>6 DEF Abort, Idle, Request, RowsOK
  <2>3. DataOK'
    BY <1>1, <1>6, Spending DEF Abort, DataOK, Kinds
  <2> QED
    BY <2>1, <2>2, <2>3 DEF TypeInv
<1>7. CASE UNCHANGED vars
  BY <1>1, <1>7 DEF vars, TypeInv, JobsOK, RowsOK, DataOK
<1> QED
  BY <1>2, <1>3, <1>4, <1>5, <1>6, <1>7

LEMMA InitTypeInv == Init => TypeInv
<1> SUFFICES ASSUME Init PROVE TypeInv
  OBVIOUS
<1>1. JobsOK
  BY IdleKnows DEF Init, JobsOK, Knows
<1>2. RowsOK
  BY DEF Init, RowsOK, RefundRow, RefundStatus, Idle, Request
<1>3. DataOK
  BY OrderPaymentAssumption
     DEF Init, DataOK, OrderStatus, PaymentStatus, Entitlement, EntStatus, TransferStatus,
         Payout
<1> QED
  BY <1>1, <1>2, <1>3 DEF TypeInv

LEMMA NextTypeInv == TypeInv /\ [Next]_vars => TypeInv'
  BY StepJobs, StepRows, StepData, ArriveTypeInv, OtherTypeInv DEF Next, TypeInv

LEMMA TypeInvariance == Spec => []TypeInv
  BY InitTypeInv, NextTypeInv, PTL DEF Spec

\* Whatever the orders, slots and budgets, every table and every request record
\* keeps the values its column or step allows.
THEOREM TypeCorrect == Spec => []TypeOK
  BY TypeInvariance, TypeInvImpliesTypeOK, PTL

-----------------------------------------------------------------------------
(* No order is PAID, and nobody holds a purchase, before the capture.       *)

\* Every order the code has confirmed, or is about to, has been captured; so
\* has every order an entitlement names.
CaptureInv ==
  /\ \A o \in Orders : order[o] # "PENDING" => o \in captured
  /\ \A w \in Workers : job[w].pc \in Confirming \cup Selling => job[w].order \in captured
  /\ \A s \in Seats : ent[s].order # None => ent[s].order \in captured
  /\ \A s \in Seats : ent[s].order = None => ent[s].status = "NONE" \/ ent[s].source = "ADMIN"
  /\ \A o \in Orders : payment[o] # "CREATED" => o \in captured
  /\ \A w \in Workers : job[w].pc \in {"refundTx"} => job[w].order \in captured

LEMMA CaptureInvImpliesAccess == TypeInv /\ CaptureInv => AccessOnlyFromCapture
  BY DEF CaptureInv, AccessOnlyFromCapture, TypeInv, DataOK, Entitlement

LEMMA InitCaptureInv == Init => CaptureInv
  BY DEF Init, CaptureInv, Idle, Request, Confirming, Selling

\* A step of slot w leaves the records of the other slots alone, and keeps or
\* clears the order of its own.
LEMMA StepKeepsOrder ==
  ASSUME TypeInv, NEW w \in Workers, Step(w) \/ SplitFails(w), NEW v \in Workers
  PROVE  /\ v # w => job'[v] = job[v]
         /\ job'[v] = Idle \/ job'[v].order = job[v].order
<1>1. job \in [Workers -> Job]
  BY DEF TypeInv, JobsOK
<1> DEFINE Goal == /\ v # w => job'[v] = job[v]
                   /\ job'[v] = Idle \/ job'[v].order = job[v].order
<1>2. ASSUME job' = [job EXCEPT ![w] = Idle]
      PROVE  Goal
  BY <1>1, <1>2
<1>3. ASSUME NEW p, Goto(w, p)
      PROVE  Goal
  BY <1>1, <1>3 DEF Goto, Job
<1>4. ASSUME job' = [job EXCEPT ![w].pc = "recordSplit", ![w].paidOut = TRUE]
      PROVE  Goal
  BY <1>1, <1>4 DEF Job
<1> HIDE DEF Goal
<1>5. Goal
  BY <1>2, <1>3, <1>4 DEF Step, LookupOrder, ConfirmTx, Grant, SendPurchase, Split,
     RecordSplit, FinishEvent, RetryPay, RetrySave, DecideRequest, RecordRequest,
     RecordReject, RefundCheck, RefundTx, ReverseTransfer, ReleaseReserve, RecordRefund,
     SplitFails, Return
<1> QED
  BY <1>5 DEF Goal

\* Where a step may take its own slot.
LEMMA StepTarget ==
  ASSUME TypeInv, NEW w \in Workers, Step(w) \/ SplitFails(w)
  PROVE  /\ job'[w].pc \in Confirming => LookupOrder(w)
         /\ job'[w].pc = "grant" => ConfirmTx(w) /\ order[job[w].order] # "PAID"
         /\ job'[w].pc = "purchase" => Grant(w)
         /\ job'[w].pc = "split" => SendPurchase(w)
         /\ job'[w].pc = "recordSplit" => Split(w)
         /\ job'[w].pc = "refundTx" => RefundCheck(w) /\ Refundable(job[w].order)
         /\ job'[w].pc = "release" => ReverseTransfer(w)
         /\ job'[w].pc = "retrySave" => RetryPay(w)
         /\ job'[w].pc # "retryPay"
<1>1. job \in [Workers -> Job]
  BY DEF TypeInv, JobsOK
<1>2. job' = [job EXCEPT ![w] = Idle] => job'[w].pc = "idle"
  BY <1>1 DEF Idle, Request
<1>3. ASSUME NEW p, Goto(w, p) PROVE job'[w].pc = p
  BY <1>1, <1>3 DEF Goto, Job
<1>4. job' = [job EXCEPT ![w].pc = "recordSplit", ![w].paidOut = TRUE]
        => job'[w].pc = "recordSplit"
  BY <1>1 DEF Job
<1>5. Return(w) => job'[w].pc \in {"idle", "finish"}
  BY <1>2, <1>3 DEF Return
<1> QED
  BY <1>2, <1>3, <1>4, <1>5 DEF Step, SplitFails, LookupOrder, ConfirmTx, Grant,
     SendPurchase, Split, RecordSplit, FinishEvent, RetryPay, RetrySave, DecideRequest,
     RecordRequest, RecordReject, RefundCheck, RefundTx, ReverseTransfer, ReleaseReserve,
     RecordRefund, Confirming

LEMMA StepCaptureInv ==
  ASSUME TypeInv, CaptureInv, NEW w \in Workers, Step(w) \/ SplitFails(w)
  PROVE  CaptureInv'
<1> USE DEF sale, events, split, refund
<1>1. captured' = captured
  BY DEF Step, SplitFails, LookupOrder, ConfirmTx, Grant, SendPurchase, Split, RecordSplit,
     FinishEvent, RetryPay, RetrySave, DecideRequest, RecordRequest, RecordReject,
     RefundCheck, RefundTx, ReverseTransfer, ReleaseReserve, RecordRefund
<1>2. job \in [Workers -> Job] /\ ent \in [Seats -> Entitlement]
      /\ order \in [Orders -> OrderStatus] /\ payment \in [Orders -> PaymentStatus]
  BY DEF TypeInv, JobsOK, DataOK
<1>3. ASSUME NEW v \in Workers, job'[v].pc \in Confirming \cup Selling
      PROVE  job'[v].order \in captured
  <2>1. CASE v # w
    BY <1>3, <2>1, StepKeepsOrder DEF CaptureInv
  <2>2. CASE v = w
    <3>1. job[w].pc \in Confirming \cup Selling
      BY <1>3, <2>2, StepTarget DEF Confirming, Selling, LookupOrder, ConfirmTx, Grant,
         SendPurchase, Split, At
    <3>2. job'[w] # Idle
      BY <1>3, <2>2 DEF Idle, Request, Confirming, Selling
    <3> QED
      BY <2>2, <3>1, <3>2, StepKeepsOrder DEF CaptureInv
  <2> QED
    BY <2>1, <2>2
<1>4. ASSUME NEW v \in Workers, job'[v].pc = "refundTx"
      PROVE  job'[v].order \in captured
  <2>1. CASE v # w
    BY <1>4, <2>1, StepKeepsOrder DEF CaptureInv
  <2>2. CASE v = w
    <3>1. Refundable(job[w].order) /\ job[w].order \in Orders
      BY <1>4, <2>2, StepTarget, OrderOfJob DEF RefundCheck, At, Refunding, TypeInv
    <3>2. job'[w] # Idle
      BY <1>4, <2>2 DEF Idle, Request
    <3> QED
      BY <2>2, <3>1, <3>2, StepKeepsOrder DEF CaptureInv, Refundable
  <2> QED
    BY <2>1, <2>2
<1>5. \A o \in Orders : /\ order'[o] # "PENDING" => o \in captured
                        /\ payment'[o] # "CREATED" => o \in captured
  <2>1. CASE ConfirmTx(w)
    BY <1>2, <2>1 DEF ConfirmTx, At, CaptureInv, Confirming
  <2>2. CASE RefundTx(w)
    BY <1>2, <2>2 DEF RefundTx, At, CaptureInv
  <2>3. CASE UNCHANGED sale
    BY <2>3 DEF CaptureInv
  <2> QED
    BY <2>1, <2>2, <2>3 DEF Step, SplitFails, LookupOrder, Grant, SendPurchase, Split,
       RecordSplit, FinishEvent, RetryPay, RetrySave, DecideRequest, RecordRequest,
       RecordReject, RefundCheck, ReverseTransfer, ReleaseReserve, RecordRefund
<1>6. \A s \in Seats :
        /\ ent'[s].order # None => ent'[s].order \in captured
        /\ ent'[s].order = None => ent'[s].status = "NONE" \/ ent'[s].source = "ADMIN"
  <2>1. CASE Grant(w)
    <3>1. job[w].order \in captured /\ job[w].order \in Orders
      BY <2>1, OrderOfJob DEF Grant, At, CaptureInv, Selling, TypeInv
    <3>2. job[w].order # None
      BY <3>1, OrderPaymentAssumption
    <3> QED
      BY <1>2, <2>1, <3>1, <3>2 DEF Grant, CaptureInv
  <2>2. CASE RefundTx(w)
    <3>1. job[w].order # None
      BY <2>2, OrderOfJob, OrderPaymentAssumption DEF RefundTx, At, Refunding, TypeInv
    <3>2. \A s \in Seats : /\ ent'[s].order = ent[s].order
                           /\ ent'[s].source = ent[s].source
                           /\ ent[s].order = None => ent'[s] = ent[s]
      BY <1>2, <2>2, <3>1 DEF RefundTx, Revoked, Entitlement
    <3> QED
      BY <3>2 DEF CaptureInv
  <2>3. CASE UNCHANGED ent
    BY <2>3 DEF CaptureInv
  <2> QED
    BY <2>1, <2>2, <2>3 DEF Step, SplitFails, LookupOrder, ConfirmTx, SendPurchase, Split,
       RecordSplit, FinishEvent, RetryPay, RetrySave, DecideRequest, RecordRequest,
       RecordReject, RefundCheck, ReverseTransfer, ReleaseReserve, RecordRefund
<1> QED
  BY <1>1, <1>3, <1>4, <1>5, <1>6 DEF CaptureInv

\* What a new request works on.
LEMMA Arrival ==
  ASSUME TypeInv, NEW w \in Workers, Arrive(w)
  PROVE  /\ UNCHANGED <<sale, ent, processed, acked, split, refund, captured, purchases>>
         /\ \A v \in Workers \ {w} : job'[v] = job[v]
         /\ job[w] = Idle
         /\ job'[w].pc \in {"confirm", "lookup", "retryPay", "refundCheck", "decide",
                            "recordReject"}
         /\ job'[w].pc \in Confirming => job'[w].order \in captured
         /\ job'[w].pc = "retryPay" => transfer[job'[w].order] = "ON_HOLD"
<1>1. job \in [Workers -> Job]
  BY DEF TypeInv, JobsOK
<1> QED
  BY <1>1 DEF Arrive, Verify, RetryTransfer, Refund, RequestRefund, RecordEvent,
     ApproveRefund, RejectRefund, Free, Start, Request, Confirming, sale, events, split,
     refund

LEMMA NextCaptureInv == TypeInv /\ CaptureInv /\ [Next]_vars => CaptureInv'
<1> SUFFICES ASSUME TypeInv, CaptureInv, [Next]_vars PROVE CaptureInv'
  OBVIOUS
<1> USE DEF sale, events, split, refund
<1>0. job \in [Workers -> Job] /\ ent \in [Seats -> Entitlement]
  BY DEF TypeInv, JobsOK, DataOK
<1>1. ASSUME NEW o \in Orders, Capture(o)
      PROVE  CaptureInv'
  BY <1>1 DEF Capture, CaptureInv
<1>2. ASSUME NEW e \in Events, DuplicateEvent(e) \/ InsertFails(e)
      PROVE  CaptureInv'
  BY <1>2 DEF DuplicateEvent, InsertFails, CaptureInv
<1>3. ASSUME NEW s \in Seats, GrantManual(s)
      PROVE  CaptureInv'
  <2>1. \A t \in Seats : ent'[t].order = ent[t].order
                         /\ (ent'[t] = ent[t] \/ ent'[t].source = "ADMIN")
    BY <1>0, <1>3 DEF GrantManual, Entitlement
  <2>2. UNCHANGED <<order, payment, captured, job>>
    BY <1>3 DEF GrantManual
  <2>3. \A t \in Seats : /\ ent'[t].order # None => ent'[t].order \in captured
                         /\ ent'[t].order = None => ent'[t].status = "NONE" \/ ent'[t].source = "ADMIN"
    BY <2>1 DEF CaptureInv
  <2> QED
    BY <2>2, <2>3 DEF CaptureInv
<1>4. ASSUME NEW s \in Seats, Revoke(s)
      PROVE  CaptureInv'
  <2>1. \A t \in Seats : /\ ent'[t].order = ent[t].order
                         /\ ent'[t].source = ent[t].source
                         /\ ent[t].status = "NONE" => ent'[t].status = "NONE"
    BY <1>0, <1>4 DEF Revoke, Entitlement
  <2> QED
    BY <1>4, <2>1 DEF Revoke, CaptureInv
<1>5. ASSUME NEW w \in Workers, Step(w) \/ SplitFails(w)
      PROVE  CaptureInv'
  BY <1>5, StepCaptureInv
<1>6. ASSUME NEW w \in Workers, Arrive(w)
      PROVE  CaptureInv'
  BY <1>6, Arrival DEF CaptureInv, Confirming, Selling
<1>7. ASSUME NEW w \in Workers, Abort(w)
      PROVE  CaptureInv'
  BY <1>0, <1>7 DEF Abort, CaptureInv, Idle, Request, Confirming, Selling
<1>8. CASE UNCHANGED vars
  BY <1>8 DEF vars, CaptureInv
<1> QED
  BY <1>1, <1>2, <1>3, <1>4, <1>5, <1>6, <1>7, <1>8 DEF Next

\* Nobody is given access by a purchase the provider has not been paid for,
\* however many confirmations, refunds, grants and faults interleave.
THEOREM AccessOnlyFromCaptureHolds == Spec => []AccessOnlyFromCapture
<1>1. Spec => []CaptureInv
  BY InitCaptureInv, NextCaptureInv, TypeInvariance, PTL DEF Spec
<1> QED
  BY <1>1, TypeInvariance, CaptureInvImpliesAccess, PTL

-----------------------------------------------------------------------------
(* One sale, one payout, one Purchase event.                               *)

Sells(w, o) == job[w].pc \in Selling /\ job[w].order = o

\* As long as nobody has refunded order o, its row lock lets one request
\* through: before the confirmation nothing has been done on its behalf, at
\* most one request is past it, and what that request has still to do has not
\* been done.
SaleOf(o) ==
  /\ order[o] \in {"PENDING", "PAID"}
  /\ order[o] = "PENDING" =>
       /\ purchases[o] = 0 /\ payouts[o].sale = 0 /\ transfer[o] = "NONE"
       /\ \A w \in Workers : ~ Sells(w, o)
  /\ \A v, w \in Workers : Sells(v, o) /\ Sells(w, o) => v = w
  /\ \A w \in Workers : Sells(w, o) =>
       /\ job[w].pc \in {"grant", "purchase"} => purchases[o] = 0
       /\ job[w].pc # "recordSplit" => payouts[o].sale = 0
       /\ transfer[o] = "NONE"
  /\ purchases[o] <= 1
  /\ payouts[o].sale <= 1

\* SaleOf every unrefunded order; only refunds reach the steps that end a
\* sale, and only an existing transfer is retried.
SaleInv ==
  /\ \A w \in Workers : job[w].pc \in {"reverse", "release", "recordRefund"}
                          => job[w].order \in refunded
  /\ \A w \in Workers : job[w].pc \in Retrying => transfer[job[w].order] # "NONE"
  /\ \A o \in Orders \ refunded : SaleOf(o)

LEMMA SaleInvImpliesOncePerSale == SaleInv => OncePerSale
  BY DEF SaleInv, SaleOf, OncePerSale

LEMMA InitSaleInv == Init => SaleInv
  BY DEF Init, SaleInv, SaleOf, Sells, Idle, Request, Selling, Retrying

\* An order keeps SaleOf when nothing is done on its behalf and no request
\* moves on with it.
LEMMA SaleOfKept ==
  ASSUME NEW o \in Orders, SaleOf(o),
         order'[o] = order[o], purchases'[o] = purchases[o],
         payouts'[o].sale = payouts[o].sale,
         transfer'[o] = transfer[o] \/ transfer[o] # "NONE",
         \A v \in Workers : Sells(v, o)' => job'[v] = job[v]
  PROVE  SaleOf(o)'
<1>1. \A v \in Workers : Sells(v, o)' => Sells(v, o)
  BY DEF Sells
<1> QED
  BY <1>1 DEF SaleOf

\* The request that sells o moves one step on.
LEMMA SaleOfStep ==
  ASSUME TypeInv, NEW w \in Workers, Step(w) \/ SplitFails(w), NEW o \in Orders,
         o \notin refunded', SaleInv, SaleOf(o), job[w].order = o
  PROVE  SaleOf(o)'
<1> USE DEF sale, events, split, refund
<1>1. /\ job \in [Workers -> Job]
      /\ order \in [Orders -> OrderStatus]
      /\ purchases \in [Orders -> Nat]
      /\ payouts \in [Orders -> Payout]
      /\ transfer \in [Orders -> TransferStatus]
  BY DEF TypeInv, JobsOK, DataOK
<1>2. \A v \in Workers \ {w} : job'[v] = job[v]
  BY StepKeepsOrder
<1>3. \A v \in Workers \ {w} : Sells(v, o)' <=> Sells(v, o)
  BY <1>2 DEF Sells
<1>4. CASE ConfirmTx(w) /\ order[o] # "PAID"
  <2>1. order[o] = "PENDING" /\ order'[o] = "PAID"
    BY <1>1, <1>4 DEF SaleOf, ConfirmTx
  <2>2. UNCHANGED <<purchases, payouts, transfer>>
    BY <1>4 DEF ConfirmTx
  <2>3. \A v \in Workers \ {w} : ~ Sells(v, o)'
    BY <1>3, <2>1 DEF SaleOf
  <2> QED
    BY <2>1, <2>2, <2>3 DEF SaleOf
<1>5. CASE Grant(w)
  <2>1. Sells(w, o) /\ job[w].pc = "grant"
    BY <1>5 DEF Grant, At, Sells, Selling
  <2>2. UNCHANGED <<order, purchases, payouts, transfer>>
    BY <1>5 DEF Grant
  <2>3. \A v \in Workers \ {w} : ~ Sells(v, o)'
    BY <1>3, <2>1 DEF SaleOf
  <2> QED
    BY <2>1, <2>2, <2>3 DEF SaleOf
<1>6. CASE SendPurchase(w)
  <2>1. Sells(w, o) /\ job[w].pc = "purchase"
    BY <1>6 DEF SendPurchase, At, Sells, Selling
  <2>2. UNCHANGED <<order, payouts, transfer>> /\ purchases'[o] = 1
    BY <1>1, <1>6, <2>1 DEF SendPurchase, SaleOf
  <2>3. \A v \in Workers \ {w} : ~ Sells(v, o)'
    BY <1>3, <2>1 DEF SaleOf
  <2>4. job'[w].pc = "split"
    BY <1>1, <1>6 DEF SendPurchase, Goto, Job
  <2> QED
    BY <2>1, <2>2, <2>3, <2>4 DEF SaleOf
<1>7. CASE Split(w)
  <2>1. Sells(w, o) /\ job[w].pc = "split"
    BY <1>7 DEF Split, At, Sells, Selling
  <2>2. UNCHANGED <<order, purchases, transfer>>
    BY <1>7 DEF Split
  <2>3. payouts[o].sale = 0 /\ payouts'[o].sale \in {0, 1}
    BY <1>1, <1>7, <2>1 DEF Split, SaleOf, Payout
  <2>4. \A v \in Workers \ {w} : ~ Sells(v, o)'
    BY <1>3, <2>1 DEF SaleOf
  <2>5. job'[w].pc \in {"recordSplit", "idle", "finish"}
    BY <1>1, <1>7 DEF Split, Return, Goto, Idle, Request, Job
  <2> QED
    BY <2>1, <2>2, <2>3, <2>4, <2>5 DEF SaleOf, Sells, Selling
<1>8. CASE RecordSplit(w) \/ SplitFails(w)
  <2>1. Sells(w, o)
    BY <1>8 DEF RecordSplit, SplitFails, At, Sells, Selling
  <2>2. UNCHANGED <<order, purchases, payouts>>
    BY <1>8 DEF RecordSplit, SplitFails
  <2>3. job'[w].pc \in {"idle", "finish"}
    BY <1>1, <1>8 DEF RecordSplit, SplitFails, Return, Goto, Idle, Request, Job
  <2>4. \A v \in Workers : ~ Sells(v, o)'
    BY <1>3, <2>1, <2>3 DEF SaleOf, Sells, Selling
  <2> QED
    BY <2>1, <2>2, <2>4 DEF SaleOf
<1>9. CASE RetrySave(w)
  <2>1. transfer[o] # "NONE"
    BY <1>9 DEF RetrySave, At, SaleInv, Retrying
  <2>2. UNCHANGED <<order, purchases, payouts>>
    BY <1>9 DEF RetrySave
  <2>3. ~ Sells(w, o)'
    BY <1>1, <1>9 DEF RetrySave, Sells, Idle, Request, Selling
  <2> QED
    BY <1>2, <2>1, <2>2, <2>3, SaleOfKept
<1>10. CASE RetryPay(w)
  <2>1. UNCHANGED <<order, purchases, transfer>> /\ payouts'[o].sale = payouts[o].sale
    BY <1>1, <1>10 DEF RetryPay, Payout
  <2>2. ~ Sells(w, o)'
    BY <1>1, <1>10 DEF RetryPay, Goto, Sells, Idle, Request, Selling, Job
  <2> QED
    BY <1>2, <2>1, <2>2, SaleOfKept
<1>11. CASE RefundTx(w)
  BY <1>11 DEF RefundTx
<1>12. CASE ReleaseReserve(w)
  <2>1. o \in refunded
    BY <1>12 DEF ReleaseReserve, At, SaleInv
  <2> QED
    BY <1>12, <2>1 DEF ReleaseReserve
<1>13. ASSUME UNCHANGED <<order, purchases, payouts, transfer>>, ~ Sells(w, o)'
       PROVE  SaleOf(o)'
  BY <1>2, <1>13, SaleOfKept
<1>14. ASSUME ConfirmTx(w), order[o] = "PAID"
       PROVE  SaleOf(o)'
  <2>1. ~ Sells(w, o)'
    BY <1>1, <1>14 DEF ConfirmTx, Return, Goto, Idle, Request, Job, Sells, Selling
  <2> QED
    BY <1>13, <1>14, <2>1 DEF ConfirmTx
<1>15. CASE LookupOrder(w) \/ FinishEvent(w) \/ DecideRequest(w) \/ RecordRequest(w)
              \/ RecordReject(w) \/ RefundCheck(w) \/ ReverseTransfer(w) \/ RecordRefund(w)
  <2>1. UNCHANGED <<order, purchases, payouts, transfer>>
    BY <1>15 DEF LookupOrder, FinishEvent, DecideRequest, RecordRequest, RecordReject,
       RefundCheck, ReverseTransfer, RecordRefund
  <2>2. ~ Sells(w, o)'
    <3>1. job' = [job EXCEPT ![w] = Idle] => job'[w].pc = "idle"
      BY <1>1 DEF Idle, Request
    <3>2. ASSUME NEW p, Goto(w, p) PROVE job'[w].pc = p
      BY <1>1, <3>2 DEF Goto, Job
    <3> QED
      BY <1>15, <3>1, <3>2 DEF LookupOrder, FinishEvent, DecideRequest, RecordRequest,
         RecordReject, RefundCheck, ReverseTransfer, RecordRefund, Sells, Selling
  <2> QED
    BY <1>13, <2>1, <2>2
<1> QED
  BY <1>4, <1>5, <1>6, <1>7, <1>8, <1>9, <1>10, <1>11, <1>12, <1>14, <1>15 DEF Step

\* A step of one slot does nothing on behalf of the other orders.
LEMMA SaleOfOther ==
  ASSUME TypeInv, NEW w \in Workers, Step(w) \/ SplitFails(w), NEW o \in Orders,
         SaleOf(o), job[w].order # o
  PROVE  SaleOf(o)'
<1> USE DEF sale, events, split, refund
<1>1. /\ job \in [Workers -> Job]
      /\ order \in [Orders -> OrderStatus]
      /\ purchases \in [Orders -> Nat]
      /\ payouts \in [Orders -> Payout]
      /\ transfer \in [Orders -> TransferStatus]
  BY DEF TypeInv, JobsOK, DataOK
<1>2. /\ order'[o] = order[o] /\ purchases'[o] = purchases[o]
      /\ payouts'[o] = payouts[o] /\ transfer'[o] = transfer[o]
  BY <1>1 DEF Step, SplitFails, LookupOrder, ConfirmTx, Grant, SendPurchase, Split,
     RecordSplit, FinishEvent, RetryPay, RetrySave, DecideRequest, RecordRequest,
     RecordReject, RefundCheck, RefundTx, ReverseTransfer, ReleaseReserve, RecordRefund
<1>3. \A v \in Workers : Sells(v, o)' => job'[v] = job[v]
  <2>1. \A v \in Workers \ {w} : job'[v] = job[v]
    BY StepKeepsOrder
  <2>2. ~ Sells(w, o)'
    <3>1. job'[w] = Idle \/ job'[w].order = job[w].order
      BY StepKeepsOrder
    <3> QED
      BY <3>1 DEF Sells, Idle, Request, Selling
  <2> QED
    BY <2>1, <2>2
<1> QED
  BY <1>2, <1>3, SaleOfKept

\* Refunded orders stay refunded, and transfer rows stay.
LEMMA StepMonotone ==
  ASSUME TypeInv, NEW w \in Workers, Step(w) \/ SplitFails(w)
  PROVE  /\ refunded \subseteq refunded'
         /\ \A o \in Orders : transfer[o] # "NONE" => transfer'[o] # "NONE"
  BY DEF Step, SplitFails, LookupOrder, ConfirmTx, Grant, SendPurchase, Split,
     RecordSplit, FinishEvent, RetryPay, RetrySave, DecideRequest, RecordRequest,
     RecordReject, RefundCheck, RefundTx, ReverseTransfer, ReleaseReserve, RecordRefund,
     TypeInv, DataOK, sale, events, split, refund

LEMMA StepSaleInv ==
  ASSUME TypeInv, SaleInv, NEW w \in Workers, Step(w) \/ SplitFails(w)
  PROVE  SaleInv'
<1>1. \A o \in Orders \ refunded : SaleOf(o)
  BY DEF SaleInv
<1>2. \A o \in Orders \ refunded' : SaleOf(o)'
  BY <1>1, SaleOfStep, SaleOfOther, StepMonotone
<1>3. ASSUME NEW v \in Workers, job'[v].pc \in {"reverse", "release", "recordRefund"}
      PROVE  job'[v].order \in refunded'
  <2>1. CASE v # w
    BY <1>3, <2>1, StepKeepsOrder, StepMonotone DEF SaleInv
  <2>2. CASE v = w
    <3>1. job'[w].order = job[w].order
      BY <1>3, <2>2, StepKeepsOrder DEF Idle, Request
    <3>2. RefundTx(w) \/ ReverseTransfer(w) \/ ReleaseReserve(w)
      <4>1. job \in [Workers -> Job]
        BY DEF TypeInv, JobsOK
      <4>2. job' = [job EXCEPT ![w] = Idle] => job'[w].pc = "idle"
        BY <4>1 DEF Idle, Request
      <4>3. ASSUME NEW p, Goto(w, p) PROVE job'[w].pc = p
        BY <4>1, <4>3 DEF Goto, Job
      <4>4. job' = [job EXCEPT ![w].pc = "recordSplit", ![w].paidOut = TRUE]
              => job'[w].pc = "recordSplit"
        BY <4>1 DEF Job
      <4> QED
        BY <1>3, <2>2, <4>2, <4>3, <4>4 DEF Step, SplitFails, Return, LookupOrder,
           ConfirmTx, Grant, SendPurchase, Split, RecordSplit, FinishEvent, RetryPay,
           RetrySave, DecideRequest, RecordRequest, RecordReject, RefundCheck, RecordRefund
    <3> QED
      BY <2>2, <3>1, <3>2, StepMonotone
         DEF RefundTx, ReverseTransfer, ReleaseReserve, At, SaleInv
  <2> QED
    BY <2>1, <2>2
<1>4. ASSUME NEW v \in Workers, job'[v].pc \in Retrying
      PROVE  transfer'[job'[v].order] # "NONE"
  <2>1. CASE v # w
    <3>1. job[v].pc \in Retrying /\ job'[v] = job[v]
      BY <1>4, <2>1, StepKeepsOrder
    <3>2. job[v].order \in Orders /\ transfer[job[v].order] # "NONE"
      BY <3>1, OrderOfJob DEF SaleInv, TypeInv
    <3> QED
      BY <3>1, <3>2, StepMonotone
  <2>2. CASE v = w
    <3>1. RetryPay(w) /\ job'[w].order = job[w].order
      BY <1>4, <2>2, StepTarget, StepKeepsOrder DEF Retrying, Idle, Request
    <3>2. job[w].order \in Orders /\ transfer[job[w].order] # "NONE"
      BY <3>1, OrderOfJob DEF RetryPay, At, SaleInv, Retrying, TypeInv
    <3> QED
      BY <2>2, <3>1, <3>2, StepMonotone
  <2> QED
    BY <2>1, <2>2
<1> QED
  BY <1>2, <1>3, <1>4 DEF SaleInv

LEMMA NextSaleInv == TypeInv /\ SaleInv /\ [Next]_vars => SaleInv'
<1> SUFFICES ASSUME TypeInv, SaleInv, [Next]_vars PROVE SaleInv'
  OBVIOUS
<1> USE DEF sale, events, split, refund
<1>0. job \in [Workers -> Job]
  BY DEF TypeInv, JobsOK
<1>1. ASSUME NEW w \in Workers, Step(w) \/ SplitFails(w)
      PROVE  SaleInv'
  BY <1>1, StepSaleInv
<1>2. ASSUME NEW w \in Workers, Arrive(w)
      PROVE  SaleInv'
  BY <1>2, Arrival DEF SaleInv, SaleOf, Sells, Selling, Retrying
<1>3. ASSUME NEW w \in Workers, Abort(w)
      PROVE  SaleInv'
  <2>1. \A v \in Workers : job'[v] = job[v] \/ job'[v].pc = "idle"
    BY <1>0, <1>3 DEF Abort, Idle, Request
  <2>2. UNCHANGED <<order, purchases, payouts, transfer, refunded>>
    BY <1>3 DEF Abort
  <2> QED
    BY <2>1, <2>2 DEF SaleInv, SaleOf, Sells, Selling, Retrying
<1>4. CASE UNCHANGED <<order, purchases, payouts, transfer, refunded, job>>
  BY <1>4 DEF SaleInv, SaleOf, Sells
<1> QED
  BY <1>1, <1>2, <1>3, <1>4
     DEF Next, vars, Capture, DuplicateEvent, InsertFails, GrantManual, Revoke

\* The browser's /verify and the provider's two webhooks, in any number and any
\* interleaving, sell an unrefunded order once: one Purchase event, one payout.
THEOREM OncePerSaleHolds == Spec => []OncePerSale
<1>1. Spec => []SaleInv
  BY InitSaleInv, NextSaleInv, TypeInvariance, PTL DEF Spec
<1> QED
  BY <1>1, SaleInvImpliesOncePerSale, PTL

-----------------------------------------------------------------------------
(* What holds when no two requests work on one order and none of them dies: *)
(* the guarantees the handlers keep although they lock only the sale.       *)

\* No two running requests share an order or a refund row ...
Solo ==
  \A v, w \in Workers :
    \/ job[v].order = job[w].order /\ job[v].order # None
    \/ job[v].row = job[w].row /\ job[v].row # None
    => v = w

\* ... and none has died.
Undisturbed == Solo /\ budget["fault"] = Budget["fault"]

Pays(w, o, p) == job[w].order = o /\ job[w].pc = p

\* A request that sells or retries works on a PAID order whose transfer nobody
\* else has written, and has paid out what its record says.
SaleStands(w) ==
  LET o == job[w].order IN
  /\ job[w].pc \in Selling \cup Retrying => order[o] = "PAID"
  /\ job[w].pc \in Confirming \cup (Selling \ {"recordSplit"}) => ~ job[w].paidOut
  /\ job[w].pc = "recordSplit" =>
       transfer[o] = "NONE" /\ payouts[o].sale = Held(job[w].paidOut)
  /\ job[w].pc \in Retrying => transfer[o] = "ON_HOLD"
  /\ job[w].pc = "retrySave" => payouts[o].retry = 1

\* A refund releases a transfer that stands, never on an Academic Head's own
\* authority, and decides a row that still waits for a decision.
RefundStands(w) ==
  LET o == job[w].order IN
  /\ job[w].pc = "release" => transfer[o] = "PROCESSED"
  /\ job[w].byHead =>
       /\ job[w].pc # "release"
       /\ job[w].pc \in {"refundCheck", "refundTx", "reverse"} => transfer[o] # "PROCESSED"
  /\ job[w].row # None => AwaitsApproval(job[w].row)

\* One payout; before the transfer row says so, the request that made it is
\* about to write the row.
Paid(o) ==
  /\ payouts[o].sale + payouts[o].retry <= 1
  /\ transfer[o] = "NONE" =>
       /\ payouts[o].retry = 0
       /\ payouts[o].sale = 0 \/ \E w \in Workers : Pays(w, o, "recordSplit")
  /\ transfer[o] = "ON_HOLD" =>
       /\ payouts[o].sale = 0
       /\ payouts[o].retry = 0 \/ \E w \in Workers : Pays(w, o, "retrySave")

\* After a full refund no seat is held through o, and its transfer stands only
\* while the request is on its way to reverse it.
Undone(o) ==
  order[o] = "REFUNDED_FULL" =>
    /\ \A s \in Seats :
         ~ (ent[s].status = "ACTIVE" /\ ent[s].source = "PURCHASE" /\ ent[s].order = o)
    /\ transfer[o] = "PROCESSED" => \E w \in Workers : Pays(w, o, "reverse") \/ Pays(w, o, "release")

OrderStands(o) == Paid(o) /\ Undone(o) /\ (payment[o] = "PAID" => order[o] = "PAID")

Standing == {o \in Orders : transfer[o] = "PROCESSED"}
ReserveStands == IsFiniteSet(Standing) /\ reserve = Cardinality(Standing)

AloneInv ==
  /\ \A w \in Workers : SaleStands(w) /\ RefundStands(w)
  /\ \A o \in Orders : OrderStands(o)
  /\ ReserveStands

LEMMA InitAloneInv == Init => AloneInv
<1> SUFFICES ASSUME Init PROVE AloneInv
  OBVIOUS
<1>1. \A w \in Workers : SaleStands(w) /\ RefundStands(w)
  BY DEF Init, Idle, Request, SaleStands, RefundStands, Selling, Retrying, Confirming
<1>2. \A o \in Orders : OrderStands(o)
  BY DEF Init, OrderStands, Paid, Undone
<1>3. Standing = {}
  BY DEF Init, Standing
<1>4. ReserveStands
  BY <1>3, FS_EmptySet DEF Init, ReserveStands
<1> QED
  BY <1>1, <1>2, <1>4 DEF AloneInv

LEMMA AloneInvImplies ==
  ASSUME TypeInv, AloneInv
  PROVE  TransfersAddUp /\ FullRefundUndoesSale
<1>1. ReserveMatchesTransfers
  BY DEF AloneInv, ReserveStands, Standing, ReserveMatchesTransfers
<1>2. RetryNeverDoublePays
  BY DEF AloneInv, OrderStands, Paid, RetryNeverDoublePays
<1>3. FullRefundRevokes
  BY DEF AloneInv, OrderStands, Undone, FullRefundRevokes
<1>4. FullRefundReversesTransfer
  BY DEF AloneInv, OrderStands, Undone, FullRefundReversesTransfer, Quiet, Pays
<1> QED
  BY <1>1, <1>2, <1>3, <1>4 DEF TransfersAddUp, FullRefundUndoesSale

\* A step of slot w touches only the tables' rows of its own order and row, and
\* refund rows that are free.
LEMMA StepFrame ==
  ASSUME TypeInv, NEW w \in Workers, Step(w)
  PROVE  /\ \A q \in Orders \ {job[w].order} :
              /\ order'[q] = order[q] /\ payment'[q] = payment[q]
              /\ transfer'[q] = transfer[q] /\ payouts'[q] = payouts[q]
         /\ \A s \in Seats : ent'[s] = ent[s] \/ ent'[s].order = job[w].order
         /\ \A r \in RefundIds :
              refunds'[r] = refunds[r] \/ r = job[w].row \/ refunds[r].status = "NONE"
<1> USE DEF sale, events, split, refund
<1>1. /\ order \in [Orders -> OrderStatus] /\ payment \in [Orders -> PaymentStatus]
      /\ transfer \in [Orders -> TransferStatus] /\ payouts \in [Orders -> Payout]
      /\ ent \in [Seats -> Entitlement] /\ refunds \in [RefundIds -> RefundRow]
  BY DEF TypeInv, DataOK, RowsOK
<1>2. \A q \in Orders \ {job[w].order} :
              /\ order'[q] = order[q] /\ payment'[q] = payment[q]
              /\ transfer'[q] = transfer[q] /\ payouts'[q] = payouts[q]
  BY <1>1 DEF Step, LookupOrder, ConfirmTx, Grant, SendPurchase, Split,
     RecordSplit, FinishEvent, RetryPay, RetrySave, DecideRequest, RecordRequest,
     RecordReject, RefundCheck, RefundTx, ReverseTransfer, ReleaseReserve, RecordRefund
<1>3. \A s \in Seats : ent'[s] = ent[s] \/ ent'[s].order = job[w].order
  <2>1. CASE Grant(w)
    BY <1>1, <2>1 DEF Grant
  <2>2. CASE RefundTx(w)
    BY <1>1, <2>2 DEF RefundTx, Revoked, Entitlement
  <2>3. CASE UNCHANGED ent
    BY <2>3
  <2> QED
    BY <2>1, <2>2, <2>3 DEF Step, LookupOrder, ConfirmTx, SendPurchase, Split, RecordSplit,
       FinishEvent, RetryPay, RetrySave, DecideRequest, RecordRequest, RecordReject,
       RefundCheck, ReverseTransfer, ReleaseReserve, RecordRefund
<1>4. \A r \in RefundIds :
        refunds'[r] = refunds[r] \/ r = job[w].row \/ refunds[r].status = "NONE"
  BY <1>1 DEF Step, LookupOrder, ConfirmTx, Grant, SendPurchase, Split,
     RecordSplit, FinishEvent, RetryPay, RetrySave, DecideRequest, RecordRequest,
     RecordReject, RefundCheck, RefundTx, ReverseTransfer, ReleaseReserve, RecordRefund
<1> QED
  BY <1>2, <1>3, <1>4

\* The requests of the other slots stand as they did.
LEMMA OthersStand ==
  ASSUME TypeInv, AloneInv, Solo, NEW w \in Workers, Step(w), NEW v \in Workers \ {w}
  PROVE  SaleStands(v)' /\ RefundStands(v)'
<1>1. job'[v] = job[v] /\ SaleStands(v) /\ RefundStands(v)
  BY StepKeepsOrder DEF AloneInv
<1>2. job[v].pc \in Selling \cup Retrying \cup Refunding =>
        /\ order'[job[v].order] = order[job[v].order]
        /\ transfer'[job[v].order] = transfer[job[v].order]
        /\ payouts'[job[v].order] = payouts[job[v].order]
  <2> SUFFICES ASSUME job[v].pc \in Selling \cup Retrying \cup Refunding
               PROVE  /\ order'[job[v].order] = order[job[v].order]
                      /\ transfer'[job[v].order] = transfer[job[v].order]
                      /\ payouts'[job[v].order] = payouts[job[v].order]
    OBVIOUS
  <2>1. job[v].order \in Orders
    BY OrderOfJob DEF TypeInv
  <2>2. job[v].order # job[w].order
    BY <2>1, OrderPaymentAssumption DEF Solo
  <2> QED
    BY <2>1, <2>2, StepFrame
<1>3. job[v].row # None => AwaitsApproval(job[v].row)'
  <2> SUFFICES ASSUME job[v].row # None PROVE AwaitsApproval(job[v].row)'
    OBVIOUS
  <2>1. job[v].row \in RefundIds /\ job[v].row # job[w].row
    BY DEF Solo, TypeInv, JobsOK, Job
  <2>2. refunds[job[v].row].status = "PENDING_APPROVAL"
    BY <1>1 DEF RefundStands, AwaitsApproval
  <2>3. refunds'[job[v].row] = refunds[job[v].row]
    BY <2>1, <2>2, StepFrame
  <2> QED
    BY <1>1, <2>2, <2>3 DEF AwaitsApproval
<1>4. SaleStands(v)'
  BY <1>1, <1>2 DEF SaleStands, Held, Selling, Retrying
<1>5. RefundStands(v)'
  BY <1>1, <1>2, <1>3 DEF RefundStands, Refunding
<1> QED
  BY <1>4, <1>5

\* A request that ends stands.
LEMMA IdleStands ==
  ASSUME TypeInv, NEW w \in Workers, job' = [job EXCEPT ![w] = Idle]
  PROVE  SaleStands(w)' /\ RefundStands(w)'
<1>1. job'[w] = Idle
  BY DEF TypeInv, JobsOK
<1> QED
  BY <1>1 DEF SaleStands, RefundStands, Idle, Request, Selling, Retrying, Confirming

\* What moving on to p asks of the tables.
LEMMA GotoStands ==
  ASSUME TypeInv, AloneInv, NEW w \in Workers, NEW p, Goto(w, p), UNCHANGED refunds,
         p \in Selling \cup Retrying => order'[job[w].order] = "PAID",
         p \in Confirming \cup (Selling \ {"recordSplit"}) => ~ job[w].paidOut,
         p = "recordSplit" =>
           /\ transfer'[job[w].order] = "NONE"
           /\ payouts'[job[w].order].sale = Held(job[w].paidOut),
         p \in Retrying => transfer'[job[w].order] = "ON_HOLD",
         p = "retrySave" => payouts'[job[w].order].retry = 1,
         p = "release" => transfer'[job[w].order] = "PROCESSED" /\ ~ job[w].byHead,
         p \in {"refundCheck", "refundTx", "reverse"} /\ job[w].byHead
           => transfer'[job[w].order] # "PROCESSED"
  PROVE  SaleStands(w)' /\ RefundStands(w)'
<1>1. job'[w] = [job[w] EXCEPT !.pc = p] /\ job[w] \in Job
  BY DEF Goto, TypeInv, JobsOK
<1>2. /\ job'[w].pc = p /\ job'[w].order = job[w].order /\ job'[w].row = job[w].row
      /\ job'[w].byHead = job[w].byHead /\ job'[w].paidOut = job[w].paidOut
  BY <1>1 DEF Job
<1>3. SaleStands(w)'
  BY <1>2 DEF SaleStands, Held
<1>4. RefundStands(w)
  BY DEF AloneInv
<1>5. RefundStands(w)'
  BY <1>2, <1>4 DEF RefundStands, AwaitsApproval
<1> QED
  BY <1>3, <1>5

LEMMA ReturnStands ==
  ASSUME TypeInv, AloneInv, NEW w \in Workers, Return(w), UNCHANGED refunds
  PROVE  SaleStands(w)' /\ RefundStands(w)'
<1>1. CASE job' = [job EXCEPT ![w] = Idle]
  BY <1>1, IdleStands
<1>2. CASE Goto(w, "finish")
  BY <1>2, GotoStands DEF Selling, Retrying, Confirming
<1> QED
  BY <1>1, <1>2 DEF Return

\* The request that moves on stands.
LEMMA OwnStands ==
  ASSUME TypeInv, AloneInv, Solo, NEW w \in Workers, Step(w)
  PROVE  SaleStands(w)' /\ RefundStands(w)'
<1> USE DEF sale, events, split, refund
<1>1. /\ job[w] \in Job /\ SaleStands(w) /\ RefundStands(w)
      /\ order \in [Orders -> OrderStatus] /\ transfer \in [Orders -> TransferStatus]
      /\ payouts \in [Orders -> Payout]
  BY DEF TypeInv, JobsOK, DataOK, AloneInv
<1>2. CASE LookupOrder(w)
  <2>1. ~ job[w].paidOut
    BY <1>1, <1>2 DEF LookupOrder, At, SaleStands, Confirming
  <2> QED
    BY <1>2, <2>1, GotoStands DEF LookupOrder, Selling, Retrying, Confirming
<1>3. CASE ConfirmTx(w)
  <2>1. ~ job[w].paidOut /\ job[w].order \in Orders
    BY <1>1, <1>3, OrderOfJob DEF ConfirmTx, At, SaleStands, Confirming, TypeInv
  <2>2. CASE order[job[w].order] = "PAID"
    BY <1>3, <2>2, ReturnStands DEF ConfirmTx
  <2>3. CASE order[job[w].order] # "PAID"
    <3>1. Goto(w, "grant") /\ order'[job[w].order] = "PAID" /\ UNCHANGED refunds
      BY <1>1, <1>3, <2>1, <2>3 DEF ConfirmTx
    <3> QED
      BY <2>1, <3>1, GotoStands DEF Selling, Retrying
  <2> QED
    BY <2>2, <2>3
<1>4. CASE Grant(w)
  <2>1. ~ job[w].paidOut /\ order[job[w].order] = "PAID"
    BY <1>1, <1>4 DEF Grant, At, SaleStands, Selling
  <2> QED
    BY <1>4, <2>1, GotoStands DEF Grant, Selling, Retrying
<1>5. CASE SendPurchase(w)
  <2>1. ~ job[w].paidOut /\ order[job[w].order] = "PAID"
    BY <1>1, <1>5 DEF SendPurchase, At, SaleStands, Selling
  <2> QED
    BY <1>5, <2>1, GotoStands DEF SendPurchase, Selling, Retrying
<1>6. CASE Split(w)
  <2> DEFINE o == job[w].order
  <2>1. /\ o \in Orders /\ ~ job[w].paidOut /\ order[o] = "PAID"
        /\ UNCHANGED <<order, transfer, refunds>>
    BY <1>1, <1>6, OrderOfJob DEF Split, At, SaleStands, Selling, TypeInv
  <2>2. transfer[o] = "NONE" => payouts[o].sale = 0
    <3>1. \A v \in Workers : ~ Pays(v, o, "recordSplit")
      BY <1>6, <2>1, OrderPaymentAssumption DEF Split, At, Pays, Solo
    <3> QED
      BY <2>1, <3>1 DEF AloneInv, OrderStands, Paid
  <2>3. ASSUME transfer[o] = "NONE", payouts' = [payouts EXCEPT ![o].sale = @ + 1],
               job' = [job EXCEPT ![w].pc = "recordSplit", ![w].paidOut = TRUE]
        PROVE  SaleStands(w)' /\ RefundStands(w)'
    <3>1. job'[w] = [job[w] EXCEPT !.pc = "recordSplit", !.paidOut = TRUE]
      BY <2>3 DEF TypeInv, JobsOK
    <3>2. /\ job'[w].pc = "recordSplit" /\ job'[w].order = o /\ job'[w].row = job[w].row
          /\ job'[w].paidOut = TRUE
      BY <1>1, <3>1 DEF Job
    <3>3. payouts'[o].sale = 1
      BY <1>1, <2>1, <2>2, <2>3 DEF Payout
    <3>4. SaleStands(w)'
      BY <2>1, <2>3, <3>2, <3>3 DEF SaleStands, Held, Selling, Retrying, Confirming
    <3>5. RefundStands(w)'
      BY <1>1, <2>1, <3>2 DEF RefundStands, AwaitsApproval
    <3> QED
      BY <3>4, <3>5
  <2>4. ASSUME transfer[o] = "NONE", Goto(w, "recordSplit"), UNCHANGED payouts
        PROVE  SaleStands(w)' /\ RefundStands(w)'
    BY <2>1, <2>2, <2>4, GotoStands DEF Held, Selling, Retrying, Confirming
  <2> QED
    BY <1>6, <2>1, <2>3, <2>4, ReturnStands DEF Split
<1>7. CASE RecordSplit(w)
  BY <1>7, ReturnStands DEF RecordSplit
<1>8. CASE RetryPay(w)
  <2> DEFINE o == job[w].order
  <2>1. /\ o \in Orders /\ order[o] = "PAID" /\ transfer[o] = "ON_HOLD"
        /\ UNCHANGED <<order, transfer, refunds>>
    BY <1>1, <1>8, OrderOfJob DEF RetryPay, At, SaleStands, Retrying, TypeInv
  <2>2. payouts[o].retry = 0
    <3>1. \A v \in Workers : ~ Pays(v, o, "retrySave")
      BY <1>8, <2>1, OrderPaymentAssumption DEF RetryPay, At, Pays, Solo
    <3> QED
      BY <2>1, <3>1 DEF AloneInv, OrderStands, Paid
  <2>3. ASSUME payouts' = [payouts EXCEPT ![o].retry = @ + 1], Goto(w, "retrySave")
        PROVE  SaleStands(w)' /\ RefundStands(w)'
    <3>1. payouts'[o].retry = 1
      BY <1>1, <2>1, <2>2, <2>3 DEF Payout
    <3> QED
      BY <2>1, <2>3, <3>1, GotoStands DEF Selling, Retrying, Confirming
  <2> QED
    BY <1>8, <2>3, IdleStands DEF RetryPay
<1>9. CASE DecideRequest(w)
  BY <1>9, GotoStands DEF DecideRequest, Selling, Retrying, Confirming
<1>10. CASE RefundCheck(w)
  <2>1. job[w].byHead => transfer[job[w].order] # "PROCESSED"
    BY <1>1, <1>10 DEF RefundCheck, At, RefundStands
  <2> QED
    BY <1>10, <2>1, IdleStands, GotoStands DEF RefundCheck, Selling, Retrying, Confirming
<1>11. CASE RefundTx(w)
  <2>1. job[w].byHead => transfer[job[w].order] # "PROCESSED"
    BY <1>1, <1>11 DEF RefundTx, At, RefundStands
  <2>2. Goto(w, "reverse") /\ UNCHANGED <<transfer, refunds>>
    BY <1>11 DEF RefundTx
  <2> QED
    BY <2>1, <2>2, GotoStands DEF Selling, Retrying, Confirming
<1>12. CASE ReverseTransfer(w)
  <2>1. job[w].byHead => transfer[job[w].order] # "PROCESSED"
    BY <1>1, <1>12 DEF ReverseTransfer, At, RefundStands
  <2> QED
    BY <1>12, <2>1, GotoStands DEF ReverseTransfer, Selling, Retrying, Confirming
<1>13. CASE ReleaseReserve(w)
  BY <1>13, GotoStands DEF ReleaseReserve, Selling, Retrying, Confirming
<1>14. CASE FinishEvent(w) \/ RetrySave(w) \/ RecordRequest(w) \/ RecordReject(w) \/ RecordRefund(w)
  BY <1>14, IdleStands DEF FinishEvent, RetrySave, RecordRequest, RecordReject, RecordRefund
<1> QED
  BY <1>2, <1>3, <1>4, <1>5, <1>6, <1>7, <1>8, <1>9, <1>10, <1>11, <1>12, <1>13, <1>14 DEF Step

\* The orders that the request of slot w does not work on stand as they did.
LEMMA OtherOrdersStand ==
  ASSUME TypeInv, AloneInv, NEW w \in Workers, Step(w), NEW q \in Orders \ {job[w].order}
  PROVE  OrderStands(q)'
<1>1. /\ order'[q] = order[q] /\ payment'[q] = payment[q]
      /\ transfer'[q] = transfer[q] /\ payouts'[q] = payouts[q]
  BY StepFrame
<1>2. \A v \in Workers \ {w} : job'[v] = job[v]
  BY StepKeepsOrder
<1>3. \A v \in Workers, p \in Pcs : Pays(v, q, p) => Pays(v, q, p)'
  BY <1>2 DEF Pays
<1>4. OrderStands(q)
  BY DEF AloneInv
<1>5. Paid(q)'
  BY <1>1, <1>3, <1>4 DEF OrderStands, Paid, Pcs, Selling, Retrying
<1>6. Undone(q)'
  <2>1. \A s \in Seats : ent'[s] = ent[s] \/ ent'[s].order # q
    BY StepFrame
  <2> QED
    BY <1>1, <1>3, <1>4, <2>1 DEF OrderStands, Undone, Pcs, Refunding
<1> QED
  BY <1>1, <1>4, <1>5, <1>6 DEF OrderStands

\* With one request at work on o, what some request does is what this one does.
LEMMA OnlyWorker ==
  ASSUME Solo, NEW w \in Workers, job[w].order \in Orders, NEW v \in Workers, NEW p,
         Pays(v, job[w].order, p)
  PROVE  v = w /\ job[w].pc = p
  BY OrderPaymentAssumption DEF Pays, Solo

\* The order that the request works on stands.
LEMMA OwnOrderStands ==
  ASSUME TypeInv, AloneInv, Solo, NEW w \in Workers, Step(w), NEW o \in Orders,
         job[w].order = o
  PROVE  OrderStands(o)'
<1> USE DEF sale, events, split, refund
<1> DEFINE p == job[w].pc
<1>1. /\ job \in [Workers -> Job] /\ SaleStands(w) /\ RefundStands(w)
      /\ order \in [Orders -> OrderStatus] /\ payment \in [Orders -> PaymentStatus]
      /\ transfer \in [Orders -> TransferStatus] /\ payouts \in [Orders -> Payout]
      /\ ent \in [Seats -> Entitlement] /\ SeatOf \in [Orders -> Seats]
  BY OrderPaymentAssumption DEF TypeInv, JobsOK, DataOK, AloneInv
<1>2. OrderStands(o) /\ payouts[o].sale \in Nat /\ payouts[o].retry \in Nat
  BY <1>1 DEF AloneInv, Payout
<1>3. \A v \in Workers, q \in Pcs : Pays(v, o, q) => v = w /\ p = q
  BY OnlyWorker
<1>4. ASSUME NEW q \in Pcs, Goto(w, q)
      PROVE  Pays(w, o, q)'
  BY <1>1, <1>4 DEF Goto, Pays, Job
\* A step that leaves the tables alone.
<1>5. ASSUME UNCHANGED <<order, payment, transfer, payouts>>,
             p \notin {"recordSplit", "retrySave", "reverse", "release"},
             \A s \in Seats : ent'[s] = ent[s] \/ order[o] = "PAID"
      PROVE  OrderStands(o)'
  <2>1. \A v \in Workers : ~ Pays(v, o, "recordSplit") /\ ~ Pays(v, o, "retrySave")
                           /\ ~ Pays(v, o, "reverse") /\ ~ Pays(v, o, "release")
    BY <1>3, <1>5 DEF Pcs, Selling, Retrying, Refunding
  <2>2. Paid(o)'
    BY <1>2, <1>5, <2>1 DEF OrderStands, Paid
  <2>3. Undone(o)'
    BY <1>2, <1>5, <2>1 DEF OrderStands, Undone
  <2> QED
    BY <1>2, <1>5, <2>2, <2>3 DEF OrderStands
<1>6. CASE ConfirmTx(w)
  <2>1. CASE order[o] = "PAID"
    BY <1>5, <1>6, <2>1 DEF ConfirmTx, At
  <2>2. CASE order[o] # "PAID"
    <3>1. order'[o] = "PAID" /\ payment'[o] = "PAID" /\ UNCHANGED <<transfer, payouts>>
      BY <1>1, <1>6, <2>2 DEF ConfirmTx
    <3>2. \A v \in Workers : ~ Pays(v, o, "recordSplit") /\ ~ Pays(v, o, "retrySave")
      BY <1>3, <1>6 DEF ConfirmTx, At, Pcs, Selling, Retrying
    <3> QED
      BY <1>2, <3>1, <3>2 DEF OrderStands, Paid, Undone
  <2> QED
    BY <2>1, <2>2
<1>7. CASE Grant(w)
  <2>1. order[o] = "PAID"
    BY <1>1, <1>7 DEF Grant, At, SaleStands, Selling
  <2> QED
    BY <1>5, <1>7, <2>1 DEF Grant, At
<1>8. CASE SendPurchase(w) \/ LookupOrder(w) \/ FinishEvent(w) \/ DecideRequest(w)
             \/ RecordRequest(w) \/ RecordReject(w) \/ RefundCheck(w) \/ RecordRefund(w)
  BY <1>5, <1>8 DEF SendPurchase, LookupOrder, FinishEvent, DecideRequest, RecordRequest,
     RecordReject, RefundCheck, RecordRefund, At
<1>9. CASE Split(w)
  <2>1. CASE UNCHANGED payouts
    BY <1>5, <1>9, <2>1 DEF Split, At
  <2>2. CASE /\ transfer[o] = "NONE" /\ payouts' = [payouts EXCEPT ![o].sale = @ + 1]
             /\ job' = [job EXCEPT ![w].pc = "recordSplit", ![w].paidOut = TRUE]
    <3>1. \A v \in Workers : ~ Pays(v, o, "recordSplit")
      BY <1>3, <1>9 DEF Split, At, Pcs, Selling
    <3>2. payouts[o].sale = 0 /\ payouts[o].retry = 0
      BY <1>2, <2>2, <3>1 DEF OrderStands, Paid
    <3>3. payouts'[o].sale = 1 /\ payouts'[o].retry = 0
      BY <1>1, <2>2, <3>2 DEF Payout
    <3>4. Pays(w, o, "recordSplit")'
      BY <1>1, <2>2 DEF Pays, Job
    <3>5. UNCHANGED <<order, payment, transfer, ent>> /\ order[o] = "PAID"
      BY <1>1, <1>9 DEF Split, At, SaleStands, Selling
    <3> QED
      BY <1>2, <2>2, <3>3, <3>4, <3>5 DEF OrderStands, Paid, Undone
  <2> QED
    BY <1>9, <2>1, <2>2 DEF Split
<1>10. CASE RecordSplit(w)
  <2>1. /\ transfer[o] = "NONE" /\ payouts[o].sale = Held(job[w].paidOut) /\ order[o] = "PAID"
        /\ payouts[o].retry = 0
    BY <1>1, <1>2, <1>10 DEF RecordSplit, At, SaleStands, Selling, OrderStands, Paid
  <2>2. transfer'[o] = IF job[w].paidOut THEN "PROCESSED" ELSE "ON_HOLD"
    BY <1>1, <1>10, <2>1 DEF RecordSplit
  <2>3. UNCHANGED <<order, payment, payouts, ent>>
    BY <1>10 DEF RecordSplit
  <2>4. ~ job[w].paidOut => payouts[o].sale = 0
    BY <2>1 DEF Held
  <2> QED
    BY <1>2, <2>1, <2>2, <2>3, <2>4 DEF OrderStands, Paid, Undone
<1>11. CASE RetryPay(w)
  <2>1. CASE UNCHANGED payouts
    BY <1>5, <1>11, <2>1 DEF RetryPay, At
  <2>2. CASE payouts' = [payouts EXCEPT ![o].retry = @ + 1] /\ Goto(w, "retrySave")
    <3>1. \A v \in Workers : ~ Pays(v, o, "retrySave")
      BY <1>3, <1>11 DEF RetryPay, At, Pcs, Retrying
    <3>2. transfer[o] = "ON_HOLD" /\ order[o] = "PAID"
      BY <1>1, <1>11 DEF RetryPay, At, SaleStands, Retrying
    <3>3. payouts[o].sale = 0 /\ payouts[o].retry = 0
      BY <1>2, <3>1, <3>2 DEF OrderStands, Paid
    <3>4. payouts'[o].sale = 0 /\ payouts'[o].retry = 1
      BY <1>1, <2>2, <3>3 DEF Payout
    <3>5. Pays(w, o, "retrySave")'
      BY <1>4, <2>2 DEF Pcs, Retrying
    <3>6. UNCHANGED <<order, payment, transfer, ent>>
      BY <1>11 DEF RetryPay
    <3> QED
      BY <1>2, <3>2, <3>4, <3>5, <3>6 DEF OrderStands, Paid, Undone
  <2> QED
    BY <1>11, <2>1, <2>2 DEF RetryPay
<1>12. CASE RetrySave(w)
  <2>1. order[o] = "PAID" /\ transfer'[o] = "PROCESSED" /\ UNCHANGED <<order, payment, payouts>>
    BY <1>1, <1>12 DEF RetrySave, At, SaleStands, Retrying
  <2> QED
    BY <1>2, <2>1 DEF OrderStands, Paid, Undone
<1>13. CASE RefundTx(w)
  <2>1. order'[o] = RefundedStatus(job[w].amount) /\ payment'[o] # "PAID"
        /\ UNCHANGED <<transfer, payouts>>
    BY <1>1, <1>13 DEF RefundTx, RefundedStatus
  <2>2. \A v \in Workers : ~ Pays(v, o, "recordSplit") /\ ~ Pays(v, o, "retrySave")
    BY <1>3, <1>13 DEF RefundTx, At, Pcs, Selling, Retrying
  <2>3. Pays(w, o, "reverse")'
    BY <1>4, <1>13 DEF RefundTx, Pcs, Refunding
  <2>4. order'[o] = "REFUNDED_FULL" =>
          \A s \in Seats : ~ (ent'[s].status = "ACTIVE" /\ ent'[s].order = o)
    BY <1>1, <1>13, <2>1 DEF RefundTx, Revoked, Entitlement
  <2>5. Paid(o)'
    BY <1>2, <2>1, <2>2 DEF OrderStands, Paid
  <2>6. Undone(o)'
    BY <2>3, <2>4 DEF Undone
  <2> QED
    BY <2>1, <2>5, <2>6 DEF OrderStands
<1>14. CASE ReverseTransfer(w)
  <2>1. UNCHANGED <<order, payment, transfer, payouts, ent>>
    BY <1>14 DEF ReverseTransfer
  <2>2. \A v \in Workers : ~ Pays(v, o, "recordSplit") /\ ~ Pays(v, o, "retrySave")
    BY <1>3, <1>14 DEF ReverseTransfer, At, Pcs, Selling, Retrying
  <2>3. transfer[o] = "PROCESSED" => Pays(w, o, "release")'
    BY <1>4, <1>14 DEF ReverseTransfer, Pcs, Refunding
  <2> QED
    BY <1>2, <2>1, <2>2, <2>3 DEF OrderStands, Paid, Undone
<1>15. CASE ReleaseReserve(w)
  <2>1. transfer'[o] = "REVERSED" /\ UNCHANGED <<order, payment, payouts, ent>>
    BY <1>1, <1>15 DEF ReleaseReserve
  <2> QED
    BY <1>2, <2>1 DEF OrderStands, Paid, Undone
<1> QED
  BY <1>6, <1>7, <1>8, <1>9, <1>10, <1>11, <1>12, <1>13, <1>14, <1>15 DEF Step

\* The reserve follows the transfer rows.
LEMMA StepReserve ==
  ASSUME TypeInv, AloneInv, NEW w \in Workers, Step(w)
  PROVE  ReserveStands'
<1> USE DEF sale, events, split, refund
<1> DEFINE o == job[w].order
<1>1. /\ IsFiniteSet(Standing) /\ reserve = Cardinality(Standing) /\ SaleStands(w)
      /\ RefundStands(w) /\ transfer \in [Orders -> TransferStatus]
  BY DEF AloneInv, ReserveStands, TypeInv, DataOK
<1>2. ASSUME UNCHANGED <<transfer, reserve>>
      PROVE  ReserveStands'
  <2>1. Standing' = Standing
    BY <1>2 DEF Standing
  <2> QED
    BY <1>1, <1>2, <2>1 DEF ReserveStands
<1>3. ASSUME o \in Orders, transfer[o] # "PROCESSED",
             transfer' = [transfer EXCEPT ![o] = "PROCESSED"], reserve' = reserve + 1
      PROVE  ReserveStands'
  <2>1. Standing' = Standing \cup {o} /\ o \notin Standing
    BY <1>1, <1>3 DEF Standing
  <2>2. IsFiniteSet(Standing \cup {o}) /\ Cardinality(Standing \cup {o}) = Cardinality(Standing) + 1
    BY <1>1, <2>1, FS_AddElement
  <2> QED
    BY <1>1, <1>3, <2>1, <2>2 DEF ReserveStands
<1>4. CASE RecordSplit(w)
  <2>1. o \in Orders
    BY <1>4, OrderOfJob DEF RecordSplit, At, Selling, TypeInv
  <2>2. transfer[o] = "NONE"
    BY <1>1, <1>4 DEF RecordSplit, At, SaleStands
  <2>3. CASE job[w].paidOut
    <3>1. transfer' = [transfer EXCEPT ![o] = "PROCESSED"] /\ reserve' = reserve + 1
      BY <1>4, <2>2, <2>3 DEF RecordSplit, Held
    <3> QED
      BY <1>3, <2>1, <2>2, <3>1
  <2>4. CASE ~ job[w].paidOut
    <3>1. transfer' = [transfer EXCEPT ![o] = "ON_HOLD"] /\ reserve' = reserve + 0
      BY <1>4, <2>2, <2>4 DEF RecordSplit, Held
    <3>2. Standing' = Standing
      BY <1>1, <2>1, <2>2, <3>1 DEF Standing
    <3>3. reserve \in Int
      BY DEF TypeInv, DataOK
    <3> QED
      BY <1>1, <3>1, <3>2, <3>3 DEF ReserveStands
  <2> QED
    BY <2>3, <2>4
<1>5. CASE RetrySave(w)
  <2>1. o \in Orders /\ transfer[o] = "ON_HOLD"
    BY <1>1, <1>5, OrderOfJob DEF RetrySave, At, Retrying, SaleStands, TypeInv
  <2> QED
    BY <1>3, <1>5, <2>1 DEF RetrySave
<1>6. CASE ReleaseReserve(w)
  <2>1. o \in Orders /\ transfer[o] = "PROCESSED"
    BY <1>1, <1>6, OrderOfJob DEF ReleaseReserve, At, Refunding, RefundStands, TypeInv
  <2>2. Standing' = Standing \ {o} /\ o \in Standing
    BY <1>1, <1>6, <2>1 DEF ReleaseReserve, Standing
  <2>3. IsFiniteSet(Standing \ {o}) /\ Cardinality(Standing \ {o}) = Cardinality(Standing) - 1
    BY <1>1, <2>2, FS_RemoveElement
  <2> QED
    BY <1>1, <1>6, <2>2, <2>3 DEF ReleaseReserve, ReserveStands
<1> QED
  BY <1>2, <1>4, <1>5, <1>6 DEF Step, LookupOrder, ConfirmTx, Grant, SendPurchase, Split,
     FinishEvent, RetryPay, DecideRequest, RecordRequest, RecordReject, RefundCheck, RefundTx,
     ReverseTransfer, RecordRefund

LEMMA StepAloneInv ==
  ASSUME TypeInv, AloneInv, Solo, NEW w \in Workers, Step(w)
  PROVE  AloneInv'
<1>1. \A v \in Workers : SaleStands(v)' /\ RefundStands(v)'
  BY OwnStands, OthersStand
<1>2. \A o \in Orders : OrderStands(o)'
  BY OwnOrderStands, OtherOrdersStand
<1> QED
  BY <1>1, <1>2, StepReserve DEF AloneInv

\* A new request stands, and nothing else changes.
LEMMA ArriveAloneInv ==
  ASSUME TypeInv, AloneInv, NEW w \in Workers, Arrive(w)
  PROVE  AloneInv'
<1>1. /\ UNCHANGED <<order, payment, ent, transfer, reserve, payouts, refunds>>
      /\ \A v \in Workers \ {w} : job'[v] = job[v]
      /\ job[w] = Idle
  BY Arrival DEF sale, split, refund
<1>2. \A v \in Workers \ {w} : SaleStands(v)' /\ RefundStands(v)'
  BY <1>1 DEF AloneInv, SaleStands, RefundStands, AwaitsApproval, Held
<1>3. /\ ~ job'[w].paidOut
      /\ job'[w].pc \in {"confirm", "lookup", "retryPay", "refundCheck", "decide", "recordReject"}
      /\ job'[w].pc = "retryPay" =>
           transfer[job'[w].order] = "ON_HOLD" /\ order[job'[w].order] = "PAID"
      /\ job'[w].byHead => job'[w].pc = "decide"
      /\ job'[w].row # None => AwaitsApproval(job'[w].row)
  <2>1. job \in [Workers -> Job]
    BY DEF TypeInv, JobsOK
  <2>2. \A o \in Orders : payment[o] = "PAID" => order[o] = "PAID"
    BY DEF AloneInv, OrderStands
  <2> QED
    BY <2>1, <2>2 DEF Arrive, Verify, RetryTransfer, Refund, RequestRefund, RecordEvent,
       ApproveRefund, RejectRefund, Free, Start, Request
<1>4. SaleStands(w)'
  BY <1>1, <1>3 DEF SaleStands, Selling, Retrying
<1>5. RefundStands(w)'
  BY <1>1, <1>3 DEF RefundStands, AwaitsApproval
<1>6. \A v \in Workers, o \in Orders, p \in Pcs \ {"idle"} : Pays(v, o, p) => Pays(v, o, p)'
  BY <1>1 DEF Pays, Idle, Request
<1>7. \A o \in Orders : OrderStands(o)'
  BY <1>1, <1>6 DEF AloneInv, OrderStands, Paid, Undone, Pcs, Selling, Retrying, Refunding
<1>8. ReserveStands'
  BY <1>1 DEF AloneInv, ReserveStands, Standing
<1> QED
  BY <1>2, <1>4, <1>5, <1>7, <1>8 DEF AloneInv

LEMMA NextAloneInv ==
  ASSUME TypeInv, AloneInv, Undisturbed, Undisturbed', [Next]_vars
  PROVE  AloneInv'
<1> USE DEF sale, events, split, refund
<1>1. ASSUME NEW w \in Workers, Step(w)
      PROVE  AloneInv'
  BY <1>1, StepAloneInv DEF Undisturbed
<1>2. ASSUME NEW w \in Workers, Arrive(w)
      PROVE  AloneInv'
  BY <1>2, ArriveAloneInv
<1>3. ASSUME NEW w \in Workers, SplitFails(w) \/ Abort(w)
      PROVE  AloneInv'
  <2>1. budget \in [Kinds -> Nat] /\ "fault" \in Kinds
    BY DEF TypeInv, DataOK, Kinds
  <2>2. budget'["fault"] = budget["fault"] - 1
    BY <1>3, <2>1 DEF SplitFails, Abort, Spend
  <2> QED
    BY <2>1, <2>2 DEF Undisturbed
<1>4. ASSUME NEW s \in Seats, GrantManual(s) \/ Revoke(s)
      PROVE  AloneInv'
  <2>1. ent \in [Seats -> Entitlement]
    BY DEF TypeInv, DataOK
  <2>2. \A t \in Seats : ent'[t] = ent[t] \/ ent'[t].source = "ADMIN" \/ ent'[t].status = "REVOKED"
    BY <1>4, <2>1 DEF GrantManual, Revoke, Entitlement
  <2>3. UNCHANGED <<order, payment, transfer, reserve, payouts, refunds, job>>
    BY <1>4 DEF GrantManual, Revoke
  <2>4. \A o \in Orders : Undone(o)'
    BY <2>2, <2>3 DEF AloneInv, OrderStands, Undone, Pays
  <2>5. \A o \in Orders : OrderStands(o)'
    BY <2>3, <2>4 DEF AloneInv, OrderStands, Paid, Pays
  <2>6. \A v \in Workers : SaleStands(v)' /\ RefundStands(v)'
    BY <2>3 DEF AloneInv, SaleStands, RefundStands, AwaitsApproval, Held
  <2> QED
    BY <2>3, <2>5, <2>6 DEF AloneInv, ReserveStands, Standing
<1>5. CASE UNCHANGED <<order, payment, ent, transfer, reserve, payouts, refunds, job>>
  <2>1. \A v \in Workers : SaleStands(v)' /\ RefundStands(v)'
    BY <1>5 DEF AloneInv, SaleStands, RefundStands, AwaitsApproval, Held
  <2>2. \A o \in Orders : OrderStands(o)'
    BY <1>5 DEF AloneInv, OrderStands, Paid, Undone, Pays
  <2> QED
    BY <1>5, <2>1, <2>2 DEF AloneInv, ReserveStands, Standing
<1> QED
  BY <1>1, <1>2, <1>3, <1>4, <1>5 DEF Next, vars, Capture, DuplicateEvent, InsertFails

LEMMA AloneInvariance == Spec /\ []Undisturbed => []AloneInv
  BY InitAloneInv, NextAloneInv, TypeInvariance, PTL DEF Spec

\* As long as no two requests share an order or a refund row and none dies, an
\* institution is paid once for a sale, by the sale or by a retry, and its
\* reserve is the sum of its standing transfers.
THEOREM TransfersAddUpHolds == Spec /\ []Undisturbed => []TransfersAddUp
  BY AloneInvariance, TypeInvariance, AloneInvImplies, PTL

\* As long as no two requests share an order or a refund row and none dies, a
\* full refund ends with the access gone and the transfer reversed.
THEOREM FullRefundUndoesSaleHolds == Spec /\ []Undisturbed => []FullRefundUndoesSale
  BY AloneInvariance, TypeInvariance, AloneInvImplies, PTL

\* An entitlement that a step takes back is one its own order granted.
LEMMA RevokeStep ==
  ASSUME TypeInv, [Next]_vars
  PROVE  [\A s \in Seats : ent[s].status = "ACTIVE" /\ ent'[s].status = "REFUNDED"
            => ent[s].order \in Orders /\ order'[ent[s].order] = "REFUNDED_FULL"]_vars
<1> USE DEF sale, events, split, refund
<1> SUFFICES ASSUME NEW s \in Seats, ent[s].status = "ACTIVE", ent'[s].status = "REFUNDED"
             PROVE  ent[s].order \in Orders /\ order'[ent[s].order] = "REFUNDED_FULL"
  OBVIOUS
<1>1. ent \in [Seats -> Entitlement] /\ order \in [Orders -> OrderStatus]
  BY DEF TypeInv, DataOK
<1>2. \E w \in Workers : RefundTx(w)
  <2>1. ASSUME NEW w \in Workers, Grant(w)
        PROVE  FALSE
    <3>1. PICK g : g.status = "ACTIVE" /\ ent' = [ent EXCEPT ![SeatOf[job[w].order]] = g]
      BY <2>1 DEF Grant
    <3>2. ent'[s] \in {ent[s], g}
      BY <1>1, <3>1
    <3> QED
      BY <3>1, <3>2
  <2>2. ASSUME NEW t \in Seats, GrantManual(t) \/ Revoke(t)
        PROVE  FALSE
    <3>1. \/ ent' = [ent EXCEPT ![t] = [ent[t] EXCEPT !.status = "ACTIVE", !.source = "ADMIN"]]
          \/ ent' = [ent EXCEPT ![t] = [ent[t] EXCEPT !.status = "REVOKED"]]
      BY <1>1, <2>2 DEF GrantManual, Revoke
    <3>2. ent[t] \in Entitlement
      BY <1>1
    <3>3. ent'[s].status \in {ent[s].status, "ACTIVE", "REVOKED"}
      BY <1>1, <3>1, <3>2 DEF Entitlement
    <3> QED
      BY <3>3
  <2>3. ~ UNCHANGED ent
    OBVIOUS
  <2>4. ASSUME NEW w \in Workers, Arrive(w)
        PROVE  UNCHANGED ent
    BY <2>4, Arrival
  <2>5. ASSUME NEW w \in Workers, Step(w)
        PROVE  UNCHANGED ent \/ Grant(w) \/ RefundTx(w)
    BY <2>5 DEF Step, LookupOrder, ConfirmTx, SendPurchase, Split, RecordSplit, FinishEvent,
       RetryPay, RetrySave, DecideRequest, RecordRequest, RecordReject, RefundCheck,
       ReverseTransfer, ReleaseReserve, RecordRefund
  <2>6. UNCHANGED ent \/ \E w \in Workers : Step(w)
    BY <2>2, <2>4 DEF Next, vars, Capture, DuplicateEvent, InsertFails, SplitFails, Abort
  <2> QED
    BY <2>1, <2>3, <2>5, <2>6
<1>3. PICK w \in Workers : RefundTx(w)
  BY <1>2
<1>4. job[w].order \in Orders
  BY <1>3, OrderOfJob DEF RefundTx, At, Refunding, TypeInv
<1>5. RefundedStatus(job[w].amount) = "REFUNDED_FULL" /\ ent[s].order = job[w].order
  BY <1>1, <1>3 DEF RefundTx, Revoked
<1> QED
  BY <1>1, <1>3, <1>4, <1>5 DEF RefundTx

\* No step decides a row that has been rejected.
LEMMA RejectStep ==
  ASSUME TypeInv, AloneInv, [Next]_vars
  PROVE  [\A r \in RefundIds : refunds[r].status = "REJECTED"
            => refunds'[r].status = "REJECTED"]_vars
<1> USE DEF sale, events, split, refund
<1> SUFFICES ASSUME NEW r \in RefundIds, refunds[r].status = "REJECTED"
             PROVE  refunds'[r].status = "REJECTED"
  OBVIOUS
<1>1. ASSUME NEW w \in Workers, Step(w)
      PROVE  refunds'[r].status = "REJECTED"
  <2>1. r # job[w].row
    BY OrderPaymentAssumption DEF AloneInv, RefundStands, AwaitsApproval
  <2> QED
    BY <1>1, <2>1, StepFrame
<1>2. ASSUME NEW w \in Workers, Arrive(w)
      PROVE  refunds'[r].status = "REJECTED"
  BY <1>2, Arrival
<1> QED
  BY <1>1, <1>2 DEF Next, vars, Capture, DuplicateEvent, InsertFails, GrantManual, Revoke, SplitFails, Abort

\* No reserve is released for a request an Academic Head had executed directly.
LEMMA HeadStep ==
  ASSUME AloneInv
  PROVE  [\A w \in Workers : ReleaseReserve(w) => ~ job[w].byHead]_vars
  BY DEF AloneInv, RefundStands, ReleaseReserve, At

\* As long as no two requests share an order or a refund row and none dies, a
\* refund revokes its own order's grant only, a rejection is final and a paid-out
\* transfer is reversed on a Super Admin's authority only; the first of the
\* three holds however requests interleave.
THEOREM RefundsStayInBoundsHolds ==
  /\ Spec => RefundRevokesOwnGrantOnly
  /\ Spec /\ []Undisturbed => RefundsStayInBounds
<1>1. Spec => RefundRevokesOwnGrantOnly
  BY RevokeStep, TypeInvariance, PTL DEF Spec, RefundRevokesOwnGrantOnly
<1>2. Spec /\ []Undisturbed => RejectionIsFinal
  BY RejectStep, AloneInvariance, TypeInvariance, PTL DEF Spec, RejectionIsFinal
<1>3. Spec /\ []Undisturbed => HeadNeverReverses
  BY HeadStep, AloneInvariance, PTL DEF HeadNeverReverses
<1> QED
  BY <1>1, <1>2, <1>3, PTL DEF RefundsStayInBounds
=============================================================================
