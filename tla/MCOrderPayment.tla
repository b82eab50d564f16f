-------------------------- MODULE MCOrderPayment --------------------------
(* Instances of OrderPayment for TLC: all orders buy one seat. *)
EXTENDS OrderPayment, TLC

MCSeatOf == [o \in Orders |-> CHOOSE s \in Seats : TRUE]

Limit(verify, refund_, request, decide, retry, admin, fault) ==
  [k \in Kinds |-> CASE k = "verify" -> verify   [] k = "refund" -> refund_
                     [] k = "request" -> request [] k = "decide" -> decide
                     [] k = "retry" -> retry     [] k = "admin" -> admin
                     [] k = "fault" -> fault]

\* One order: confirmations race with each other, a refund and a fault.
RaceBudget == Limit(2, 1, 0, 0, 0, 0, 1)
\* One slot, two orders for one seat: whole requests, one after the other.
SequentialBudget == Limit(0, 1, 1, 2, 1, 1, 0)
RefundSymmetry == Permutations(RefundIds)
=============================================================================
