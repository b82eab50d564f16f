----------------------------- MODULE MCDelivery -----------------------------
(* Instances of Delivery for TLC. *)
EXTENDS Delivery

NoBudget == [k \in Events |-> 0]

\* Undeliverable mails at the cap while processes die or are stopped; deployments
\* while mails and texts are delivered; a reminder that fails while a mail is
\* delivered; a purchase repeated inside the window of the reminder.
LiveBudgets ==
  {"message" :> 2 @@ "refusal" :> 4 @@ "kill" :> 1 @@ NoBudget,
   "message" :> 2 @@ "refusal" :> 4 @@ "stop" :> 1 @@ NoBudget,
   "message" :> 2 @@ "refusal" :> 1 @@ "echo" :> 1 @@ "stop" :> 1 @@ "grace" :> 1 @@ NoBudget,
   "message" :> 1 @@ "day" :> 2 @@ "refusal" :> 2 @@ "redis" :> 1 @@ "sweep" :> 1 @@ NoBudget,
   "day" :> 9 @@ "renewal" :> 1 @@ NoBudget}
=============================================================================
