----------------------------- MODULE MCBilling -----------------------------
(* Instances of Billing for TLC. *)
EXTENDS Billing, TLC

RaceBudget == [k \in Kinds |-> IF k = "request" THEN 2 ELSE 1]
=============================================================================
