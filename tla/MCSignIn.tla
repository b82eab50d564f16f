------------------------------ MODULE MCSignIn ------------------------------
(* Instances of SignIn for TLC. *)
EXTENDS SignIn, TLC

NoBudget == [k \in Kinds |-> 0]

LockoutBudget == "password" :> 3 @@ "totp" :> 2 @@ "time" :> 1 @@ NoBudget
TotpBudget == "password" :> 1 @@ "totp" :> 2 @@ "time" :> 2 @@ NoBudget
SessionBudget == "refresh" :> 3 @@ "end" :> 1 @@ "password" :> 1 @@ "death" :> 1 @@ NoBudget
ResetBudget == "code" :> 4 @@ "refresh" :> 1 @@ "time" :> 1 @@ NoBudget
ChangeBudget == "end" :> 2 @@ "refresh" :> 1 @@ "password" :> 1 @@ NoBudget
LateBudget == "password" :> 1 @@ "totp" :> 1 @@ "end" :> 2 @@ NoBudget

RaceBudgets ==
  {LockoutBudget, TotpBudget, SessionBudget, ResetBudget, ChangeBudget, LateBudget}

Symmetry == Permutations(Workers)
=============================================================================
