---------------------------- MODULE MCPrincipals ----------------------------
(* Instances of Principals for TLC. *)
EXTENDS Principals, TLC

NoBudget == [k \in Kinds |-> 0]

\* A role replaced while permissions change; an institution and a user changed
\* together; a change that is never announced.
RaceBudgets ==
  {"user" :> 1 @@ "role" :> 1 @@ NoBudget,
   "org" :> 1 @@ "user" :> 1 @@ NoBudget,
   "sub" :> 1 @@ "silent" :> 1 @@ "death" :> 1 @@ NoBudget}

Symmetry == Permutations(Workers)
=============================================================================
