--------------------------- MODULE MCInstitution ---------------------------
(* Instances of Institution for TLC. *)
EXTENDS Institution, TLC

Amount(a, b, c) == [k \in Kinds |-> CASE k = "staff" -> a [] k = "student" -> b [] k = "death" -> c]
RaceBudgets == {Amount(5, 0, 0), Amount(3, 1, 1), Amount(1, 5, 1)}

Symmetry == Permutations(Invites) \cup Permutations(People) \cup Permutations(Students)
              \cup Permutations(Workers)
=============================================================================
