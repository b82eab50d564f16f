--------------------------- MODULE MCTestAttempt ---------------------------
(* Instances of TestAttempt for TLC. *)
EXTENDS TestAttempt, TLC

Limit(start, answer, submit, result, fault) ==
  [k \in Kinds |-> CASE k = "start" -> start   [] k = "answer" -> answer
                     [] k = "submit" -> submit [] k = "result" -> result
                     [] k = "fault" -> fault]

\* Two starts race; two answers, two submissions, one look at the result.
RaceBudget == Limit(2, 2, 2, 1, 1)

Symmetry == Permutations(Workers) \cup Permutations(Attempts) \cup Permutations(Students)
              \cup Permutations(Questions)
=============================================================================
