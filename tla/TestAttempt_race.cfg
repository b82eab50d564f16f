SPECIFICATION Spec
CONSTANTS
  Students = {s1, s2}
  Attempts = {a1, a2}
  Questions = {q1, q2}
  Entitled = {s1, s2}
  AttemptLimit = 1
  Penalty = 1
  Release = "IMMEDIATE"
  Workers = {w1, w2}
  Budget <- RaceBudget
  None = None
CHECK_DEADLOCK FALSE
SYMMETRY Symmetry
INVARIANTS OneAttempt GradesAgree
PROPERTIES NoSaveAfterReveal TakenLikeAnExam
