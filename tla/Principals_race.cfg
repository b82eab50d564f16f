SPECIFICATION Spec
CONSTANTS
  Roles = {a, b}
  TTL = 2
  Horizon = 3
  Workers = {w1, w2}
  Budgets <- RaceBudgets
SYMMETRY Symmetry
INVARIANTS ChangesAreSeen StaleAtMostTTL
