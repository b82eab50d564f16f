SPECIFICATION Spec
CONSTANTS
  MaxFailures = 2
  MaxAttempts = 1
  Limit = 1
  MaxRows = 5
  Tolerance = 1
  LastStep = 3
  Workers = {w1, w2}
  Budgets <- RaceBudgets
SYMMETRY Symmetry
CHECK_DEADLOCK FALSE
INVARIANTS TokenFamilies NewPasswordEndsAccess SecretsAreLimited
PROPERTIES SessionsWithinLimit
