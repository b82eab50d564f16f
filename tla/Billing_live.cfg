SPECIFICATION LiveSpec
CONSTANTS
  Contracts = {r1, r2}
  Charges = {c1, c2}
  Cycle = 1
  TrialDays = 1
  Horizon = 1
  Workers = {w1, w2}
  Budget <- RaceBudget
  None = None
CHECK_DEADLOCK FALSE
INVARIANTS ChargeCountsOnce ActiveContractIsPaid
PROPERTIES StatusIsEarned SettledInTheEnd
