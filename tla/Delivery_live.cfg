SPECIFICATION LiveSpec
CONSTANTS
  Mails = {m1, m2}
  Texts = {s1}
  Courses = {e1}
  Plans = {p1}
  Tasks = {t1, t2}
  MaxAttempts = 2
  DeadMax = 1
  Window = 3
  ClaimDays = 4
  Validity = 5
  Allowances <- LiveBudgets
CHECK_DEADLOCK FALSE
INVARIANTS DeliveryTypeOK MessagesAreKept EndsAnnouncedOnce
PROPERTIES QueuedIsAnswered
