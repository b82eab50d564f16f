SPECIFICATION StudyPlanSpec
CONSTANTS
  Lessons <- MCLessons
  Exams = {"a", "b"}
  ExamOf <- MCExamOf
  MinutesOf <- MCMinutesOf
  DailyGoal = 4
  DrillMinutes = 1
  DrillEvery = 1
  PlanDays = 2
  Take = 3
  Behind = 3
  Slots = {w1, w2}
  Allowances <- RaceBudgets
  NoLesson = NoLesson
CHECK_DEADLOCK FALSE
INVARIANTS StudyPlanTypeOK PlansAreSteady GeneratedPlansAreRight
PROPERTIES WorkIsKept
