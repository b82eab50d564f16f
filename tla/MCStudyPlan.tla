---------------------------- MODULE MCStudyPlan ----------------------------
(* Instances of StudyPlan for TLC. *)
EXTENDS StudyPlan

\* Three lessons of the exam a, one of b; a drill between two lessons fills a day
\* beyond the goal, and one lesson is longer than a day.
MCLessons == <<"l1", "l2", "l3", "m1">>
MCExamOf == [l \in ToSet(MCLessons) |-> IF l = "m1" THEN "b" ELSE "a"]
MCMinutesOf == [l \in ToSet(MCLessons) |-> CASE l = "l3" -> 5 [] l = "m1" -> 1 [] OTHER -> 2]

NoBudget == [k \in Events |-> 0]

\* Generations, goals and purchases that overlap; the worker against the student's
\* marks and moves; sweeps on one day; progress.
RaceBudgets ==
  {"read" :> 1 @@ "regenerate" :> 1 @@ "goal" :> 1 @@ "buy" :> 1 @@ "death" :> 1 @@ NoBudget,
   "read" :> 1 @@ "mark" :> 1 @@ "move" :> 1 @@ "sweep" :> 1 @@ "day" :> 1 @@ NoBudget,
   "read" :> 1 @@ "sweep" :> 3 @@ "day" :> 3 @@ NoBudget,
   "read" :> 1 @@ "move" :> 2 @@ "study" :> 1 @@ NoBudget,
   "read" :> 1 @@ "study" :> 3 @@ NoBudget}

\* A purchase, then the worker.
SweepBudgets == {"read" :> 2 @@ "buy" :> 1 @@ "sweep" :> 1 @@ "day" :> 1 @@ NoBudget}
=============================================================================
