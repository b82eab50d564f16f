----------------------------- MODULE StudyPlan -----------------------------
(***************************************************************************)
(* The study plan of one student: generated by the API when it is read,    *)
(* asked for or a goal changes, rebuilt by the worker when the student     *)
(* falls behind, abandoned by a purchase, and the progress and the plan    *)
(* items the student records.  Plans of different students share no row.   *)
(* Every lesson considered is published.                                   *)
(*                                                                         *)
(* Source: apps/api/src/student/study-plan.service.ts, student.service.ts  *)
(* (updateGoals, updateProgress), apps/api/src/payments/                   *)
(* entitlement.service.ts, apps/worker/src/main.ts (sweepStudyPlans,       *)
(* regenerateSimplePlan).                                                  *)
(***************************************************************************)
EXTENDS Integers, SequencesExt

CONSTANTS
  Lessons,         \* the published lessons, a sequence ordered by lesson.sequence
  Exams,           \* the exams their courses prepare for
  ExamOf,          \* the exam of each lesson
  MinutesOf,       \* the estimated minutes of each lesson
  DailyGoal,       \* dailyStudyMinutes
  DrillMinutes,    \* minutes of a drill: a fifth of the goal, at least 10
  DrillEvery,      \* lessons between two drills: 3
  PlanDays,        \* the days a plan covers at most: 14
  Take,            \* how many lessons a generation reads: 300
  Behind,          \* the days looked back for missed items: 3
  Slots,           \* concurrent slots of API requests and of the worker's sweeps
  Allowances,      \* bound: how many requests, days and deaths occur in one run
  NoLesson         \* no lesson

Events == {"read", "regenerate", "goal", "buy", "mark", "move", "study", "sweep", "day", "death"}

ASSUME StudyPlanAssumption ==
  /\ Lessons \in Seq(ToSet(Lessons)) /\ IsInjective(Lessons) /\ NoLesson \notin ToSet(Lessons)
  /\ ExamOf \in [ToSet(Lessons) -> Exams] /\ MinutesOf \in [ToSet(Lessons) -> Nat \ {0}]
  /\ DailyGoal \in Nat \ {0} /\ DrillMinutes \in Nat \ {0} /\ DrillEvery \in Nat \ {0}
  /\ PlanDays \in Nat \ {0} /\ Take \in Nat \ {0} /\ Behind \in Nat \ {0} /\ IsFiniteSet(Slots)
  /\ Allowances \subseteq [Events -> Nat]

VARIABLES
  plans,      \* study_plans with their plan_items, in the order of creation
  target,     \* studentProfile.targetExamId
  entitled,   \* exams of the student's active entitlements
  completed,  \* lessons with progress COMPLETED
  day,        \* the clock
  claims,     \* Redis: the rr:planswept keys
  task,       \* what runs in each slot
  replans,    \* history: the days on which the worker rebuilt a plan, in order
  movedBack,  \* history: an item has been moved to a day that is over
  raced,      \* history: two tasks have overlapped
  died,       \* history: a task has died
  allowed     \* what is left of the budget

student == <<target, entitled, completed>>
history == <<replans, movedBack, raced, died>>
studyPlanVars == <<plans, student, day, claims, task, history, allowed>>

LessonSet == ToSet(Lessons)
ItemStatus == {"PENDING", "DONE", "SKIPPED", "MISSED", "RESCHEDULED"}
Item == [lesson : LessonSet \cup {NoLesson}, day : Int, status : ItemStatus, from : Nat]
\* by and exams record who built the plan, and from which exams.
Plan == [status : {"ACTIVE", "ABANDONED"}, by : {"api", "worker"}, exams : SUBSET Exams,
         filled : BOOLEAN, items : Seq(Item)]
Places == {"idle", "goal", "abandon", "create", "rights", "finished", "fill", "refresh",
        "mark", "move", "progress", "claim", "missed", "recent"}

\* todo: the plans a sweep has read; plan, item: the rows in hand; today: the day
\* the task works with; read: what it has read of the row.
Task == [pc : Places, by : {"api", "worker"}, exams : SUBSET Exams, left : SUBSET LessonSet,
        todo : SUBSET Nat, plan : Nat, item : Nat, today : Nat, set : {"DONE", "SKIPPED"},
        lesson : LessonSet \cup {NoLesson}, completes : BOOLEAN]

NoTask == [pc |-> "idle", by |-> "api", exams |-> {}, left |-> {}, todo |-> {}, plan |-> 0,
         item |-> 0, today |-> 0, set |-> "DONE", lesson |-> NoLesson, completes |-> FALSE]

StudyPlanTypes ==
  /\ plans \in Seq(Plan)
  /\ target \in Exams /\ entitled \subseteq Exams /\ completed \subseteq LessonSet
  /\ day \in Nat /\ claims \subseteq (Nat \X Nat)
  /\ task \in [Slots -> Task]
  /\ replans \in Seq(Nat) /\ movedBack \in BOOLEAN /\ raced \in BOOLEAN /\ died \in BOOLEAN
  /\ allowed \in [Events -> Nat]

StudyPlanInit ==
  /\ plans = <<>> /\ target \in Exams /\ entitled = {} /\ completed = {}
  /\ day = 0 /\ claims = {}
  /\ task = [w \in Slots |-> NoTask]
  /\ replans = <<>> /\ movedBack = FALSE /\ raced = FALSE /\ died = FALSE
  /\ allowed \in Allowances

-----------------------------------------------------------------------------
Doing(w, p) == task[w].pc = p
Finish(w) == task' = [task EXCEPT ![w] = NoTask]
GoOn(w, p) == task' = [task EXCEPT ![w].pc = p]
Use(k) == allowed[k] > 0 /\ allowed' = [allowed EXCEPT ![k] = @ - 1]

Begin(w, request) ==
  /\ Doing(w, "idle")
  /\ task' = [task EXCEPT ![w] = request]
  /\ raced' = (raced \/ \E v \in Slots : ~Doing(v, "idle"))
  /\ UNCHANGED <<replans, movedBack, died>>

Active(p) == plans[p].status = "ACTIVE"
ActivePlans == {p \in DOMAIN plans : Active(p)}
ItemsOf(p) == plans[p].items
MinutesOfItem(i) == IF i.lesson = NoLesson THEN DrillMinutes ELSE MinutesOf[i.lesson]

(* Mutated forms: bugs this code could have had, each caught by a property. *)
KeepActive(ps) == ps
AnyItem(i, today) == i.day < today
PlanInHand(ps) == Len(ps)

-----------------------------------------------------------------------------
(* Packing lessons and drills into days. *)

Fits(used, minutes) == used = 0 \/ used + minutes <= DailyGoal
NewItem(d, l) == [lesson |-> l, day |-> d, status |-> "PENDING", from |-> 0]

\* A drill is due when its minutes fit; the lesson that comes after it was
\* fitted without it.
WithDrill(s, d, drills) ==
  IF drills /\ s.since >= DrillEvery /\ s.used + DrillMinutes <= DailyGoal
  THEN [items |-> Append(s.items, NewItem(d, NoLesson)), used |-> s.used + DrillMinutes,
        offset |-> s.offset, since |-> 0]
  ELSE s

AddLesson(s, l, today, horizon, drills) ==
  LET next == IF Fits(s.used, MinutesOf[l]) THEN s
              ELSE [items |-> s.items, used |-> 0, offset |-> s.offset + 1, since |-> 0]
      d == today + next.offset
      t == WithDrill(next, d, drills)
  IN IF next.offset >= horizon THEN next
     ELSE [items |-> Append(t.items, NewItem(d, l)), used |-> t.used + MinutesOf[l],
           offset |-> t.offset, since |-> t.since + 1]

PackStart == [items |-> <<>>, used |-> 0, offset |-> 0, since |-> 0]

\* The loop over the lessons that are left; it is ended by the first lesson beyond
\* the last day of the plan.
Pack(left, today, horizon, drills) ==
  LET packed[n \in 0..Len(Lessons)] ==
        IF n = 0 THEN PackStart
        ELSE IF Lessons[n] \notin left \/ packed[n - 1].offset >= horizon THEN packed[n - 1]
        ELSE AddLesson(packed[n - 1], Lessons[n], today, horizon, drills)
  IN packed[Len(Lessons)].items

-----------------------------------------------------------------------------
(* Generating a plan. *)

Generate(by) == [NoTask EXCEPT !.pc = "abandon", !.by = by, !.exams = {target}]

\* today, week: an ACTIVE plan is shown, otherwise one is generated.
Read(w) ==
  /\ ActivePlans = {} /\ Begin(w, Generate("api")) /\ Use("read")
  /\ UNCHANGED <<plans, student, day, claims>>

\* regenerate.
Regenerate(w) ==
  /\ Begin(w, Generate("api")) /\ Use("regenerate")
  /\ UNCHANGED <<plans, student, day, claims>>

\* updateGoals writes the profile, then generates.
SetGoal(w, e) ==
  /\ e # target /\ target' = e
  /\ Begin(w, [NoTask EXCEPT !.pc = "goal"]) /\ Use("goal")
  /\ UNCHANGED <<plans, entitled, completed, day, claims>>

GenerateForGoal(w) ==
  /\ Doing(w, "goal")
  /\ task' = [task EXCEPT ![w] = Generate("api")]
  /\ UNCHANGED <<plans, student, day, claims, history, allowed>>

Abandoned(ps) == [p \in DOMAIN ps |-> [ps[p] EXCEPT !.status = "ABANDONED"]]

\* generate, regenerateSimplePlan: the profile has been read; the ACTIVE plans are
\* abandoned, ...
Abandon(w) ==
  /\ Doing(w, "abandon")
  /\ plans' = Abandoned(plans)
  /\ GoOn(w, "create")
  /\ UNCHANGED <<student, day, claims, history, allowed>>

Created(ps) == Len(ps) + 1

\* ... a new one is created ...
Create(w) ==
  LET by == task[w].by IN
  /\ Doing(w, "create")
  /\ plans' = Append(plans, [status |-> "ACTIVE", by |-> by, exams |-> {}, filled |-> FALSE,
                             items |-> <<>>])
  /\ task' = [task EXCEPT ![w].pc = IF by = "api" THEN "rights" ELSE "finished",
                        ![w].plan = Created(plans)]
  /\ replans' = IF by = "worker" THEN Append(replans, day) ELSE replans
  /\ UNCHANGED <<student, day, claims, movedBack, raced, died, allowed>>

\* ... the API adds the exams the student has paid for, which the worker does
\* not, ...
ReadRights(w) ==
  /\ Doing(w, "rights")
  /\ task' = [task EXCEPT ![w].pc = "finished", ![w].exams = @ \cup entitled]
  /\ UNCHANGED <<plans, student, day, claims, history, allowed>>

\* The first Take lessons of the exams, whether completed or not.
LessonsOf(exams) ==
  LET places == {n \in DOMAIN Lessons : ExamOf[Lessons[n]] \in exams} IN
  {Lessons[n] : n \in {m \in places : Cardinality({k \in places : k < m}) < Take}}

\* ... lessons and progress are read ...
ReadFinished(w) ==
  /\ Doing(w, "finished")
  /\ task' = [task EXCEPT ![w].pc = "fill",
                        ![w].left = LessonsOf(task[w].exams) \ completed]
  /\ UNCHANGED <<plans, student, day, claims, history, allowed>>

\* ... and the items are created, for as many days as the target date allows; the
\* API drills a weak topic or a mistake, if there is one.
Fill(w, horizon, drills) ==
  /\ Doing(w, "fill") /\ (drills => task[w].by = "api")
  /\ plans' = [plans EXCEPT ![task[w].plan] =
                 [@ EXCEPT !.filled = TRUE, !.exams = task[w].exams,
                           !.items = Pack(task[w].left, day, horizon, drills)]]
  /\ IF task[w].todo = {} THEN Finish(w) ELSE GoOn(w, "claim")
  /\ UNCHANGED <<student, day, claims, history, allowed>>

-----------------------------------------------------------------------------
(* Purchases, items and progress. *)

\* grantFromOrder: the entitlement is granted, ...
Buy(w, e) ==
  /\ e \notin entitled /\ entitled' = entitled \cup {e}
  /\ Begin(w, [NoTask EXCEPT !.pc = "refresh"]) /\ Use("buy")
  /\ UNCHANGED <<plans, target, completed, day, claims>>

Refreshed(ps) == Abandoned(ps)

\* ... then the plan abandoned, so that it is built anew when it is next read.
Refresh(w) ==
  /\ Doing(w, "refresh")
  /\ plans' = Refreshed(plans)
  /\ Finish(w)
  /\ UNCHANGED <<student, day, claims, history, allowed>>

\* markItem: the item is read ...
ReadItem(w, p, i, status) ==
  /\ Begin(w, [NoTask EXCEPT !.pc = "mark", !.plan = p, !.item = i, !.set = status])
  /\ Use("mark")
  /\ UNCHANGED <<plans, student, day, claims>>

\* ... and written, whatever its status.
Mark(w) ==
  /\ Doing(w, "mark")
  /\ plans' = [plans EXCEPT ![task[w].plan].items[task[w].item].status = task[w].set]
  /\ Finish(w)
  /\ UNCHANGED <<student, day, claims, history, allowed>>

Movable(i) == i.status = "PENDING"

\* reschedule: a pending item is read ...
ReadPending(w, p, i) ==
  /\ Movable(ItemsOf(p)[i])
  /\ Begin(w, [NoTask EXCEPT !.pc = "move", !.plan = p, !.item = i]) /\ Use("move")
  /\ UNCHANGED <<plans, student, day, claims>>

\* ... and in one transaction copied to any day and closed.
Move(w, d) ==
  LET p == task[w].plan
      i == task[w].item
      old == ItemsOf(p)[i]
  IN
  /\ Doing(w, "move")
  /\ plans' = [plans EXCEPT ![p].items =
                 Append([@ EXCEPT ![i].status = "RESCHEDULED"],
                        [old EXCEPT !.day = d, !.status = "PENDING", !.from = i])]
  /\ movedBack' = (movedBack \/ d < day)
  /\ Finish(w)
  /\ UNCHANGED <<student, day, claims, replans, raced, died, allowed>>

Completes(l, completes) == completes \/ l \in completed

\* updateProgress: the progress row is read ...
ReadProgress(w, l, completes) ==
  /\ Begin(w, [NoTask EXCEPT !.pc = "progress", !.lesson = l,
                           !.completes = Completes(l, completes)])
  /\ Use("study")
  /\ UNCHANGED <<plans, student, day, claims>>

\* ... and written: COMPLETED if it was read so, or the request completes it.
WriteProgress(w) ==
  LET l == task[w].lesson IN
  /\ Doing(w, "progress")
  /\ completed' = IF task[w].completes THEN completed \cup {l} ELSE completed \ {l}
  /\ Finish(w)
  /\ UNCHANGED <<plans, target, entitled, day, claims, history, allowed>>

-----------------------------------------------------------------------------
(* The worker. *)

\* sweepStudyPlans reads the ACTIVE plans once; ...
Sweep(w) ==
  /\ ActivePlans # {}
  /\ Begin(w, [NoTask EXCEPT !.pc = "claim", !.by = "worker", !.today = day, !.todo = ActivePlans])
  /\ Use("sweep")
  /\ UNCHANGED <<plans, student, day, claims>>

\* What the sweep does when it is done with the plan p.
NextPlan(w, p) == IF task[w].todo = {p} THEN NoTask
               ELSE [task[w] EXCEPT !.pc = "claim", !.todo = @ \ {p}]

\* ... each is claimed for the day, ...
Claim(w, p) ==
  LET key == <<p, task[w].today>> IN
  /\ Doing(w, "claim") /\ p \in task[w].todo
  /\ claims' = claims \cup {key}
  /\ task' = [task EXCEPT ![w] = IF key \in claims THEN NextPlan(w, p)
                               ELSE [task[w] EXCEPT !.pc = "missed", !.plan = p,
                                                   !.todo = @ \ {p}]]
  /\ UNCHANGED <<plans, student, day, history, allowed>>

Overdue(i, today) == i.status = "PENDING" /\ i.day < today

\* ... what is pending from earlier days is MISSED, ...
MarkMissed(w) ==
  LET p == task[w].plan IN
  /\ Doing(w, "missed")
  /\ plans' = [plans EXCEPT ![p].items =
                 [i \in DOMAIN @ |-> IF Overdue(@[i], task[w].today)
                                     THEN [@[i] EXCEPT !.status = "MISSED"] ELSE @[i]]]
  /\ GoOn(w, "recent")
  /\ UNCHANGED <<student, day, claims, history, allowed>>

Recent(p, today) ==
  {<<p, i>> : i \in {j \in DOMAIN ItemsOf(p) : ItemsOf(p)[j].day < today
                                              /\ ItemsOf(p)[j].day >= today - Behind}}

FellBehind(p, today) ==
  LET recent == Recent(p, today)
      missed == {x \in recent : ItemsOf(x[1])[x[2]].status = "MISSED"}
  IN 2 * Cardinality(missed) > Cardinality(recent)

\* ... and if that is more than half of the last days, the plan is built anew.
Judge(w) ==
  LET p == task[w].plan IN
  /\ Doing(w, "recent")
  /\ task' = [task EXCEPT ![w] =
       IF FellBehind(p, task[w].today)
       THEN [Generate("worker") EXCEPT !.todo = task[w].todo, !.today = task[w].today]
       ELSE IF task[w].todo = {} THEN NoTask ELSE [task[w] EXCEPT !.pc = "claim"]]
  /\ UNCHANGED <<plans, student, day, claims, history, allowed>>

-----------------------------------------------------------------------------
Tick ==
  /\ Use("day") /\ day' = day + 1
  /\ UNCHANGED <<plans, student, claims, task, history>>

\* A request or the worker dies.
Die(w) ==
  /\ ~Doing(w, "idle") /\ Use("death")
  /\ Finish(w) /\ died' = TRUE
  /\ UNCHANGED <<plans, student, day, claims, replans, movedBack, raced>>

StudyPlanNext ==
  \/ Tick
  \/ \E w \in Slots :
       \/ Read(w) \/ Regenerate(w) \/ GenerateForGoal(w)
       \/ \E e \in Exams : SetGoal(w, e) \/ Buy(w, e)
       \/ Abandon(w) \/ Create(w) \/ ReadRights(w) \/ ReadFinished(w)
       \/ \E horizon \in 1..PlanDays, drills \in BOOLEAN : Fill(w, horizon, drills)
       \/ Refresh(w)
       \/ \E p \in DOMAIN plans : \E i \in DOMAIN ItemsOf(p) :
            ReadPending(w, p, i) \/ \E s \in {"DONE", "SKIPPED"} : ReadItem(w, p, i, s)
       \/ Mark(w) \/ \E d \in {day - 1, day, day + 1} : Move(w, d)
       \/ \E l \in LessonSet, c \in BOOLEAN : ReadProgress(w, l, c)
       \/ WriteProgress(w)
       \/ Sweep(w) \/ (\E p \in task[w].todo : Claim(w, p)) \/ MarkMissed(w) \/ Judge(w)
       \/ Die(w)

StudyPlanSpec == StudyPlanInit /\ [][StudyPlanNext]_studyPlanVars
-----------------------------------------------------------------------------
(* Properties. *)

GenPcs == {"rights", "finished", "fill"}

\* The rows a task has in hand are there; a generation's plan is its own, and has
\* not been filled.
RowsOf(j) ==
  /\ j.todo \subseteq DOMAIN plans
  /\ j.pc \in GenPcs => /\ j.plan \in DOMAIN plans
                        /\ ~plans[j.plan].filled /\ plans[j.plan].by = j.by
  /\ j.pc \in {"mark", "move"} => j.plan \in DOMAIN plans /\ j.item \in DOMAIN ItemsOf(j.plan)
  /\ j.pc \in {"missed", "recent"} => j.plan \in DOMAIN plans
  /\ j.pc = "progress" => j.lesson \in LessonSet
  /\ j.today <= day

\* Nobody else fills that plan, and it has no item before.
Rows ==
  /\ \A w \in Slots : RowsOf(task[w])
  /\ \A v, w \in Slots :
       task[v].pc \in GenPcs /\ task[w].pc \in GenPcs /\ task[v].plan = task[w].plan => v = w
  /\ \A p \in DOMAIN plans : ~plans[p].filled => ItemsOf(p) = <<>>

\* Every table and task has its type, and the rows a task works with exist.
StudyPlanTypeOK == StudyPlanTypes /\ Rows

\* A student has one ACTIVE plan.  When generations overlap there can be more,
\* but never more than there are slots, counting the ones about to be created.
OneActivePlan ==
  Cardinality(ActivePlans) + Cardinality({w \in Slots : Doing(w, "create")})
    <= IF raced THEN Cardinality(Slots) ELSE 1

\* However purchases and generations overlap, an ACTIVE plan the API has finished
\* covers everything the student has paid for, if no request died.
ApiPlanCoversPurchases ==
  (~died /\ \A w \in Slots : ~Doing(w, "refresh"))
    => \A p \in ActivePlans :
         plans[p].filled /\ plans[p].by = "api" => entitled \subseteq plans[p].exams

\* "their plan must still include what they paid for", whoever built it.
PlanCoversPurchases ==
  (~died /\ ~raced /\ \A w \in Slots : ~Doing(w, "refresh"))
    => \A p \in ActivePlans : plans[p].filled => entitled \subseteq plans[p].exams

\* The items a generation created, on a day and at all, and their minutes.
Planned(items) == {i \in DOMAIN items : items[i].from = 0}
PlannedOn(items, d) == {i \in Planned(items) : items[i].day = d}
MinutesOn(items, d) ==
  LET sum[n \in 0..Len(items)] ==
        IF n = 0 THEN 0
        ELSE sum[n - 1] + IF n \in PlannedOn(items, d) THEN MinutesOfItem(items[n]) ELSE 0
  IN sum[Len(items)]

\* A day of a generated plan exceeds the goal by no more than a drill, unless it
\* holds a single lesson, and a plan covers no more days than it should.
FitsDays(items) ==
  LET days == {items[i].day : i \in Planned(items)} IN
  /\ \A d \in days : \/ Cardinality(PlannedOn(items, d)) = 1
                     \/ MinutesOn(items, d) <= DailyGoal + DrillMinutes
  /\ Cardinality(days) <= PlanDays

PlanFitsDays == \A p \in DOMAIN plans : FitsDays(ItemsOf(p))

\* Requests that do not overlap leave each lesson pending at most once in the
\* ACTIVE plan, however often it is moved and marked.
PendingOnce ==
  ~raced => \A p \in ActivePlans : \A i, j \in DOMAIN ItemsOf(p) :
    /\ ItemsOf(p)[i].status = "PENDING" /\ ItemsOf(p)[j].status = "PENDING"
    /\ ItemsOf(p)[i].lesson = ItemsOf(p)[j].lesson /\ ItemsOf(p)[i].lesson # NoLesson
    => i = j

\* What the student has done is not taken back by the worker's sweep, whenever it
\* runs; only a move that overlaps the marking can.
DoneStaysDone ==
  [][\A p \in DOMAIN plans : \A i \in DOMAIN ItemsOf(p) :
       ItemsOf(p)[i].status = "DONE"
         => \/ plans'[p].items[i].status \in {"DONE", "SKIPPED"}
            \/ raced /\ plans'[p].items[i].status = "RESCHEDULED"]_studyPlanVars

\* A lesson once completed stays completed, if no two requests overlap.
CompletionIsSticky == [][~raced => completed \subseteq completed']_studyPlanVars

\* The worker builds a student's plan anew at most once a day, if nothing overlaps
\* and no item is moved to the past, although the plan it builds is not claimed.
ReplannedOnceADay == ~raced /\ ~movedBack => IsInjective(replans)

\* What a generation leaves behind is complete and fits the student's days.
GeneratedPlansAreRight == ApiPlanCoversPurchases /\ PlanFitsDays

\* A student has one plan at a time, that plan each lesson once, and it is not
\* rebuilt over and over.
PlansAreSteady == OneActivePlan /\ PendingOnce /\ ReplannedOnceADay

\* Work done and recorded is kept.
WorkIsKept == DoneStaysDone /\ CompletionIsSticky
=============================================================================
