----------------------------- MODULE TestAttempt -----------------------------
(***************************************************************************)
(* One published test taken by several students: starting or resuming an   *)
(* attempt, saving answers from a client whose requests may be lost or     *)
(* overtake each other, submitting with server-side scoring and concept    *)
(* mastery, and the release of results.  One action is one database        *)
(* statement or transaction of a handler, or one step of a client.         *)
(*                                                                         *)
(* Source: apps/api/src/student-tests/student-tests.service.ts and the     *)
(* test runner of apps/web.                                                *)
(***************************************************************************)
EXTENDS Integers, FiniteSets

CONSTANTS
  Students, Attempts, Questions,
  Entitled,       \* students with access to the test
  AttemptLimit,   \* testVersion.attemptLimit, 0 when it is NULL
  Penalty,        \* negative marks of a wrong answer; a right one earns 1
  Release,        \* testVersion.resultRelease
  Workers,        \* concurrent request slots of the API
  Budget,         \* bound: how many requests of each kind, losses and faults
  None            \* SQL NULL

Kinds == {"start", "answer", "submit", "result", "fault"}

ASSUME TestAttemptAssumption ==
  /\ Entitled \subseteq Students
  /\ AttemptLimit \in Nat /\ Penalty \in Nat
  /\ Release \in {"IMMEDIATE", "AFTER_WINDOW", "MANUAL"}
  /\ Budget \in [Kinds -> Nat]
  /\ None \notin Students \cup Attempts \cup Questions \cup {"right", "wrong"}
  /\ IsFiniteSet(Attempts) /\ IsFiniteSet(Questions)

VARIABLES
  attempts,   \* the attempt rows
  answers,    \* response and grade of every attempt_answers row
  mastery,    \* student_concept_mastery counters, over the test's concepts
  open,       \* availableTo has not passed
  screen,     \* client: the answers the student sees selected
  inflight,   \* client: saves sent and not yet handled
  revealed,   \* history: students who have been shown the correct answers
  doubled,    \* history: attempts of which two submissions have run at once
  job,        \* the request running in each slot
  budget      \* what is left of Budget

server == <<attempts, answers, mastery>>
client == <<screen, inflight>>
vars   == <<server, client, open, revealed, doubled, job, budget>>

Responses == {None, "right", "wrong"}
Statuses == {"NONE", "IN_PROGRESS", "SUBMITTED", "AUTO_SUBMITTED"}
Finished == {"SUBMITTED", "AUTO_SUBMITTED"}
Sheet == [Questions -> Responses]
Save == [attempt : Attempts, question : Questions, response : Responses, seq : Nat]

Attempt == [status : Statuses, student : Students \cup {None},
            expired : BOOLEAN, score : Int]
Pcs == {"idle", "resolve", "save", "read", "grade", "result"}
Job == [pc : Pcs, student : Students \cup {None}, attempt : Attempts \cup {None},
        save : Save \cup {None}, sheet : Sheet]

Blank == [q \in Questions |-> None]
NoAttempt == [status |-> "NONE", student |-> None, expired |-> FALSE, score |-> 0]
Request(p, s, a, save) ==
  [pc |-> p, student |-> s, attempt |-> a, save |-> save, sheet |-> Blank]
Idle == Request("idle", None, None, None)

TypeOK ==
  /\ attempts \in [Attempts -> Attempt]
  /\ answers \in [Attempts -> [response : Sheet, grade : Sheet]]
  /\ mastery \in [Students -> [seen : Nat, correct : Nat]]
  /\ open \in BOOLEAN
  /\ screen \in [Attempts -> Sheet]
  /\ inflight \subseteq Save
  /\ revealed \subseteq Students /\ doubled \subseteq Attempts
  /\ job \in [Workers -> Job]
  /\ budget \in [Kinds -> Nat]

Init ==
  /\ attempts = [a \in Attempts |-> NoAttempt]
  /\ answers = [a \in Attempts |-> [response |-> Blank, grade |-> Blank]]
  /\ mastery = [s \in Students |-> [seen |-> 0, correct |-> 0]]
  /\ open = TRUE
  /\ screen = [a \in Attempts |-> Blank]
  /\ inflight = {}
  /\ revealed = {} /\ doubled = {}
  /\ job = [w \in Workers |-> Idle]
  /\ budget = Budget

-----------------------------------------------------------------------------
At(w, p) == job[w].pc = p
Goto(w, p) == job' = [job EXCEPT ![w].pc = p]
End(w) == job' = [job EXCEPT ![w] = Idle]
Start(w, request) == At(w, "idle") /\ job' = [job EXCEPT ![w] = request]
Spend(k) == budget[k] > 0 /\ budget' = [budget EXCEPT ![k] = @ - 1]

Of(s) == {a \in Attempts : attempts[a].student = s}
Marked(sheet, r) == Cardinality({q \in Questions : sheet[q] = r})

(* Mutated forms: bugs this code could have had, each caught by a property. *)
CompletedReachLimit(s) ==
  AttemptLimit # 0 /\ Cardinality({a \in Of(s) : attempts[a].status \in Finished}) >= AttemptLimit
SaveBeforeExpiry(a) == ~attempts[a].expired
EveryQuestion(sheet) == Cardinality(Questions)
AnyAttempt(a) == attempts[a].status # "NONE"

-----------------------------------------------------------------------------
\* resolveAttempt: attemptLimit counts the attempts of any status.
LimitReached(s) == AttemptLimit # 0 /\ Cardinality(Of(s)) >= AttemptLimit

\* resolveAttempt: an attempt to resume.
Running(s) == {a \in Of(s) : attempts[a].status = "IN_PROGRESS" /\ ~attempts[a].expired}
Completed(s) == {a \in Of(s) : attempts[a].status \in Finished}

\* saveAnswer and submit: the status each of them asks for.
Saveable(a) == attempts[a].status = "IN_PROGRESS" /\ ~attempts[a].expired
Submittable(a) == attempts[a].status = "IN_PROGRESS"

\* submit: a right answer earns its marks, a wrong one costs the penalty.
Score(sheet) == Marked(sheet, "right") - Penalty * Marked(sheet, "wrong")

\* submit: mastery counts the answered questions.
Practised(sheet) == Marked(sheet, "right") + Marked(sheet, "wrong")
SubmittedStatus(a) == IF attempts[a].expired THEN "AUTO_SUBMITTED" ELSE "SUBMITTED"

\* isReleased.
Released(a) ==
  /\ attempts[a].status # "IN_PROGRESS"
  /\ Release = "IMMEDIATE" \/ (Release = "AFTER_WINDOW" /\ ~open)

-----------------------------------------------------------------------------
(* Starting. *)

\* startAttempt: access and the test's window are checked.
StartAttempt(w, s) ==
  /\ Spend("start") /\ s \in Entitled /\ open
  /\ Start(w, Request("resolve", s, None, None))
  /\ UNCHANGED <<server, client, open, revealed, doubled>>

\* resolveAttempt, serializable transaction: resume, refuse or create.
ResolveTx(w) ==
  LET s == job[w].student IN
  /\ At(w, "resolve") /\ End(w)
  /\ \/ /\ Running(s) # {} \/ Completed(s) # {} \/ LimitReached(s)
        /\ UNCHANGED <<attempts, screen>>
     \/ /\ Running(s) = {} /\ Completed(s) = {} /\ ~LimitReached(s)
        /\ \E a \in Attempts :
             /\ attempts[a].status = "NONE"
             /\ attempts' = [attempts EXCEPT ![a] =
                  [status |-> "IN_PROGRESS", student |-> s, expired |-> FALSE, score |-> 0]]
        /\ UNCHANGED screen
  /\ UNCHANGED <<answers, mastery, inflight, open, revealed, doubled, budget>>

-----------------------------------------------------------------------------
(* Answering. *)

\* The runner shows the selected answer at once and sends the save.
Answer(a, q, r) ==
  /\ attempts[a].status = "IN_PROGRESS" /\ screen[a][q] # r /\ Spend("answer")
  /\ screen' = [screen EXCEPT ![a][q] = r]
  /\ inflight' = inflight \cup
       {[attempt |-> a, question |-> q, response |-> r, seq |-> budget["answer"]]}
  /\ UNCHANGED <<server, open, revealed, doubled, job>>

\* A save is lost on the way; the runner ignores the error.
Lose(m) ==
  /\ m \in inflight /\ Spend("fault")
  /\ inflight' = inflight \ {m}
  /\ UNCHANGED <<server, screen, open, revealed, doubled, job>>

\* saveAnswer: the attempt is read; it must be running and in time.
SaveAnswer(w, m) ==
  /\ m \in inflight /\ inflight' = inflight \ {m}
  /\ IF Saveable(m.attempt)
       THEN Start(w, Request("save", attempts[m.attempt].student, m.attempt, m))
       ELSE At(w, "idle") /\ UNCHANGED job
  /\ UNCHANGED <<server, screen, open, revealed, doubled, budget>>

\* saveAnswer: the upsert, which compares neither status nor sequenceNo.
SaveWrite(w) ==
  LET m == job[w].save IN
  /\ At(w, "save") /\ End(w)
  /\ answers' = [answers EXCEPT ![m.attempt].response[m.question] = m.response]
  /\ UNCHANGED <<attempts, mastery, client, open, revealed, doubled, budget>>

-----------------------------------------------------------------------------
(* Submitting. *)

Submits(j) == j.pc \in {"read", "grade"}
Submitting(a) == \E v \in Workers : job[v].attempt = a /\ Submits(job[v])

\* submit: an attempt that is not running any more only shows its result.  The
\* runner sends one submission per window; two windows, or a retry, send two.
Submit(w, a) ==
  /\ attempts[a].status # "NONE" /\ Spend("submit")
  /\ Start(w, Request(IF Submittable(a) THEN "read" ELSE "result",
                      attempts[a].student, a, None))
  /\ doubled' = IF Submittable(a) /\ Submitting(a) THEN doubled \cup {a} ELSE doubled
  /\ UNCHANGED <<server, client, open, revealed>>

\* submit: the answers are read, and graded in memory.
ReadAnswers(w) ==
  /\ At(w, "read")
  /\ job' = [job EXCEPT ![w].pc = "grade", ![w].sheet = answers[job[w].attempt].response]
  /\ UNCHANGED <<server, client, open, revealed, doubled, budget>>

\* submit, transaction: score, grades and mastery, unconditionally.
SubmitTx(w) ==
  LET a == job[w].attempt  s == job[w].student  sheet == job[w].sheet IN
  /\ At(w, "grade")
  /\ attempts' = [attempts EXCEPT
       ![a].status = SubmittedStatus(a),
       ![a].score = Score(sheet)]
  /\ answers' = [answers EXCEPT ![a].grade =
       [q \in Questions |-> IF sheet[q] # None THEN sheet[q] ELSE answers[a].grade[q]]]
  /\ mastery' = [mastery EXCEPT
       ![s].seen = @ + Practised(sheet),
       ![s].correct = @ + Marked(sheet, "right")]
  /\ Goto(w, "result")
  /\ UNCHANGED <<client, open, revealed, doubled, budget>>

\* GET result.
GetResult(w, a) ==
  /\ attempts[a].status # "NONE" /\ Spend("result")
  /\ Start(w, Request("result", attempts[a].student, a, None))
  /\ UNCHANGED <<server, client, open, revealed, doubled>>

\* result: the correct answers are included once they are released.
Result(w) ==
  /\ At(w, "result") /\ End(w)
  /\ revealed' = IF Released(job[w].attempt) THEN revealed \cup {job[w].student} ELSE revealed
  /\ UNCHANGED <<server, client, open, doubled, budget>>

-----------------------------------------------------------------------------
\* expiresAt of a running attempt passes.
Expire(a) ==
  /\ attempts[a].status = "IN_PROGRESS" /\ ~attempts[a].expired
  /\ attempts' = [attempts EXCEPT ![a].expired = TRUE]
  /\ UNCHANGED <<answers, mastery, client, open, revealed, doubled, job, budget>>

\* availableTo passes.
CloseWindow ==
  /\ open /\ open' = FALSE
  /\ UNCHANGED <<server, client, revealed, doubled, job, budget>>

\* An exception, a second serialization failure or a process death.
Abort(w) ==
  /\ ~At(w, "idle") /\ Spend("fault") /\ End(w)
  /\ UNCHANGED <<server, client, open, revealed, doubled>>

Step(w) ==
  ResolveTx(w) \/ SaveWrite(w) \/ ReadAnswers(w) \/ SubmitTx(w) \/ Result(w)

Next ==
  \/ \E w \in Workers :
       \/ Step(w) \/ Abort(w)
       \/ \E s \in Students : StartAttempt(w, s)
       \/ \E m \in inflight : SaveAnswer(w, m)
       \/ \E a \in Attempts : Submit(w, a) \/ GetResult(w, a)
  \/ \E a \in Attempts :
       \/ Expire(a)
       \/ \E q \in Questions, r \in Responses : Answer(a, q, r)
  \/ \E m \in inflight : Lose(m)
  \/ CloseWindow

Spec == Init /\ [][Next]_vars
-----------------------------------------------------------------------------
(* Properties. *)

\* A test whose attempt limit is one is taken once: concurrent starts, expiry
\* and late submission never give a student a second attempt.
OneAttempt == AttemptLimit = 1 => \A s \in Students : Cardinality(Of(s)) <= 1

\* With that limit, nobody who has been shown the correct answers has another
\* answer accepted.
NoSaveAfterReveal ==
  [][AttemptLimit = 1 =>
       \A w \in Workers, m \in inflight :
         SaveAnswer(w, m) /\ job'[w] # job[w] => job'[w].student \notin revealed]_vars

Graded(s) == {x \in Of(s) \X Questions : answers[x[1]].grade[x[2]] # None}
Right(s) == {x \in Graded(s) : answers[x[1]].grade[x[2]] = "right"}
SubmittedSingly(s) == \A a \in doubled : attempts[a].student # s

\* The score of an attempt is that of its grades, unless two submissions of it
\* ran at once and read different answers.
ScoresAgree ==
  \A a \in Attempts : attempts[a].status \in Finished /\ a \notin doubled =>
    attempts[a].score = Score(answers[a].grade)

\* Mastery misses no graded answer, also when submissions run at once; it counts
\* each exactly once when they do not.
MasteryAgrees ==
  \A s \in Students :
    /\ mastery[s].seen >= Cardinality(Graded(s))
    /\ mastery[s].correct >= Cardinality(Right(s))
    /\ SubmittedSingly(s) =>
         /\ mastery[s].seen = Cardinality(Graded(s))
         /\ mastery[s].correct = Cardinality(Right(s))

\* What submit has recorded in three tables agrees.
GradesAgree == ScoresAgree /\ MasteryAgrees

\* A submitted attempt is final, unless another submission of it was already
\* running: neither a later one nor the clock changes its status or score.
ResultIsFinal ==
  [][\A a \in Attempts \ doubled : attempts[a].status \in Finished =>
       attempts'[a] = attempts[a]]_vars

\* The phase and the score of a student, read off the student's attempts, and
\* the submissions that have passed the status check and not yet graded.
Phase(s) ==
  CASE Of(s) = {} -> "none"
    [] Completed(s) # {} -> "finished"
    [] OTHER -> "sitting"
FinalScore(s) ==
  IF Completed(s) = {} THEN 0 ELSE attempts[CHOOSE a \in Completed(s) : TRUE].score
Marking(s) == {w \in Workers : Submits(job[w]) /\ job[w].student = s}

E == INSTANCE Exam WITH phase <- [s \in Students |-> Phase(s)],
                        score <- [s \in Students |-> FinalScore(s)],
                        marking <- [s \in Students |-> Marking(s)],
                        Hands <- Workers

\* With a limit of one, concurrent starts, lost saves, expiry, aborted requests
\* and submissions that overlap never let a test be taken more than once, nor
\* graded by anything but a submission that began before it was finished: the
\* service implements Exam.
TakenLikeAnExam == E!Spec
=============================================================================
