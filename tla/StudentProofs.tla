---------------------------- MODULE StudentProofs ----------------------------
(* Theorems about what a student does, the tests of TestAttempt and the study *)
(* plan of StudyPlan, for every value of their constants.  The two share no   *)
(* row, so each has its own specification.                                    *)
EXTENDS TestAttempt, StudyPlan, NaturalsInduction, SequenceTheorems, FiniteSetTheorems, TLAPS

\* An attempt row belongs to a student exactly when it exists.
RowsOK ==
  /\ attempts \in [Attempts -> Attempt]
  /\ \A a \in Attempts : attempts[a].status = "NONE" <=> attempts[a].student = None

Handling == {"save", "read", "grade", "result"}

\* What a request knows: its student and, past resolveAttempt, an attempt of
\* that very student.
JobOK(j) ==
  /\ j \in Job
  /\ j.pc = "resolve" => j.student \in Students
  /\ j.pc \in Handling =>
       /\ j.attempt \in Attempts /\ j.student \in Students
       /\ attempts[j.attempt].student = j.student
  /\ j.pc = "save" => j.save \in Save

JobsOK == job \in [Workers -> Job] /\ \A w \in Workers : JobOK(job[w])

DataOK ==
  /\ answers \in [Attempts -> [response : Sheet, grade : Sheet]]
  /\ mastery \in [Students -> [seen : Nat, correct : Nat]]
  /\ open \in BOOLEAN
  /\ screen \in [Attempts -> Sheet]
  /\ inflight \subseteq Save
  /\ budget \in [Kinds -> Nat]

\* With a limit of one, an attempt is determined by its student.
OneOK ==
  AttemptLimit = 1 =>
    \A a, b \in Attempts :
      attempts[a].student = attempts[b].student /\ attempts[a].student # None => a = b

\* Whoever has seen the correct answers has finished an attempt.
RevealOK ==
  /\ revealed \subseteq Students
  /\ \A s \in revealed : \E a \in Attempts :
       attempts[a].student = s /\ attempts[a].status \in Finished

\* Only attempts that exist are submitted twice at once.
DoubledOK ==
  /\ doubled \subseteq Attempts
  /\ \A a \in doubled : attempts[a].status # "NONE"

IInv == RowsOK /\ JobsOK /\ DataOK /\ OneOK /\ RevealOK /\ DoubledOK

LEMMA IInvImpliesTypeOK == IInv => TypeOK
  BY DEF IInv, TypeOK, RowsOK, JobsOK, DataOK, RevealOK, DoubledOK

LEMMA IInvImpliesOneAttempt == IInv => OneAttempt
<1> SUFFICES ASSUME IInv, AttemptLimit = 1, NEW s \in Students
             PROVE  Cardinality(Of(s)) <= 1
  BY DEF OneAttempt
<1>1. \A a, b \in Of(s) : a = b
  BY TestAttemptAssumption DEF IInv, OneOK, Of
<1>2. CASE Of(s) = {}
  BY <1>2, FS_EmptySet
<1>3. CASE \E a \in Of(s) : TRUE
  <2>1. PICK a \in Of(s) : TRUE
    BY <1>3
  <2>2. Of(s) = {a}
    BY <1>1, <2>1
  <2> QED
    BY <2>2, FS_Singleton
<1> QED
  BY <1>2, <1>3

-----------------------------------------------------------------------------
(* Steps that only move existing attempts forward. *)

\* Rows keep their student, and a finished one stays finished.
RowsKept ==
  /\ attempts' \in [Attempts -> Attempt]
  /\ \A a \in Attempts :
       /\ attempts'[a].student = attempts[a].student
       /\ attempts'[a].status = "NONE" <=> attempts[a].status = "NONE"
       /\ attempts[a].status \in Finished => attempts'[a].status \in Finished

LEMMA RowsUnchanged ==
  ASSUME RowsOK, UNCHANGED attempts
  PROVE  RowsKept
  BY DEF RowsOK, RowsKept

LEMMA KeptRowsOK ==
  ASSUME RowsOK, RowsKept
  PROVE  RowsOK'
  BY DEF RowsOK, RowsKept

LEMMA KeptOneOK ==
  ASSUME OneOK, RowsKept
  PROVE  OneOK'
  BY DEF OneOK, RowsKept

LEMMA KeptRevealOK ==
  ASSUME RevealOK, RowsKept, UNCHANGED revealed
  PROVE  RevealOK'
  BY DEF RevealOK, RowsKept

LEMMA KeptDoubledOK ==
  ASSUME DoubledOK, RowsKept, UNCHANGED doubled
  PROVE  DoubledOK'
  BY DEF DoubledOK, RowsKept

\* One slot's record is replaced; the other requests still know their attempt.
LEMMA KeptJobsOK ==
  ASSUME JobsOK, RowsKept, NEW w \in Workers, NEW j, JobOK(j),
         job' = [job EXCEPT ![w] = j]
  PROVE  JobsOK'
<1>1. job' \in [Workers -> Job]
  BY DEF JobsOK, JobOK
<1>2. ASSUME NEW v \in Workers PROVE JobOK(job[v])'
  <2>1. JobOK(job'[v])
    BY DEF JobsOK
  <2> QED
    BY <2>1 DEF JobOK, RowsKept
<1> QED
  BY <1>1, <1>2 DEF JobsOK

LEMMA IdleOK == JobOK(Idle)
  BY DEF JobOK, Idle, Request, Job, Pcs, Handling, Blank, Sheet, Responses

LEMMA EndOK ==
  ASSUME JobsOK, RowsKept, NEW w \in Workers, End(w)
  PROVE  JobsOK'
  BY IdleOK, KeptJobsOK DEF End

LEMMA JobsUnchanged ==
  ASSUME JobsOK, RowsKept, UNCHANGED job
  PROVE  JobsOK'
  BY DEF JobsOK, JobOK, RowsKept

\* A request about an existing attempt starts.
LEMMA StartOK ==
  ASSUME JobsOK, RowsOK, RowsKept, NEW w \in Workers, NEW a \in Attempts,
         attempts[a].status # "NONE", NEW p \in Handling, NEW m \in Save \cup {None},
         p = "save" => m \in Save,
         Start(w, Request(p, attempts[a].student, a, m))
  PROVE  JobsOK'
<1>1. attempts[a].student \in Students
  BY DEF RowsOK, Attempt
<1>2. JobOK(Request(p, attempts[a].student, a, m))
  BY <1>1 DEF JobOK, Request, Job, Pcs, Handling, Blank, Sheet, Responses
<1> QED
  BY <1>2, KeptJobsOK DEF Start

LEMMA MarkedType ==
  ASSUME NEW sheet, NEW r
  PROVE  Marked(sheet, r) \in Nat
<1>1. IsFiniteSet({q \in Questions : sheet[q] = r})
  BY FS_Subset, TestAttemptAssumption
<1> QED
  BY <1>1, FS_CardinalityType DEF Marked

LEMMA SpendOK ==
  ASSUME budget \in [Kinds -> Nat], NEW k \in Kinds, Spend(k)
  PROVE  budget' \in [Kinds -> Nat]
  BY DEF Spend

-----------------------------------------------------------------------------
LEMMA InitIInv == Init => IInv
<1> SUFFICES ASSUME Init PROVE IInv
  OBVIOUS
<1>1. RowsOK
  BY DEF Init, RowsOK, NoAttempt, Attempt, Statuses
<1>2. JobsOK
  BY IdleOK DEF Init, JobsOK, JobOK
<1>3. DataOK
  BY TestAttemptAssumption DEF Init, DataOK, Blank, Sheet, Responses
<1>4. OneOK /\ RevealOK /\ DoubledOK
  BY DEF Init, OneOK, RevealOK, DoubledOK, NoAttempt
<1> QED
  BY <1>1, <1>2, <1>3, <1>4 DEF IInv

\* resolveAttempt: the new attempt is its student's first when the limit is
\* one, because the limit counts attempts of any status.
LEMMA ResolveTxIInv ==
  ASSUME IInv, NEW w \in Workers, ResolveTx(w)
  PROVE  IInv'
<1> USE DEF IInv
<1>1. DataOK'
  BY DEF ResolveTx, DataOK
<1>2. CASE UNCHANGED attempts
  <2>1. RowsKept
    BY <1>2, RowsUnchanged
  <2> QED
    BY <1>1, <2>1, KeptRowsOK, KeptOneOK, KeptRevealOK, KeptDoubledOK, EndOK DEF ResolveTx
<1>3. ASSUME NEW s \in Students, s = job[w].student, ~LimitReached(s),
             NEW a \in Attempts, attempts[a].status = "NONE",
             attempts' = [attempts EXCEPT ![a] =
               [status |-> "IN_PROGRESS", student |-> s, expired |-> FALSE, score |-> 0]]
      PROVE  IInv'
  <2>1. RowsOK'
    BY <1>3, TestAttemptAssumption DEF RowsOK, Attempt, Statuses
  <2>2. \A b \in Attempts : b # a => attempts'[b] = attempts[b]
    BY <1>3 DEF RowsOK
  <2>3. attempts'[a].student = s /\ attempts[a].student = None
    BY <1>3 DEF RowsOK
  <2>4. JobsOK'
    <3>1. ASSUME NEW v \in Workers, v # w PROVE JobOK(job[v])'
      <4>1. job'[v] = job[v] /\ JobOK(job[v])
        BY <3>1 DEF ResolveTx, End, JobsOK
      <4>2. job[v].pc \in Handling => job[v].attempt # a
        BY <2>3, <4>1, TestAttemptAssumption DEF JobOK
      <4> QED
        BY <2>2, <4>1, <4>2 DEF JobOK
    <3>2. JobOK(job[w])'
      <4>1. job'[w] = Idle
        BY DEF ResolveTx, End, JobsOK
      <4> QED
        BY <4>1 DEF JobOK, Idle, Request, Job, Pcs, Handling, Blank, Sheet, Responses
    <3>3. job' \in [Workers -> Job]
      BY IdleOK DEF ResolveTx, End, JobsOK, JobOK
    <3> QED
      BY <3>1, <3>2, <3>3 DEF JobsOK
  <2>5. OneOK'
    <3>1. AttemptLimit = 1 => Of(s) = {}
      <4>1. IsFiniteSet(Of(s)) /\ Cardinality(Of(s)) \in Nat
        BY FS_Subset, FS_CardinalityType, TestAttemptAssumption DEF Of
      <4>2. AttemptLimit = 1 => Cardinality(Of(s)) = 0
        BY <1>3, <4>1 DEF LimitReached
      <4> QED
        BY <4>1, <4>2, FS_EmptySet
    <3>2. AttemptLimit = 1 => \A b \in Attempts : attempts[b].student # s
      BY <3>1 DEF Of
    <3> QED
      BY <2>2, <2>3, <3>2 DEF OneOK
  <2>6. RevealOK'
    <3>1. \A b \in Attempts : attempts[b].status \in Finished => b # a
      BY <1>3 DEF Finished
    <3> QED
      BY <2>2, <3>1 DEF ResolveTx, RevealOK
  <2>7. DoubledOK'
    BY <1>3, <2>2 DEF ResolveTx, DoubledOK
  <2> QED
    BY <1>1, <2>1, <2>4, <2>5, <2>6, <2>7
<1>4. job[w].student \in Students
  BY DEF ResolveTx, At, JobsOK, JobOK
<1> QED
  BY <1>2, <1>3, <1>4 DEF ResolveTx

\* Requests that start, and a request that dies.
LEMMA ArriveIInv ==
  ASSUME IInv, NEW w \in Workers,
         \/ Abort(w)
         \/ \E s \in Students : StartAttempt(w, s)
         \/ \E m \in inflight : SaveAnswer(w, m)
         \/ \E a \in Attempts : Submit(w, a) \/ GetResult(w, a)
  PROVE  IInv'
<1> USE DEF IInv
<1>1. UNCHANGED <<attempts, answers, mastery, screen, open, revealed>>
  BY DEF Abort, StartAttempt, SaveAnswer, Submit, GetResult, server, client
<1>2. RowsKept
  BY <1>1, RowsUnchanged
<1>3. inflight' \subseteq Save
  BY DEF Abort, StartAttempt, SaveAnswer, Submit, GetResult, client, DataOK
<1>4. budget' \in [Kinds -> Nat]
  <2>1. Spend("start") \/ Spend("submit") \/ Spend("result") \/ Spend("fault")
          \/ UNCHANGED budget
    BY DEF Abort, StartAttempt, SaveAnswer, Submit, GetResult
  <2>2. {"start", "submit", "result", "fault"} \subseteq Kinds
    BY DEF Kinds
  <2> QED
    BY <2>1, <2>2, SpendOK DEF DataOK
<1>5. DataOK'
  BY <1>1, <1>3, <1>4 DEF DataOK
<1>6. JobsOK'
  <2>1. CASE Abort(w)
    BY <1>2, <2>1, EndOK DEF Abort
  <2>2. ASSUME NEW s \in Students, StartAttempt(w, s) PROVE JobsOK'
    <3>1. JobOK(Request("resolve", s, None, None))
      BY DEF JobOK, Request, Job, Pcs, Handling, Blank, Sheet, Responses
    <3> QED
      BY <1>2, <2>2, <3>1, KeptJobsOK DEF StartAttempt, Start
  <2>3. ASSUME NEW m \in inflight, SaveAnswer(w, m) PROVE JobsOK'
    <3>1. m \in Save /\ m.attempt \in Attempts
      BY DEF DataOK, Save
    <3>2. CASE Saveable(m.attempt)
      <4>1. attempts[m.attempt].status # "NONE"
        BY <3>2 DEF Saveable
      <4>2. Start(w, Request("save", attempts[m.attempt].student, m.attempt, m))
        BY <2>3, <3>2 DEF SaveAnswer
      <4> QED
        BY <1>2, <3>1, <4>1, <4>2, StartOK DEF Handling
    <3>3. CASE ~Saveable(m.attempt)
      BY <1>2, <2>3, <3>3, JobsUnchanged DEF SaveAnswer
    <3> QED
      BY <3>2, <3>3
  <2>4. ASSUME NEW a \in Attempts, Submit(w, a) PROVE JobsOK'
    BY <1>2, <2>4, StartOK DEF Submit, Handling
  <2>5. ASSUME NEW a \in Attempts, GetResult(w, a) PROVE JobsOK'
    BY <1>2, <2>5, StartOK DEF GetResult, Handling
  <2> QED
    BY <2>1, <2>2, <2>3, <2>4, <2>5
<1>7. DoubledOK'
  <2>1. CASE UNCHANGED doubled
    BY <1>2, <2>1, KeptDoubledOK
  <2>2. ASSUME NEW a \in Attempts, Submit(w, a) PROVE DoubledOK'
    <3>1. doubled' \subseteq doubled \cup {a} /\ attempts[a].status # "NONE"
      BY <2>2 DEF Submit
    <3> QED
      BY <1>1, <3>1 DEF DoubledOK
  <2> QED
    BY <2>1, <2>2 DEF Abort, StartAttempt, SaveAnswer, GetResult
<1> QED
  BY <1>1, <1>2, <1>5, <1>6, <1>7, KeptRowsOK, KeptOneOK, KeptRevealOK

\* A running request saves, reads or grades.
LEMMA HandleIInv ==
  ASSUME IInv, NEW w \in Workers, SaveWrite(w) \/ ReadAnswers(w) \/ SubmitTx(w)
  PROVE  IInv'
<1> USE DEF IInv
<1> DEFINE a == job[w].attempt  s == job[w].student
<1>1. /\ a \in Attempts /\ s \in Students /\ attempts[a].student = s
      /\ JobOK(job[w]) /\ job[w].pc \in Handling
  BY DEF SaveWrite, ReadAnswers, SubmitTx, At, JobsOK, JobOK, Handling
<1>2. CASE SaveWrite(w)
  <2>1. RowsKept
    BY <1>2, RowsUnchanged DEF SaveWrite
  <2>2. job[w].save \in Save
    BY <1>1, <1>2 DEF SaveWrite, At, JobOK
  <2>3. DataOK'
    BY <1>2, <2>2 DEF SaveWrite, DataOK, Save, Sheet, client
  <2> QED
    BY <1>2, <2>1, <2>3, KeptRowsOK, KeptOneOK, KeptRevealOK, KeptDoubledOK, EndOK DEF SaveWrite
<1>3. CASE ReadAnswers(w)
  <2>1. RowsKept
    BY <1>3, RowsUnchanged DEF ReadAnswers, server
  <2>2. DataOK'
    BY <1>3 DEF ReadAnswers, DataOK, server, client
  <2>3. JobsOK'
    <3> DEFINE j == [job[w] EXCEPT !.pc = "grade", !.sheet = answers[a].response]
    <3>1. job' = [job EXCEPT ![w] = j]
      BY <1>3 DEF ReadAnswers
    <3>2. JobOK(j)
      BY <1>1 DEF JobOK, Job, Pcs, Handling, DataOK
    <3> QED
      BY <2>1, <3>1, <3>2, KeptJobsOK
  <2> QED
    BY <1>3, <2>1, <2>2, <2>3, KeptRowsOK, KeptOneOK, KeptRevealOK, KeptDoubledOK DEF ReadAnswers
<1>4. CASE SubmitTx(w)
  <2> DEFINE sheet == job[w].sheet
  <2>1. /\ Marked(sheet, "right") \in Nat /\ Marked(sheet, "wrong") \in Nat
        /\ Score(sheet) \in Int /\ sheet \in Sheet
    BY <1>1, MarkedType, TestAttemptAssumption DEF Score, JobOK, Job
  <2>2. RowsKept
    <3>1. SubmittedStatus(a) \in Finished /\ attempts[a].status # "NONE"
      BY <1>1, TestAttemptAssumption DEF SubmittedStatus, Finished, RowsOK
    <3>2. attempts' = [attempts EXCEPT ![a].status = SubmittedStatus(a), ![a].score = Score(sheet)]
      BY <1>4 DEF SubmitTx
    <3> QED
      BY <1>1, <2>1, <3>1, <3>2 DEF RowsKept, RowsOK, Attempt, Statuses, Finished
  <2>3. mastery' \in [Students -> [seen : Nat, correct : Nat]]
    BY <1>1, <1>4, <2>1 DEF SubmitTx, Practised, DataOK
  <2>4. answers' \in [Attempts -> [response : Sheet, grade : Sheet]]
    <3>1. answers' = [answers EXCEPT ![a].grade =
            [q \in Questions |-> IF sheet[q] # None THEN sheet[q] ELSE answers[a].grade[q]]]
      BY <1>4 DEF SubmitTx
    <3>2. [q \in Questions |-> IF sheet[q] # None THEN sheet[q] ELSE answers[a].grade[q]] \in Sheet
      BY <1>1, <2>1 DEF DataOK, Sheet
    <3> QED
      BY <1>1, <3>1, <3>2 DEF DataOK
  <2>5. DataOK'
    BY <1>4, <2>3, <2>4 DEF SubmitTx, DataOK, client
  <2>6. JobsOK'
    <3> DEFINE j == [job[w] EXCEPT !.pc = "result"]
    <3>1. job' = [job EXCEPT ![w] = j]
      BY <1>4 DEF SubmitTx, Goto
    <3>2. JobOK(j)
      BY <1>1 DEF JobOK, Job, Pcs, Handling
    <3> QED
      BY <2>2, <3>1, <3>2, KeptJobsOK
  <2> QED
    BY <1>4, <2>2, <2>5, <2>6, KeptRowsOK, KeptOneOK, KeptRevealOK, KeptDoubledOK DEF SubmitTx
<1> QED
  BY <1>2, <1>3, <1>4

\* The correct answers are shown only for a finished attempt.
LEMMA ResultIInv ==
  ASSUME IInv, NEW w \in Workers, Result(w)
  PROVE  IInv'
<1> USE DEF IInv
<1>1. RowsKept /\ UNCHANGED attempts
  BY RowsUnchanged DEF Result, server
<1>2. DataOK'
  BY DEF Result, DataOK, server, client
<1>3. job[w].attempt \in Attempts /\ job[w].student \in Students
      /\ attempts[job[w].attempt].student = job[w].student
  BY DEF Result, At, JobsOK, JobOK, Handling
<1>4. RevealOK'
  <2>1. CASE Released(job[w].attempt)
    <3>1. attempts[job[w].attempt].status \in Finished
      BY <1>3, <2>1, TestAttemptAssumption DEF Released, RowsOK, Attempt, Statuses, Finished
    <3>2. revealed' = revealed \cup {job[w].student}
      BY <2>1 DEF Result
    <3> QED
      BY <1>1, <1>3, <3>1, <3>2 DEF RevealOK
  <2>2. CASE ~Released(job[w].attempt)
    BY <1>1, <2>2, KeptRevealOK, KeptDoubledOK DEF Result
  <2> QED
    BY <2>1, <2>2
<1> QED
  BY <1>1, <1>2, <1>4, KeptRowsOK, KeptOneOK, KeptDoubledOK, EndOK DEF Result

\* Clients, the network and the clock.
LEMMA WorldIInv ==
  ASSUME IInv,
         \/ \E a \in Attempts : Expire(a)
         \/ \E a \in Attempts, q \in Questions, r \in Responses : Answer(a, q, r)
         \/ \E m \in inflight : Lose(m)
         \/ CloseWindow
  PROVE  IInv'
<1> USE DEF IInv
<1>1. UNCHANGED <<answers, mastery, revealed, doubled, job>>
  BY DEF Expire, Answer, Lose, CloseWindow, server
<1>2. RowsKept
  <2>1. CASE UNCHANGED attempts
    BY <2>1, RowsUnchanged
  <2>2. ASSUME NEW a \in Attempts, Expire(a) PROVE RowsKept
    BY <2>2 DEF Expire, RowsKept, RowsOK, Attempt
  <2> QED
    BY <2>1, <2>2 DEF Answer, Lose, CloseWindow, server
<1>3. open' \in BOOLEAN
  BY DEF Expire, Answer, Lose, CloseWindow, DataOK
<1>4. screen' \in [Attempts -> Sheet] /\ inflight' \subseteq Save
  <2>1. ASSUME NEW a \in Attempts, NEW q \in Questions, NEW r \in Responses, Answer(a, q, r)
        PROVE  screen' \in [Attempts -> Sheet] /\ inflight' \subseteq Save
    <3>1. budget["answer"] \in Nat
      BY DEF DataOK, Kinds
    <3>2. [attempt |-> a, question |-> q, response |-> r, seq |-> budget["answer"]] \in Save
      BY <3>1 DEF Save
    <3> QED
      BY <2>1, <3>2 DEF Answer, DataOK, Sheet
  <2> QED
    BY <2>1 DEF Expire, Lose, CloseWindow, client, DataOK
<1>5. budget' \in [Kinds -> Nat]
  <2>1. Spend("answer") \/ Spend("fault") \/ UNCHANGED budget
    BY DEF Expire, Answer, Lose, CloseWindow
  <2>2. {"answer", "fault"} \subseteq Kinds
    BY DEF Kinds
  <2> QED
    BY <2>1, <2>2, SpendOK DEF DataOK
<1>6. DataOK'
  BY <1>1, <1>3, <1>4, <1>5 DEF DataOK
<1> QED
  BY <1>1, <1>2, <1>6, KeptRowsOK, KeptOneOK, KeptRevealOK, KeptDoubledOK, JobsUnchanged

LEMMA NextIInv == IInv /\ [Next]_vars => IInv'
<1> SUFFICES ASSUME IInv, [Next]_vars PROVE IInv'
  OBVIOUS
<1>1. CASE Next
  BY <1>1, ResolveTxIInv, ArriveIInv, HandleIInv, ResultIInv, WorldIInv DEF Next, Step
<1>2. CASE UNCHANGED vars
  <2>1. UNCHANGED <<attempts, answers, mastery, screen, inflight, open, revealed, doubled, job, budget>>
    BY <1>2 DEF vars, server, client
  <2> QED
    BY <2>1, RowsUnchanged, KeptRowsOK, KeptOneOK, KeptRevealOK, KeptDoubledOK, JobsUnchanged DEF IInv, DataOK
<1> QED
  BY <1>1, <1>2

LEMMA InvariantHolds == Spec => []IInv
  BY InitIInv, NextIInv, PTL DEF Spec

\* Every variable keeps its type, whatever clients and requests do.
THEOREM TestAttemptTypeCorrect == Spec => []TypeOK
  BY InvariantHolds, IInvImpliesTypeOK, PTL

\* With an attempt limit of one, no student ever has two attempts, for any
\* number of students, clients and concurrent starts.
THEOREM OneAttemptHolds == Spec => []OneAttempt
  BY InvariantHolds, IInvImpliesOneAttempt, PTL

\* An accepted save is about the only attempt of its student, which is still
\* running, so the student has not been shown the correct answers.
LEMMA AcceptedBeforeReveal ==
  ASSUME IInv, AttemptLimit = 1, NEW w \in Workers, NEW m \in inflight,
         SaveAnswer(w, m), job'[w] # job[w]
  PROVE  job'[w].student \notin revealed
<1> USE DEF IInv
<1>1. Saveable(m.attempt) /\ m.attempt \in Attempts
  BY DEF SaveAnswer, DataOK, Save
<1>2. job'[w].student = attempts[m.attempt].student
  BY <1>1 DEF SaveAnswer, Start, JobsOK, Request
<1>3. attempts[m.attempt].status = "IN_PROGRESS" /\ attempts[m.attempt].student # None
  BY <1>1 DEF Saveable, RowsOK
<1>4. \A a \in Attempts : attempts[a].student = attempts[m.attempt].student => a = m.attempt
  BY <1>1, <1>3 DEF OneOK
<1> QED
  BY <1>2, <1>3, <1>4 DEF RevealOK, Finished

\* With an attempt limit of one, no answer is accepted from a student who has
\* been shown the correct answers.
THEOREM NoSaveAfterRevealHolds == Spec => NoSaveAfterReveal
<1>1. IInv /\ [Next]_vars =>
        [AttemptLimit = 1 =>
           \A w \in Workers, m \in inflight :
             SaveAnswer(w, m) /\ job'[w] # job[w] => job'[w].student \notin revealed]_vars
  BY AcceptedBeforeReveal
<1> QED
  BY <1>1, InvariantHolds, PTL DEF Spec, NoSaveAfterReveal

-----------------------------------------------------------------------------
(* With a limit of one, the service implements Exam. *)

\* A start that was admitted has access; a submission under way is the only one
\* of its attempt, which is not finished yet, unless two of them ran at once.
SittingOK ==
  /\ \A w \in Workers : job[w].pc = "resolve" => job[w].student \in Entitled
  /\ \A w \in Workers : Submits(job[w]) /\ job[w].attempt \notin doubled =>
       /\ attempts[job[w].attempt].status = "IN_PROGRESS"
       /\ \A v \in Workers : v # w /\ Submits(job[v]) => job[v].attempt # job[w].attempt

LEMMA InitSittingOK == Init => SittingOK
  BY DEF Init, SittingOK, Submits, Idle, Request

\* The statuses a start leaves: those there were, and one more running attempt.
NothingFinishes ==
  \A a \in Attempts : attempts'[a].status = attempts[a].status
                      \/ attempts'[a].status = "IN_PROGRESS"

\* A request that neither starts nor submits disturbs nobody.
LEMMA OtherSittingOK ==
  ASSUME IInv, SittingOK, NEW w \in Workers, job'[w].pc \in {"idle", "save", "result"},
         \A v \in Workers : v # w => job'[v] = job[v], NothingFinishes, UNCHANGED doubled
  PROVE  SittingOK'
<1>1. \A v \in Workers : Submits(job[v]) => job[v].attempt \in Attempts
  BY DEF IInv, JobsOK, JobOK, Submits, Handling
<1> QED
  BY <1>1 DEF SittingOK, Submits, NothingFinishes

LEMMA EndSittingOK ==
  ASSUME IInv, SittingOK, NEW w \in Workers, End(w), NothingFinishes, UNCHANGED doubled
  PROVE  SittingOK'
  BY OtherSittingOK DEF End, Idle, Request, IInv, JobsOK

LEMMA BeginSittingOK ==
  ASSUME IInv, SittingOK, NEW w \in Workers, NEW p \in {"save", "result"}, NEW s, NEW a, NEW m,
         Start(w, Request(p, s, a, m)), NothingFinishes, UNCHANGED doubled
  PROVE  SittingOK'
  BY OtherSittingOK DEF Start, Request, IInv, JobsOK

LEMMA SameSittingOK ==
  ASSUME SittingOK, IInv, UNCHANGED <<job, doubled>>,
         \A a \in Attempts : attempts'[a].status = attempts[a].status
  PROVE  SittingOK'
<1>1. \A v \in Workers : Submits(job[v]) => job[v].attempt \in Attempts
  BY DEF IInv, JobsOK, JobOK, Submits, Handling
<1> QED
  BY <1>1 DEF SittingOK, Submits

LEMMA NextSittingOK == IInv /\ SittingOK /\ [Next]_vars => SittingOK'
<1> SUFFICES ASSUME IInv, SittingOK, [Next]_vars PROVE SittingOK'
  OBVIOUS
<1> DEFINE Same == \A a \in Attempts : attempts'[a].status = attempts[a].status
<1>0. attempts \in [Attempts -> Attempt] /\ job \in [Workers -> Job]
  BY DEF IInv, RowsOK, JobsOK
<1>1. ASSUME NEW w \in Workers, NEW s \in Students, StartAttempt(w, s) PROVE SittingOK'
  <2>1. \A v \in Workers : job'[v] = IF v = w THEN Request("resolve", s, None, None) ELSE job[v]
    BY <1>0, <1>1 DEF StartAttempt, Start
  <2> QED
    BY <1>1, <2>1 DEF StartAttempt, server, SittingOK, Submits, Request
<1>2. ASSUME NEW w \in Workers, ResolveTx(w) PROVE SittingOK'
  <2>1. NothingFinishes /\ End(w) /\ UNCHANGED doubled
    BY <1>0, <1>2 DEF ResolveTx, NothingFinishes
  <2> QED
    BY <2>1, EndSittingOK
<1>3. ASSUME NEW w \in Workers, NEW m \in inflight, SaveAnswer(w, m) PROVE SittingOK'
  <2>1. Same
    BY <1>3 DEF SaveAnswer, server
  <2>2. CASE Saveable(m.attempt)
    <3>1. /\ NothingFinishes /\ UNCHANGED doubled
          /\ Start(w, Request("save", attempts[m.attempt].student, m.attempt, m))
      BY <1>3, <2>1, <2>2 DEF SaveAnswer, NothingFinishes
    <3> QED
      BY <3>1, BeginSittingOK
  <2>3. CASE ~Saveable(m.attempt)
    BY <1>3, <2>1, <2>3, SameSittingOK DEF SaveAnswer
  <2> QED
    BY <2>2, <2>3
<1>4. ASSUME NEW w \in Workers, SaveWrite(w) \/ Result(w) \/ Abort(w) PROVE SittingOK'
  <2>1. NothingFinishes /\ End(w) /\ UNCHANGED doubled
    BY <1>4 DEF SaveWrite, Result, Abort, server, NothingFinishes
  <2> QED
    BY <2>1, EndSittingOK
<1>5. ASSUME NEW w \in Workers, NEW a \in Attempts, GetResult(w, a) PROVE SittingOK'
  <2>1. /\ NothingFinishes /\ UNCHANGED doubled
        /\ Start(w, Request("result", attempts[a].student, a, None))
    BY <1>5 DEF GetResult, server, NothingFinishes
  <2> QED
    BY <2>1, BeginSittingOK
<1>6. ASSUME NEW w \in Workers, NEW a \in Attempts, Submit(w, a) PROVE SittingOK'
  <2>1. Same
    BY <1>6 DEF Submit, server
  <2>2. CASE ~Submittable(a)
    <3>1. /\ NothingFinishes /\ UNCHANGED doubled
          /\ Start(w, Request("result", attempts[a].student, a, None))
      BY <1>6, <2>1, <2>2 DEF Submit, NothingFinishes
    <3> QED
      BY <3>1, BeginSittingOK
  <2>3. CASE Submittable(a)
    <3> DEFINE j == Request("read", attempts[a].student, a, None)
    <3>1. \A v \in Workers : job'[v] = IF v = w THEN j ELSE job[v]
      BY <1>0, <1>6, <2>3 DEF Submit, Start
    <3>2. j.pc = "read" /\ j.attempt = a
      BY DEF Request
    <3>3. /\ a \notin doubled' => \A v \in Workers : Submits(job[v]) => job[v].attempt # a
          /\ doubled \subseteq doubled' /\ doubled' \subseteq doubled \cup {a}
      BY <1>6, <2>3 DEF Submit, Submitting
    <3> HIDE DEF j
    <3> QED
      BY <1>6, <2>3, <3>1, <3>2, <3>3 DEF Submit, server, SittingOK, Submits, Submittable
  <2> QED
    BY <2>2, <2>3
<1>7. ASSUME NEW w \in Workers, ReadAnswers(w) PROVE SittingOK'
  <2>1. \A v \in Workers : /\ Submits(job'[v]) <=> Submits(job[v])
                           /\ job'[v].attempt = job[v].attempt
                           /\ job'[v].pc = "resolve" => job'[v] = job[v]
    BY <1>0, <1>7 DEF ReadAnswers, At, Submits, Job
  <2>2. attempts' = attempts /\ doubled' = doubled
    BY <1>7 DEF ReadAnswers, server
  <2> QED
    BY <2>1, <2>2 DEF SittingOK
<1>8. ASSUME NEW w \in Workers, SubmitTx(w) PROVE SittingOK'
  <2>1. \A v \in Workers : IF v = w THEN job'[v].pc = "result" ELSE job'[v] = job[v]
    BY <1>0, <1>8 DEF SubmitTx, Goto, Job
  <2>2. \A a \in Attempts : a # job[w].attempt => attempts'[a] = attempts[a]
    BY <1>0, <1>8 DEF SubmitTx
  <2>3. \A v \in Workers : Submits(job[v]) => job[v].attempt \in Attempts
    BY DEF IInv, JobsOK, JobOK, Submits, Handling
  <2>4. Submits(job[w]) /\ doubled' = doubled
    BY <1>8 DEF SubmitTx, At, Submits
  <2> QED
    BY <2>1, <2>2, <2>3, <2>4 DEF SittingOK, Submits
<1>9. ASSUME NEW a \in Attempts, Expire(a) PROVE SittingOK'
  <2>1. Same
    BY <1>0, <1>9 DEF Expire, Attempt
  <2> QED
    BY <1>9, <2>1, SameSittingOK DEF Expire
<1>10. ASSUME UNCHANGED <<attempts, doubled, job>> PROVE SittingOK'
  BY <1>10, SameSittingOK
<1>11. CASE UNCHANGED vars
  BY <1>10, <1>11 DEF vars, server
<1>12. ASSUME \/ \E a \in Attempts, q \in Questions, r \in Responses : Answer(a, q, r)
              \/ \E m \in inflight : Lose(m)
              \/ CloseWindow
       PROVE  SittingOK'
  BY <1>10, <1>12 DEF Answer, Lose, CloseWindow, server
<1> QED
  BY <1>1, <1>2, <1>3, <1>4, <1>5, <1>6, <1>7, <1>8, <1>9, <1>11, <1>12 DEF Next, Step

LEMMA SittingHolds == Spec => [](IInv /\ SittingOK)
  BY InvariantHolds, InitSittingOK, NextSittingOK, PTL DEF Spec

phases == [s \in Students |-> Phase(s)]
scores == [s \in Students |-> FinalScore(s)]
markings == [s \in Students |-> Marking(s)]

\* A step that keeps owner, status and score of every attempt moves nobody on.
LEMMA SameExam ==
  ASSUME \A a \in Attempts : /\ attempts'[a].student = attempts[a].student
                             /\ attempts'[a].status = attempts[a].status
                             /\ attempts'[a].score = attempts[a].score
  PROVE  phases' = phases /\ scores' = scores
<1>1. \A s \in Students : Of(s)' = Of(s) /\ Completed(s)' = Completed(s)
  BY DEF Of, Completed
<1>2. ASSUME NEW s \in Students PROVE Phase(s)' = Phase(s)
  BY <1>1 DEF Phase
<1>3. ASSUME NEW s \in Students PROVE FinalScore(s)' = FinalScore(s)
  <2>1. CASE Completed(s) = {}
    BY <1>1, <2>1 DEF FinalScore
  <2>2. CASE Completed(s) # {}
    <3>1. (CHOOSE a \in Completed(s) : TRUE) \in Attempts
      BY <2>2 DEF Completed, Of
    <3> QED
      BY <1>1, <2>2, <3>1 DEF FinalScore
  <2> QED
    BY <2>1, <2>2
<1> QED
  BY <1>2, <1>3 DEF phases, scores

\* What one slot's request does to the sheets being marked.
LEMMA MarkingMoves ==
  ASSUME NEW w \in Workers, \A v \in Workers : v # w => job'[v] = job[v]
  PROVE  /\ ~Submits(job[w]) /\ ~Submits(job'[w]) => markings' = markings
         /\ Submits(job[w]) /\ Submits(job'[w]) /\ job'[w].student = job[w].student
              => markings' = markings
         /\ Submits(job[w]) /\ ~Submits(job'[w])
              => markings' = [markings EXCEPT ![job[w].student] = @ \ {w}]
         /\ ~Submits(job[w]) /\ Submits(job'[w])
              => markings' = [markings EXCEPT ![job'[w].student] = @ \cup {w}]
<1> DEFINE Has(j, s) == Submits(j) /\ j.student = s
<1>1. \A s \in Students : /\ Marking(s) = {v \in Workers : Has(job[v], s)}
                          /\ Marking(s)' = {v \in Workers : Has(job'[v], s)}
  BY DEF Marking, Submits
<1>2. \A s \in Students :
        /\ Has(job'[w], s) <=> Has(job[w], s) => Marking(s)' = Marking(s)
        /\ Has(job[w], s) /\ ~Has(job'[w], s) => Marking(s)' = Marking(s) \ {w}
        /\ ~Has(job[w], s) /\ Has(job'[w], s) => Marking(s)' = Marking(s) \cup {w}
  <2> SUFFICES ASSUME NEW s \in Students
               PROVE  /\ Has(job'[w], s) <=> Has(job[w], s) => Marking(s)' = Marking(s)
                      /\ Has(job[w], s) /\ ~Has(job'[w], s) => Marking(s)' = Marking(s) \ {w}
                      /\ ~Has(job[w], s) /\ Has(job'[w], s) => Marking(s)' = Marking(s) \cup {w}
    OBVIOUS
  <2>1. \A v \in Workers : v # w => (Has(job'[v], s) <=> Has(job[v], s))
    OBVIOUS
  <2> HIDE DEF Has
  <2> QED
    BY <1>1, <2>1
<1>3. CASE Submits(job[w]) <=> Submits(job'[w])
  <2>1. CASE ~Submits(job[w]) \/ job'[w].student = job[w].student
    BY <1>2, <1>3, <2>1 DEF markings
  <2> QED
    BY <1>3, <2>1
<1>4. CASE Submits(job[w]) /\ ~Submits(job'[w])
  BY <1>2, <1>4 DEF markings
<1>5. CASE ~Submits(job[w]) /\ Submits(job'[w])
  BY <1>2, <1>5 DEF markings
<1> QED
  BY <1>3, <1>4, <1>5

\* An attempt of s changes; with a limit of one, only s moves on in the exam.
LEMMA OthersExam ==
  ASSUME NEW s \in Students, NEW a \in Attempts, NEW t \in Students, t # s,
         \A b \in Attempts : b # a => attempts'[b] = attempts[b],
         attempts[a].student \in {s, None}, attempts'[a].student = s, None \notin Students
  PROVE  Phase(t)' = Phase(t) /\ FinalScore(t)' = FinalScore(t)
<1>1. Of(t)' = Of(t) /\ a \notin Of(t)
  BY DEF Of
<1>2. Completed(t)' = Completed(t) /\ a \notin Completed(t)
  BY <1>1 DEF Of, Completed
<1>3. Phase(t)' = Phase(t)
  BY <1>1, <1>2 DEF Phase
<1>4. CASE Completed(t) = {}
  BY <1>2, <1>3, <1>4 DEF FinalScore
<1>5. CASE Completed(t) # {}
  <2>1. (CHOOSE b \in Completed(t) : TRUE) \in Completed(t)
    BY <1>5
  <2>2. (CHOOSE b \in Completed(t) : TRUE) \in Attempts \ {a}
    BY <1>2, <2>1 DEF Completed, Of
  <2> QED
    BY <1>2, <1>3, <1>5, <2>2 DEF FinalScore
<1> QED
  BY <1>4, <1>5

LEMMA ResolveTxExam ==
  ASSUME IInv, SittingOK, AttemptLimit = 1, NEW w \in Workers, ResolveTx(w)
  PROVE  \/ phases' = phases /\ scores' = scores
         \/ \E s \in Students :
              /\ s \in Entitled /\ phases[s] = "none"
              /\ phases' = [phases EXCEPT ![s] = "sitting"]
              /\ scores' = scores
<1> DEFINE s == job[w].student
<1>1. CASE UNCHANGED attempts
  BY <1>1, SameExam
<1>2. ASSUME ~LimitReached(s), NEW a \in Attempts, attempts[a].status = "NONE",
             attempts' = [attempts EXCEPT ![a] =
               [status |-> "IN_PROGRESS", student |-> s, expired |-> FALSE, score |-> 0]]
      PROVE  /\ s \in Students /\ s \in Entitled /\ phases[s] = "none"
             /\ phases' = [phases EXCEPT ![s] = "sitting"]
             /\ scores' = scores
  <2>1. s \in Entitled /\ s \in Students
    BY TestAttemptAssumption DEF ResolveTx, At, SittingOK
  <2>2. Of(s) = {}
    <3>1. IsFiniteSet(Of(s))
      BY FS_Subset, TestAttemptAssumption DEF Of
    <3>2. ~(Cardinality(Of(s)) >= 1) /\ Cardinality(Of(s)) \in Nat
      BY <1>2, <3>1, FS_CardinalityType DEF LimitReached
    <3> QED
      BY <3>1, <3>2, FS_EmptySet
  <2>3. attempts[a].student = None /\ None \notin Students
    BY <1>2, TestAttemptAssumption DEF IInv, RowsOK
  <2>4. /\ \A b \in Attempts : b # a => attempts'[b] = attempts[b]
        /\ attempts'[a].student = s /\ attempts'[a].status = "IN_PROGRESS"
    BY <1>2 DEF IInv, RowsOK
  <2>5. ASSUME NEW t \in Students, t # s
        PROVE  Phase(t)' = Phase(t) /\ FinalScore(t)' = FinalScore(t)
    BY <2>1, <2>3, <2>4, <2>5, OthersExam
  <2>6. ASSUME NEW t \in Students, t = s
        PROVE  /\ Phase(t) = "none" /\ Phase(t)' = "sitting"
               /\ FinalScore(t)' = FinalScore(t)
    <3>1. Of(t) = {} /\ Completed(t) = {}
      BY <2>2, <2>6 DEF Completed, Of
    <3>2. Of(t)' = {a}
      BY <2>4, <2>6, <3>1 DEF Of
    <3>3. Completed(t)' = {}
      BY <2>4, <3>2 DEF Completed, Finished
    <3> QED
      BY <3>1, <3>2, <3>3 DEF Phase, FinalScore
  <2> QED
    BY <2>1, <2>5, <2>6 DEF phases, scores
<1> QED
  BY <1>1, <1>2 DEF ResolveTx

\* With a limit of one, the attempt a student is sitting decides the phase.
LEMMA PhaseOfAttempt ==
  ASSUME IInv, AttemptLimit = 1, NEW a \in Attempts, attempts[a].status # "NONE"
  PROVE  /\ attempts[a].student \in Students
         /\ Of(attempts[a].student) = {a}
         /\ attempts[a].status = "IN_PROGRESS" => Phase(attempts[a].student) = "sitting"
<1> DEFINE s == attempts[a].student
<1>1. s \in Students
  BY DEF IInv, RowsOK, Attempt
<1>2. s # None
  BY <1>1, TestAttemptAssumption
<1>3. Of(s) = {a}
  BY <1>2 DEF IInv, OneOK, Of
<1>4. attempts[a].status = "IN_PROGRESS" => Completed(s) = {}
  BY <1>3 DEF Completed, Finished
<1> QED
  BY <1>1, <1>3, <1>4 DEF Phase

\* The transaction marks one sheet, whether or not another one was marked before.
LEMMA SubmitTxExam ==
  ASSUME IInv, AttemptLimit = 1, NEW w \in Workers, SubmitTx(w)
  PROVE  \E s \in Students :
           /\ w \in markings[s]
           /\ markings' = [markings EXCEPT ![s] = @ \ {w}]
           /\ phases' = [phases EXCEPT ![s] = "finished"]
           /\ scores'[s] \in Int /\ scores' = [scores EXCEPT ![s] = scores'[s]]
<1> DEFINE s == job[w].student
           a == job[w].attempt
<1>1. /\ a \in Attempts /\ s \in Students /\ attempts[a].student = s
      /\ attempts[a].status # "NONE" /\ Submits(job[w])
  BY TestAttemptAssumption
     DEF SubmitTx, At, IInv, JobsOK, JobOK, Handling, Submits, RowsOK
<1>2. None \notin Students /\ attempts' \in [Attempts -> Attempt]
  <2>1. Score(job[w].sheet) \in Int
    BY MarkedType, TestAttemptAssumption DEF Score
  <2> QED
    BY <1>1, <2>1, TestAttemptAssumption
       DEF SubmitTx, IInv, RowsOK, Attempt, SubmittedStatus, Statuses
<1>3. /\ \A b \in Attempts : b # a => attempts'[b] = attempts[b]
      /\ attempts'[a].student = s /\ attempts'[a].status \in Finished
      /\ attempts'[a].score \in Int
  BY <1>1, <1>2 DEF SubmitTx, IInv, RowsOK, Attempt, SubmittedStatus, Finished
<1>4. ASSUME NEW t \in Students, t # s
      PROVE  Phase(t)' = Phase(t) /\ FinalScore(t)' = FinalScore(t)
  BY <1>1, <1>2, <1>3, <1>4, OthersExam
<1>5. ASSUME NEW t \in Students, NEW b \in Attempts, t = s, b = a
      PROVE  Phase(t)' = "finished" /\ FinalScore(t)' = attempts'[b].score
  <2>1. Of(t) = {b}
    BY <1>1, <1>5, PhaseOfAttempt
  <2>3. Of(t)' = {b}
    BY <1>3, <1>5, <2>1 DEF Of
  <2>4. Completed(t)' = {b}
    BY <1>3, <1>5, <2>3 DEF Completed
  <2>5. (CHOOSE x \in Completed(t)' : TRUE) = b
    BY <2>4
  <2>7. Phase(t)' = "finished"
    BY <2>3, <2>4 DEF Phase
  <2>8. FinalScore(t)' = attempts'[b].score
    BY <2>4, <2>5 DEF FinalScore
  <2> QED
    BY <2>7, <2>8
<1>6. w \in markings[s] /\ markings' = [markings EXCEPT ![s] = @ \ {w}]
  <2>1. /\ \A v \in Workers : v # w => job'[v] = job[v]
        /\ ~Submits(job'[w])
    BY DEF SubmitTx, Goto, IInv, JobsOK, JobOK, Job, Submits
  <2>2. markings' = [markings EXCEPT ![s] = @ \ {w}]
    BY <1>1, <2>1, MarkingMoves
  <2> QED
    BY <1>1, <2>2 DEF markings, Marking
<1> QED
  BY <1>1, <1>3, <1>4, <1>5, <1>6 DEF phases, scores

\* A submission that passes the status check hands in a sheet of a sitting student.
LEMMA SubmitExam ==
  ASSUME IInv, AttemptLimit = 1, NEW w \in Workers, NEW a \in Attempts, Submit(w, a)
  PROVE  \/ markings' = markings
         \/ \E s \in Students :
              /\ phases[s] = "sitting" /\ w \notin markings[s]
              /\ markings' = [markings EXCEPT ![s] = @ \cup {w}]
<1> DEFINE p == IF Submittable(a) THEN "read" ELSE "result"
           s == attempts[a].student
<1>1. /\ \A v \in Workers : v # w => job'[v] = job[v]
      /\ job'[w].pc = p /\ job'[w].student = s
      /\ ~Submits(job[w])
  BY DEF Submit, Start, At, Request, Submits, IInv, JobsOK
<1>2. CASE ~Submittable(a)
  <2>1. ~Submits(job'[w])
    BY <1>1, <1>2 DEF Submits
  <2> QED
    BY <1>1, <2>1, MarkingMoves
<1>3. CASE Submittable(a)
  <2>1. Submits(job'[w])
    BY <1>1, <1>3 DEF Submits
  <2>2. markings' = [markings EXCEPT ![s] = @ \cup {w}]
    BY <1>1, <2>1, MarkingMoves
  <2>3. s \in Students /\ phases[s] = "sitting"
    BY <1>3, PhaseOfAttempt DEF Submittable, phases
  <2>4. w \notin markings[s]
    BY <1>1, <2>3 DEF markings, Marking
  <2> QED
    BY <2>2, <2>3, <2>4
<1> QED
  BY <1>2, <1>3

\* A request that dies takes the sheet it was marking with it.
LEMMA AbortExam ==
  ASSUME IInv, NEW w \in Workers, Abort(w)
  PROVE  \/ markings' = markings
         \/ \E s \in Students : /\ w \in markings[s]
                                /\ markings' = [markings EXCEPT ![s] = @ \ {w}]
<1>1. /\ \A v \in Workers : v # w => job'[v] = job[v]
      /\ ~Submits(job'[w])
  BY DEF Abort, End, Idle, Request, Submits, IInv, JobsOK
<1>2. CASE ~Submits(job[w])
  BY <1>1, <1>2, MarkingMoves
<1>3. CASE Submits(job[w])
  <2>1. job[w].student \in Students
    BY <1>3 DEF IInv, JobsOK, JobOK, Handling, Submits
  <2>2. w \in markings[job[w].student]
    BY <1>3, <2>1 DEF markings, Marking
  <2> QED
    BY <1>1, <1>3, <2>1, <2>2, MarkingMoves
<1> QED
  BY <1>2, <1>3

\* No other step hands in, marks or loses a sheet.
LEMMA QuietMarking ==
  ASSUME IInv,
         \/ \E w \in Workers :
              \/ ResolveTx(w) \/ SaveWrite(w) \/ ReadAnswers(w) \/ Result(w)
              \/ \E s \in Students : StartAttempt(w, s)
              \/ \E m \in inflight : SaveAnswer(w, m)
              \/ \E a \in Attempts : GetResult(w, a)
         \/ UNCHANGED job
  PROVE  markings' = markings
<1>1. CASE UNCHANGED job
  BY <1>1 DEF markings, Marking
<1>2. ASSUME NEW w \in Workers, NEW j, job' = [job EXCEPT ![w] = j], ~Submits(job[w]), ~Submits(j)
      PROVE  markings' = markings
  <2>1. job'[w] = j /\ \A v \in Workers : v # w => job'[v] = job[v]
    BY <1>2 DEF IInv, JobsOK
  <2> QED
    BY <1>2, <2>1, MarkingMoves
<1>3. ~Submits(Idle)
  BY DEF Submits, Idle, Request
<1>4. ASSUME NEW w \in Workers, ResolveTx(w) \/ SaveWrite(w) \/ Result(w) PROVE markings' = markings
  <2>1. ~Submits(job[w]) /\ End(w)
    BY <1>4 DEF ResolveTx, SaveWrite, Result, At, Submits
  <2> QED
    BY <1>2, <1>3, <2>1 DEF End
<1>5. ASSUME NEW w \in Workers, NEW p \in {"resolve", "save", "result"}, NEW s, NEW a, NEW m,
             Start(w, Request(p, s, a, m))
      PROVE  markings' = markings
  <2>1. ~Submits(job[w]) /\ ~Submits(Request(p, s, a, m))
    BY <1>5 DEF Start, At, Submits, Request
  <2> QED
    BY <1>2, <1>5, <2>1 DEF Start
<1>6. ASSUME NEW w \in Workers, ReadAnswers(w) PROVE markings' = markings
  <2>1. /\ \A v \in Workers : v # w => job'[v] = job[v]
        /\ Submits(job[w]) /\ Submits(job'[w]) /\ job'[w].student = job[w].student
    BY <1>6 DEF ReadAnswers, At, Submits, IInv, JobsOK, JobOK, Job
  <2> QED
    BY <2>1, MarkingMoves
<1>7. ASSUME NEW w \in Workers, NEW s \in Students, StartAttempt(w, s) PROVE markings' = markings
  BY <1>5, <1>7 DEF StartAttempt
<1>8. ASSUME NEW w \in Workers, NEW m \in inflight, SaveAnswer(w, m) PROVE markings' = markings
  <2>1. CASE Saveable(m.attempt)
    BY <1>5, <1>8, <2>1 DEF SaveAnswer
  <2>2. CASE ~Saveable(m.attempt)
    BY <1>1, <1>8, <2>2 DEF SaveAnswer
  <2> QED
    BY <2>1, <2>2
<1>9. ASSUME NEW w \in Workers, NEW a \in Attempts, GetResult(w, a) PROVE markings' = markings
  BY <1>5, <1>9 DEF GetResult
<1> QED
  BY <1>1, <1>4, <1>6, <1>7, <1>8, <1>9

LEMMA StepExam ==
  ASSUME IInv, SittingOK, AttemptLimit = 1, [Next]_vars
  PROVE  [E!Next]_(E!vars)
<1> USE DEF phases, scores, markings
<1>1. CASE phases' = phases /\ scores' = scores /\ markings' = markings
  BY <1>1 DEF E!vars
<1>2. ASSUME NEW w \in Workers, ResolveTx(w) PROVE [E!Next]_(E!vars)
  <2>1. markings' = markings
    BY <1>2, QuietMarking
  <2>2. CASE \E s \in Students :
               /\ s \in Entitled /\ phases[s] = "none"
               /\ phases' = [phases EXCEPT ![s] = "sitting"]
               /\ scores' = scores
    BY <2>1, <2>2 DEF E!Next, E!Sit
  <2> QED
    BY <1>1, <1>2, <2>1, <2>2, ResolveTxExam
<1>3. ASSUME NEW w \in Workers, SubmitTx(w) PROVE [E!Next]_(E!vars)
  BY <1>3, SubmitTxExam DEF E!Next, E!Mark
<1>4. ASSUME UNCHANGED attempts PROVE phases' = phases /\ scores' = scores
  BY <1>4, SameExam
<1>5. ASSUME NEW a \in Attempts, Expire(a) PROVE [E!Next]_(E!vars)
  <2>1. \A b \in Attempts : /\ attempts'[b].student = attempts[b].student
                            /\ attempts'[b].status = attempts[b].status
                            /\ attempts'[b].score = attempts[b].score
    BY <1>5 DEF Expire, IInv, RowsOK, Attempt
  <2>2. markings' = markings
    BY <1>5, QuietMarking DEF Expire
  <2> QED
    BY <1>1, <2>1, <2>2, SameExam
<1>6. ASSUME NEW w \in Workers, NEW a \in Attempts, Submit(w, a) PROVE [E!Next]_(E!vars)
  <2>1. phases' = phases /\ scores' = scores
    BY <1>4, <1>6 DEF Submit, server
  <2>2. CASE \E s \in Students :
               /\ phases[s] = "sitting" /\ w \notin markings[s]
               /\ markings' = [markings EXCEPT ![s] = @ \cup {w}]
    BY <2>1, <2>2 DEF E!Next, E!HandIn
  <2> QED
    BY <1>1, <1>6, <2>1, <2>2, SubmitExam
<1>7. ASSUME NEW w \in Workers, Abort(w) PROVE [E!Next]_(E!vars)
  <2>1. phases' = phases /\ scores' = scores
    BY <1>4, <1>7 DEF Abort, server
  <2>2. CASE \E s \in Students : /\ w \in markings[s]
                                 /\ markings' = [markings EXCEPT ![s] = @ \ {w}]
    BY <2>1, <2>2 DEF E!Next, E!Drop
  <2> QED
    BY <1>1, <1>7, <2>1, <2>2, AbortExam
<1>8. ASSUME Next, ~ \E w \in Workers : ResolveTx(w) \/ SubmitTx(w) \/ Abort(w),
             ~ \E a \in Attempts : Expire(a),
             ~ \E w \in Workers, a \in Attempts : Submit(w, a)
      PROVE  UNCHANGED attempts /\ markings' = markings
  <2>1. UNCHANGED attempts
    BY <1>8 DEF Next, Step, SaveWrite, ReadAnswers, Result, StartAttempt, SaveAnswer,
       GetResult, Answer, Lose, CloseWindow, server
  <2>2. ASSUME UNCHANGED job PROVE markings' = markings
    BY <2>2, QuietMarking
  <2>3. ASSUME \E w \in Workers :
                 \/ SaveWrite(w) \/ ReadAnswers(w) \/ Result(w)
                 \/ \E s \in Students : StartAttempt(w, s)
                 \/ \E m \in inflight : SaveAnswer(w, m)
                 \/ \E a \in Attempts : GetResult(w, a)
        PROVE  markings' = markings
    BY <2>3, QuietMarking
  <2> QED
    BY <1>8, <2>1, <2>2, <2>3 DEF Next, Step, Answer, Lose, CloseWindow
<1>9. CASE UNCHANGED vars
  <2>1. UNCHANGED attempts /\ UNCHANGED job
    BY <1>9 DEF vars, server
  <2> QED
    BY <1>1, <1>4, <2>1, QuietMarking
<1> QED
  BY <1>1, <1>2, <1>3, <1>4, <1>5, <1>6, <1>7, <1>8, <1>9

LEMMA InitExam == Init => E!Init
<1> SUFFICES ASSUME Init PROVE E!Init
  OBVIOUS
<1>1. \A s \in Students : Of(s) = {}
  BY TestAttemptAssumption DEF Init, Of, NoAttempt
<1>2. \A s \in Students : Completed(s) = {}
  BY <1>1 DEF Completed
<1>3. \A s \in Students : Marking(s) = {}
  BY DEF Init, Marking, Submits, Idle, Request
<1> QED
  BY <1>1, <1>2, <1>3 DEF E!Init, Phase, FinalScore

\* When a test may be attempted once, the service implements Exam, also when
\* several windows or retries submit an attempt at the same time.
THEOREM TakenLikeAnExamHolds ==
  ASSUME AttemptLimit = 1
  PROVE  Spec => TakenLikeAnExam
<1>1. IInv /\ SittingOK /\ [Next]_vars => [E!Next]_(E!vars)
  BY StepExam
<1> QED
  BY <1>1, InitExam, SittingHolds, PTL DEF Spec, TakenLikeAnExam, E!Spec

\* A graded attempt is final, for any attempt limit, unless two submissions of
\* it ran at once.
THEOREM ResultIsFinalHolds == Spec => ResultIsFinal
<1>1. ASSUME IInv, SittingOK, [Next]_vars, NEW a \in Attempts \ doubled,
             attempts[a].status \in Finished
      PROVE  attempts'[a] = attempts[a]
  <2>1. ASSUME NEW w \in Workers, SubmitTx(w) PROVE attempts'[a] = attempts[a]
    <3>1. job[w].attempt # a
      BY <1>1, <2>1 DEF SubmitTx, At, SittingOK, Submits, Finished
    <3> QED
      BY <1>1, <2>1, <3>1 DEF SubmitTx, IInv, RowsOK
  <2>2. ASSUME NEW w \in Workers, ResolveTx(w) PROVE attempts'[a] = attempts[a]
    BY <1>1, <2>2 DEF ResolveTx, IInv, RowsOK, Finished
  <2>3. ASSUME NEW b \in Attempts, Expire(b) PROVE attempts'[a] = attempts[a]
    BY <1>1, <2>3 DEF Expire, IInv, RowsOK, Finished
  <2>4. ASSUME Next, ~ \E w \in Workers : ResolveTx(w) \/ SubmitTx(w),
               ~ \E b \in Attempts : Expire(b)
        PROVE  UNCHANGED attempts
    BY <2>4 DEF Next, Step, SaveWrite, ReadAnswers, Result, Abort, StartAttempt, SaveAnswer,
       Submit, GetResult, Answer, Lose, CloseWindow, server
  <2>5. CASE UNCHANGED vars
    BY <2>5 DEF vars, server
  <2> QED
    BY <1>1, <2>1, <2>2, <2>3, <2>4, <2>5
<1>2. IInv /\ SittingOK /\ [Next]_vars =>
        [\A a \in Attempts \ doubled : attempts[a].status \in Finished =>
           attempts'[a] = attempts[a]]_vars
  BY <1>1
<1> QED
  BY <1>2, SittingHolds, PTL DEF Spec, ResultIsFinal

-----------------------------------------------------------------------------
(* Score, grades and mastery agree. *)

\* Only a finished attempt has grades.
GradesInv ==
  /\ GradesAgree
  /\ \A a \in Attempts : attempts[a].status \notin Finished => answers[a].grade = Blank

LEMMA GradedFinite ==
  ASSUME NEW s
  PROVE  /\ IsFiniteSet(Graded(s)) /\ Cardinality(Graded(s)) \in Nat
         /\ IsFiniteSet(Right(s)) /\ Cardinality(Right(s)) \in Nat
<1>1. IsFiniteSet(Attempts \X Questions)
  BY FS_Product, TestAttemptAssumption
<1>2. Graded(s) \in SUBSET (Attempts \X Questions)
  BY DEF Graded, Of
<1>3. IsFiniteSet(Graded(s))
  BY <1>1, <1>2, FS_Subset
<1>4. Right(s) \in SUBSET Graded(s)
  BY DEF Right
<1>5. IsFiniteSet(Right(s))
  BY <1>3, <1>4, FS_Subset
<1> QED
  BY <1>3, <1>5, FS_CardinalityType

\* One attempt's questions are counted on top of the others'.
LEMMA PairCount ==
  ASSUME NEW G, IsFiniteSet(G), NEW a, NEW M, IsFiniteSet(M), G \cap ({a} \X M) = {}
  PROVE  Cardinality(G \cup ({a} \X M)) = Cardinality(G) + Cardinality(M)
<1>1. IsFiniteSet({a}) /\ Cardinality({a}) = 1
  BY FS_Singleton
<1>2. /\ IsFiniteSet({a} \X M)
      /\ Cardinality({a} \X M) = Cardinality({a}) * Cardinality(M)
  BY <1>1, FS_Product
<1>3. Cardinality(M) \in Nat /\ Cardinality(G) \in Nat
  BY FS_CardinalityType
<1>4. Cardinality({a} \X M) = Cardinality(M)
  BY <1>1, <1>2, <1>3
<1>5. Cardinality(G \cup ({a} \X M)) =
        Cardinality(G) + Cardinality({a} \X M) - Cardinality(G \cap ({a} \X M))
  BY <1>2, FS_Union
<1>6. Cardinality(G \cap ({a} \X M)) = 0
  BY FS_EmptySet
<1> QED
  BY <1>3, <1>4, <1>5, <1>6

\* At most the attempt's questions are added, whatever was counted before.
LEMMA PairBound ==
  ASSUME NEW G, IsFiniteSet(G), NEW a, NEW M, IsFiniteSet(M), NEW H, H \subseteq G \cup ({a} \X M)
  PROVE  Cardinality(H) <= Cardinality(G) + Cardinality(M)
<1>1. IsFiniteSet({a}) /\ Cardinality({a}) = 1
  BY FS_Singleton
<1>2. /\ IsFiniteSet({a} \X M)
      /\ Cardinality({a} \X M) = Cardinality({a}) * Cardinality(M)
  BY <1>1, FS_Product
<1>3. Cardinality(M) \in Nat /\ Cardinality(G) \in Nat
  BY FS_CardinalityType
<1>4. Cardinality({a} \X M) = Cardinality(M)
  BY <1>1, <1>2, <1>3
<1>5. /\ IsFiniteSet(G \cup ({a} \X M))
      /\ Cardinality(G \cup ({a} \X M)) =
           Cardinality(G) + Cardinality({a} \X M) - Cardinality(G \cap ({a} \X M))
  BY <1>2, FS_Union
<1>6. Cardinality(G \cap ({a} \X M)) \in Nat
  <2>1. IsFiniteSet(G \cap ({a} \X M))
    BY FS_Intersection, <1>2
  <2> QED
    BY <2>1, FS_CardinalityType
<1>7. Cardinality(H) <= Cardinality(G \cup ({a} \X M)) /\ Cardinality(H) \in Nat
  BY <1>5, FS_Subset, FS_CardinalityType
<1> QED
  BY <1>3, <1>4, <1>5, <1>6, <1>7

LEMMA AnsweredCount ==
  ASSUME NEW sheet \in Sheet
  PROVE  /\ IsFiniteSet({q \in Questions : sheet[q] # None})
         /\ Cardinality({q \in Questions : sheet[q] # None}) = Practised(sheet)
<1> DEFINE M == {q \in Questions : sheet[q] # None}
           R == {q \in Questions : sheet[q] = "right"}
           W == {q \in Questions : sheet[q] = "wrong"}
<1>1. IsFiniteSet(M) /\ IsFiniteSet(R) /\ IsFiniteSet(W)
  BY FS_Subset, TestAttemptAssumption
<1>2. M = R \cup W /\ R \cap W = {}
  BY TestAttemptAssumption DEF Sheet, Responses
<1>3. Cardinality(R \cup W) = Cardinality(R) + Cardinality(W) - Cardinality(R \cap W)
  BY <1>1, FS_Union
<1>4. Cardinality(R \cap W) = 0 /\ Cardinality(R) \in Nat /\ Cardinality(W) \in Nat
  BY <1>1, <1>2, FS_EmptySet, FS_CardinalityType
<1>5. Cardinality(M) = Cardinality(R) + Cardinality(W)
  BY <1>2, <1>3, <1>4
<1> QED
  BY <1>1, <1>5 DEF Practised, Marked

\* Nothing is graded: whatever starts or expires carries no grades.
LEMMA GradesKept ==
  ASSUME IInv, GradesInv, UNCHANGED mastery, doubled \subseteq doubled',
         \A a \in doubled : attempts'[a].student = attempts[a].student,
         \A a \in Attempts :
           /\ answers'[a].grade = answers[a].grade
           /\ attempts'[a].status \in Finished <=> attempts[a].status \in Finished
           /\ attempts[a].status \in Finished =>
                /\ attempts'[a].score = attempts[a].score
                /\ attempts'[a].student = attempts[a].student
  PROVE  GradesInv'
<1>1. \A a \in Attempts, q \in Questions :
        answers[a].grade[q] # None => attempts[a].status \in Finished
  BY DEF GradesInv, Blank
<1>2. ASSUME NEW s \in Students
      PROVE  Graded(s)' = Graded(s) /\ Right(s)' = Right(s)
  <2>1. \A a \in Attempts, q \in Questions :
          <<a, q>> \in Graded(s)' <=> <<a, q>> \in Graded(s)
    BY <1>1 DEF Graded, Of
  <2>2. Graded(s)' \subseteq Attempts \X Questions /\ Graded(s) \subseteq Attempts \X Questions
    BY DEF Graded, Of
  <2>3. Graded(s)' = Graded(s)
    BY <2>1, <2>2
  <2>4. \A x \in Graded(s) : x[1] \in Attempts
    BY <2>2
  <2> QED
    BY <2>3, <2>4 DEF Right
<1>3. \A a \in Attempts : attempts'[a].status \in Finished /\ a \notin doubled' =>
        attempts'[a].score = Score(answers'[a].grade)
  BY DEF GradesInv, GradesAgree, ScoresAgree
<1>4. \A s \in Students : SubmittedSingly(s)' => SubmittedSingly(s)
  BY DEF SubmittedSingly
<1>5. MasteryAgrees'
  BY <1>2, <1>4 DEF GradesInv, GradesAgree, MasteryAgrees
<1>6. \A a \in Attempts : attempts'[a].status \notin Finished => answers'[a].grade = Blank
  BY DEF GradesInv
<1> QED
  BY <1>3, <1>5, <1>6 DEF GradesInv, GradesAgree, ScoresAgree, Score, Marked

\* The transaction adds its answered questions to what mastery has counted; they
\* were not counted before unless the attempt is submitted twice at once.
LEMMA SubmitTxGrades ==
  ASSUME IInv, SittingOK, GradesInv, NEW w \in Workers, SubmitTx(w),
         NEW a \in Attempts, NEW s \in Students, NEW sheet \in Sheet,
         a = job[w].attempt, s = job[w].student, sheet = job[w].sheet
  PROVE  GradesInv'
<1> DEFINE M == {q \in Questions : sheet[q] # None}
           R == {q \in Questions : sheet[q] = "right"}
           G == [q \in Questions |-> IF sheet[q] # None THEN sheet[q] ELSE answers[a].grade[q]]
<1>1. /\ attempts[a].student = s /\ doubled' = doubled
      /\ a \notin doubled => attempts[a].status = "IN_PROGRESS"
  BY DEF SubmitTx, At, IInv, JobsOK, JobOK, Job, Handling, SittingOK, Submits
<1>2. a \notin doubled => answers[a].grade = Blank
  BY <1>1 DEF GradesInv, Finished
<1>3. answers'[a].grade = G /\ (a \notin doubled => G = sheet)
  <2>1. a \notin doubled => G = sheet
    BY <1>1, <1>2 DEF Blank, Sheet
  <2> QED
    BY <1>1, <2>1 DEF SubmitTx, IInv, DataOK
<1>4. \A b \in Attempts \ {a} : answers'[b] = answers[b] /\ attempts'[b] = attempts[b]
  BY DEF SubmitTx, IInv, DataOK, RowsOK
<1>5. /\ attempts'[a].status \in Finished /\ attempts'[a].student = s
      /\ attempts'[a].score = Score(sheet)
  <2> DEFINE r == [attempts[a] EXCEPT !.status = SubmittedStatus(a), !.score = Score(sheet)]
  <2>1. attempts' = [attempts EXCEPT ![a] = r] /\ attempts[a] \in Attempt
    BY <1>1 DEF SubmitTx, IInv, RowsOK
  <2>2. r.status \in Finished /\ r.student = s /\ r.score = Score(sheet)
    BY <1>1, <2>1 DEF Attempt, SubmittedStatus, Finished
  <2> QED
    BY <1>1, <2>1, <2>2 DEF IInv, RowsOK
<1>6. /\ mastery'[s].seen = mastery[s].seen + Practised(sheet)
      /\ mastery'[s].correct = mastery[s].correct + Marked(sheet, "right")
      /\ \A t \in Students \ {s} : mastery'[t] = mastery[t]
      /\ mastery[s].seen \in Nat /\ mastery[s].correct \in Nat
  <2> DEFINE m == [mastery[s] EXCEPT !.seen = @ + Practised(sheet),
                                     !.correct = @ + Marked(sheet, "right")]
  <2>1. mastery' = [mastery EXCEPT ![s] = m] /\ mastery[s] \in [seen : Nat, correct : Nat]
    BY <1>1 DEF SubmitTx, IInv, DataOK
  <2>2. /\ m.seen = mastery[s].seen + Practised(sheet)
        /\ m.correct = mastery[s].correct + Marked(sheet, "right")
    BY <2>1
  <2> QED
    BY <1>1, <2>1, <2>2 DEF IInv, DataOK
<1>7. \A x \in Students : Graded(x)' \subseteq Attempts \X Questions
                          /\ Graded(x) \subseteq Attempts \X Questions
  BY DEF Graded, Of
<1>8. ASSUME NEW t \in Students, t # s
      PROVE  Graded(t)' = Graded(t) /\ Right(t)' = Right(t)
  <2>1. Of(t)' = Of(t) /\ a \notin Of(t)
    BY <1>1, <1>4, <1>5, <1>8 DEF Of
  <2>2. \A x \in Of(t) \X Questions : answers'[x[1]] = answers[x[1]]
    BY <1>4, <2>1 DEF Of
  <2>3. Graded(t)' = Graded(t)
    BY <2>1, <2>2 DEF Graded
  <2>4. \A x \in Graded(t) : answers'[x[1]] = answers[x[1]]
    BY <2>2 DEF Graded
  <2> QED
    BY <2>3, <2>4 DEF Right
<1>9. /\ Graded(s)' = Graded(s) \cup ({a} \X M)
      /\ a \notin doubled => Graded(s) \cap ({a} \X M) = {}
  <2>1. Of(s)' = Of(s) /\ a \in Of(s)
    BY <1>1, <1>4, <1>5 DEF Of
  <2>2. \A q \in Questions : answers'[a].grade[q] # None <=> answers[a].grade[q] # None \/ q \in M
    BY <1>3
  <2>3. \A b \in Attempts, q \in Questions :
          <<b, q>> \in Graded(s)' <=> <<b, q>> \in Graded(s) \/ (b = a /\ q \in M)
    BY <1>4, <2>1, <2>2 DEF Graded
  <2>4. a \notin doubled => \A q \in Questions : <<a, q>> \notin Graded(s)
    BY <1>2 DEF Graded, Blank
  <2>5. {a} \X M \subseteq Attempts \X Questions
    BY <1>1
  <2>6. a \notin doubled => \A x \in {a} \X M : x \notin Graded(s)
    BY <2>4
  <2>7. \A x \in Attempts \X Questions :
          x \in Graded(s)' <=> x \in Graded(s) \cup ({a} \X M)
    BY <2>3
  <2> QED
    BY <1>7, <2>5, <2>6, <2>7
<1>10. /\ Right(s)' \subseteq Right(s) \cup ({a} \X R)
       /\ a \notin doubled => /\ Right(s)' = Right(s) \cup ({a} \X R)
                              /\ Right(s) \cap ({a} \X R) = {}
  <2>1. \A b \in Attempts, q \in Questions :
          <<b, q>> \in Right(s) <=> <<b, q>> \in Graded(s) /\ answers[b].grade[q] = "right"
    BY DEF Right
  <2>2. \A b \in Attempts, q \in Questions :
          <<b, q>> \in Right(s)' <=> <<b, q>> \in Graded(s)' /\ answers'[b].grade[q] = "right"
    BY DEF Right
  <2>3. \A b \in Attempts, q \in Questions :
          <<b, q>> \in Graded(s)' <=> <<b, q>> \in Graded(s) \/ (b = a /\ q \in M)
    BY <1>9
  <2>4. R \subseteq M
    BY TestAttemptAssumption
  <2>5. a \notin doubled => \A q \in Questions : <<a, q>> \notin Graded(s)
    BY <1>2 DEF Graded, Blank
  <2>6. ASSUME NEW b \in Attempts, NEW q \in Questions
        PROVE  /\ <<b, q>> \in Right(s)' => <<b, q>> \in Right(s) \/ (b = a /\ q \in R)
               /\ a \notin doubled =>
                    (<<b, q>> \in Right(s)' <=> <<b, q>> \in Right(s) \/ (b = a /\ q \in R))
    <3>1. CASE b = a /\ q \in M
      <4>1. answers'[a].grade[q] = sheet[q]
        BY <1>3, <3>1
      <4>2. <<b, q>> \in Right(s)' <=> q \in R
        BY <2>2, <2>3, <3>1, <4>1
      <4> QED
        BY <2>1, <2>5, <3>1, <4>2
    <3>2. CASE b = a /\ q \notin M
      <4>1. answers'[a].grade[q] = answers[a].grade[q]
        BY <1>3, <3>2
      <4>2. <<b, q>> \in Right(s)' <=> <<b, q>> \in Right(s)
        BY <2>1, <2>2, <2>3, <3>2, <4>1
      <4> QED
        BY <2>4, <3>2, <4>2
    <3>3. CASE b # a
      BY <1>4, <2>1, <2>2, <2>3, <3>3
    <3> QED
      BY <3>1, <3>2, <3>3
  <2>7. /\ Right(s) \subseteq Attempts \X Questions
        /\ Right(s)' \subseteq Attempts \X Questions
        /\ {a} \X R \subseteq Attempts \X Questions
    BY <1>1, <1>7 DEF Right
  <2>8. a \notin doubled => \A x \in {a} \X R : x \notin Right(s)
    BY <2>5 DEF Right
  <2>9. \A x \in Attempts \X Questions :
          /\ x \in Right(s)' => x \in Right(s) \cup ({a} \X R)
          /\ a \notin doubled => (x \in Right(s)' <=> x \in Right(s) \cup ({a} \X R))
    BY <2>6
  <2> QED
    BY <2>7, <2>8, <2>9
<1>11. SubmittedSingly(s)' => SubmittedSingly(s) /\ a \notin doubled
  <2>1. \A b \in doubled : attempts'[b].student = attempts[b].student
    BY <1>1, <1>4, <1>5 DEF IInv, DoubledOK
  <2> QED
    BY <1>1, <2>1 DEF SubmittedSingly
<1>12. /\ mastery'[s].seen >= Cardinality(Graded(s)')
       /\ SubmittedSingly(s)' => mastery'[s].seen = Cardinality(Graded(s)')
  <2>1. IsFiniteSet(M) /\ Cardinality(M) = Practised(sheet) /\ Cardinality(M) \in Nat
    BY <1>1, AnsweredCount, FS_CardinalityType
  <2>2. IsFiniteSet(Graded(s)) /\ Cardinality(Graded(s)) \in Nat
    BY GradedFinite
  <2>3. Cardinality(Graded(s)') <= Cardinality(Graded(s)) + Cardinality(M)
    BY <1>9, <2>1, <2>2, PairBound
  <2>4. ASSUME a \notin doubled
        PROVE  Cardinality(Graded(s)') = Cardinality(Graded(s)) + Cardinality(M)
    <3>1. Graded(s) \cap ({a} \X M) = {} /\ Graded(s)' = Graded(s) \cup ({a} \X M)
      BY <1>9, <2>4
    <3>2. Cardinality(Graded(s) \cup ({a} \X M)) = Cardinality(Graded(s)) + Cardinality(M)
      BY <2>1, <2>2, <3>1, PairCount
    <3> QED
      BY <3>1, <3>2
  <2>5. /\ mastery[s].seen >= Cardinality(Graded(s))
        /\ SubmittedSingly(s) => mastery[s].seen = Cardinality(Graded(s))
    BY <1>1 DEF GradesInv, GradesAgree, MasteryAgrees
  <2>6. Graded(s)' \subseteq Graded(s) \cup ({a} \X M) /\ Cardinality(Graded(s)') \in Nat
    <3>1. IsFiniteSet(Attempts \X Questions)
      BY FS_Product, TestAttemptAssumption
    <3> QED
      BY <1>7, <1>9, <3>1, FS_Subset, FS_CardinalityType
  <2> QED
    BY <1>6, <1>11, <2>1, <2>2, <2>3, <2>4, <2>5, <2>6
<1>13. /\ mastery'[s].correct >= Cardinality(Right(s)')
       /\ SubmittedSingly(s)' => mastery'[s].correct = Cardinality(Right(s)')
  <2>1. IsFiniteSet(R) /\ Cardinality(R) = Marked(sheet, "right") /\ Cardinality(R) \in Nat
    BY FS_Subset, FS_CardinalityType, TestAttemptAssumption DEF Marked
  <2>2. IsFiniteSet(Right(s)) /\ Cardinality(Right(s)) \in Nat
    BY GradedFinite
  <2>3. Cardinality(Right(s)') <= Cardinality(Right(s)) + Cardinality(R)
    BY <1>10, <2>1, <2>2, PairBound
  <2>4. ASSUME a \notin doubled
        PROVE  Cardinality(Right(s)') = Cardinality(Right(s)) + Cardinality(R)
    <3>1. Right(s) \cap ({a} \X R) = {} /\ Right(s)' = Right(s) \cup ({a} \X R)
      BY <1>10, <2>4
    <3>2. Cardinality(Right(s) \cup ({a} \X R)) = Cardinality(Right(s)) + Cardinality(R)
      BY <2>1, <2>2, <3>1, PairCount
    <3> QED
      BY <3>1, <3>2
  <2>5. /\ mastery[s].correct >= Cardinality(Right(s))
        /\ SubmittedSingly(s) => mastery[s].correct = Cardinality(Right(s))
    BY <1>1 DEF GradesInv, GradesAgree, MasteryAgrees
  <2>6. Cardinality(Right(s)') \in Nat
    <3>1. IsFiniteSet(Attempts \X Questions)
      BY FS_Product, TestAttemptAssumption
    <3>2. Right(s)' \subseteq Attempts \X Questions
      BY <1>7 DEF Right
    <3> QED
      BY <3>1, <3>2, FS_Subset, FS_CardinalityType
  <2> QED
    BY <1>6, <1>11, <2>1, <2>2, <2>3, <2>4, <2>5, <2>6
<1>14. \A b \in Attempts : attempts'[b].status \in Finished /\ b \notin doubled' =>
         attempts'[b].score = Score(answers'[b].grade)
  BY <1>1, <1>3, <1>4, <1>5 DEF GradesInv, GradesAgree, ScoresAgree
<1>15. ASSUME NEW t \in Students, t # s
       PROVE  /\ mastery'[t] = mastery[t] /\ Graded(t)' = Graded(t) /\ Right(t)' = Right(t)
              /\ SubmittedSingly(t)' => SubmittedSingly(t)
  <2>1. \A b \in doubled : attempts'[b].student = attempts[b].student
    BY <1>1, <1>4, <1>5 DEF IInv, DoubledOK
  <2> QED
    BY <1>1, <1>6, <1>8, <1>15, <2>1 DEF SubmittedSingly
<1>16. MasteryAgrees'
  <2> SUFFICES ASSUME NEW t \in Students
               PROVE  /\ mastery'[t].seen >= Cardinality(Graded(t)')
                      /\ mastery'[t].correct >= Cardinality(Right(t)')
                      /\ SubmittedSingly(t)' =>
                           /\ mastery'[t].seen = Cardinality(Graded(t)')
                           /\ mastery'[t].correct = Cardinality(Right(t)')
    BY DEF MasteryAgrees
  <2>1. CASE t = s
    BY <1>12, <1>13, <2>1
  <2>2. CASE t # s
    BY <1>15, <2>2 DEF GradesInv, GradesAgree, MasteryAgrees
  <2> QED
    BY <2>1, <2>2
<1>17. \A b \in Attempts : attempts'[b].status \notin Finished => answers'[b].grade = Blank
  BY <1>4, <1>5 DEF GradesInv
<1> QED
  BY <1>14, <1>16, <1>17 DEF GradesInv, GradesAgree, ScoresAgree, Score, Marked

LEMMA NextGrades ==
  ASSUME IInv, SittingOK, GradesInv, [Next]_vars
  PROVE  GradesInv'
<1>1. ASSUME NEW w \in Workers, SubmitTx(w) PROVE GradesInv'
  <2>1. job[w].attempt \in Attempts /\ job[w].student \in Students /\ job[w].sheet \in Sheet
    BY <1>1 DEF SubmitTx, At, IInv, JobsOK, JobOK, Job, Handling
  <2> QED
    BY <1>1, <2>1, SubmitTxGrades
<1>2. ASSUME NEW w \in Workers, ResolveTx(w) PROVE GradesInv'
  <2>1. UNCHANGED <<answers, mastery, doubled>>
    BY <1>2 DEF ResolveTx
  <2>2. \A a \in Attempts :
          \/ attempts'[a] = attempts[a]
          \/ attempts[a].status = "NONE" /\ attempts'[a].status = "IN_PROGRESS"
    BY <1>2 DEF ResolveTx, IInv, RowsOK
  <2>3. \A a \in doubled : a \in Attempts /\ attempts[a].status # "NONE"
    BY DEF IInv, DoubledOK
  <2> QED
    BY <2>1, <2>2, <2>3, GradesKept DEF Finished
<1>3. ASSUME NEW w \in Workers, SaveWrite(w) PROVE GradesInv'
  <2>1. UNCHANGED <<attempts, mastery, doubled>>
    BY <1>3 DEF SaveWrite
  <2>2. \A a \in Attempts : answers'[a].grade = answers[a].grade
    BY <1>3 DEF SaveWrite, IInv, DataOK
  <2> QED
    BY <2>1, <2>2, GradesKept
<1>4. ASSUME NEW b \in Attempts, Expire(b) PROVE GradesInv'
  <2>1. UNCHANGED <<answers, mastery, doubled>> /\ doubled \subseteq Attempts
    BY <1>4 DEF Expire, IInv, DoubledOK
  <2>2. \A a \in Attempts : /\ attempts'[a].status = attempts[a].status
                            /\ attempts'[a].score = attempts[a].score
                            /\ attempts'[a].student = attempts[a].student
    BY <1>4 DEF Expire, IInv, RowsOK, Attempt
  <2> QED
    BY <2>1, <2>2, GradesKept
<1>5. ASSUME UNCHANGED server, doubled \subseteq doubled' PROVE GradesInv'
  BY <1>5, GradesKept DEF server
<1>6. ASSUME Next, ~ \E w \in Workers : ResolveTx(w) \/ SubmitTx(w) \/ SaveWrite(w),
             ~ \E a \in Attempts : Expire(a)
      PROVE  UNCHANGED server /\ doubled \subseteq doubled'
  BY <1>6 DEF Next, Step, ReadAnswers, Result, Abort, StartAttempt, SaveAnswer, Submit,
     GetResult, Answer, Lose, CloseWindow
<1>7. CASE UNCHANGED vars
  BY <1>5, <1>7 DEF vars
<1> QED
  BY <1>1, <1>2, <1>3, <1>4, <1>5, <1>6, <1>7

\* Whatever saves overtake each other, expire or are lost, and however often an
\* attempt is submitted: mastery misses no graded answer, and where no two
\* submissions ran at once it counts each once and the score is that of the grades.
THEOREM GradesAgreeHolds == Spec => []GradesAgree
<1>1. Init => GradesInv
  <2> SUFFICES ASSUME Init PROVE GradesInv
    OBVIOUS
  <2>1. ASSUME NEW s \in Students PROVE Cardinality(Graded(s)) = 0 /\ Right(s) = {}
    <3>1. Of(s) = {}
      BY TestAttemptAssumption DEF Init, Of, NoAttempt
    <3>2. Graded(s) = {}
      BY <3>1 DEF Graded
    <3> QED
      BY <3>2, FS_EmptySet DEF Right
  <2>2. MasteryAgrees
    <3>1. ASSUME NEW s \in Students
          PROVE  /\ mastery[s].seen = 0 /\ Cardinality(Graded(s)) = 0
                 /\ mastery[s].correct = 0 /\ Cardinality(Right(s)) = 0
      BY <2>1, FS_EmptySet DEF Init
    <3> QED
      BY <3>1 DEF MasteryAgrees
  <2>3. ScoresAgree /\ \A a \in Attempts : answers[a].grade = Blank
    BY DEF Init, ScoresAgree, NoAttempt, Finished
  <2> QED
    BY <2>2, <2>3 DEF GradesInv, GradesAgree
<1>2. IInv /\ SittingOK /\ GradesInv /\ [Next]_vars => GradesInv'
  BY NextGrades
<1>3. GradesInv => GradesAgree
  BY DEF GradesInv
<1> QED
  BY <1>1, <1>2, <1>3, SittingHolds, PTL DEF Spec

-----------------------------------------------------------------------------
(* The study plan. *)

LEMMA LeastElement ==
  ASSUME NEW S \in SUBSET Nat, S # {}
  PROVE  \E m \in S : \A n \in S : m <= n
<1>1. PICK m \in S : \A n \in S : ~ (<<n, m>> \in OpToRel(<, Nat))
  BY NatLessThanWellFounded, WFMin
<1>2. ASSUME NEW n \in S
      PROVE  m <= n
  <2>1. ~ (n < m)
    BY <1>1 DEF OpToRel
  <2>2. n \in Nat /\ m \in Nat
    OBVIOUS
  <2> QED
    BY <2>1, <2>2
<1> QED
  BY <1>2

-----------------------------------------------------------------------------
(* Minutes. *)

Share(x, d) == IF x.from = 0 /\ x.day = d THEN MinutesOfItem(x) ELSE 0

\* f is the running total of the minutes of the day d.
Totals(f, items, d) ==
  f = [n \in 0..Len(items) |->
         IF n = 0 THEN 0
         ELSE f[n - 1] + IF n \in PlannedOn(items, d) THEN MinutesOfItem(items[n]) ELSE 0]

LEMMA ShareInNat ==
  ASSUME NEW x \in Item, NEW d \in Int
  PROVE  Share(x, d) \in Nat /\ MinutesOfItem(x) \in Nat \ {0}
BY StudyPlanAssumption DEF Share, MinutesOfItem, Item, LessonSet

LEMMA ItemAt ==
  ASSUME NEW items \in Seq(Item), NEW i \in DOMAIN items
  PROVE  /\ items[i] \in Item /\ i \in 1..Len(items) /\ Len(items) \in Nat
         /\ items[i].day \in Int /\ items[i].from \in Nat
         /\ items[i].lesson \in LessonSet \cup {NoLesson} /\ items[i].status \in ItemStatus
<1>1. Len(items) \in Nat /\ DOMAIN items = 1..Len(items)
  OBVIOUS
<1>2. items[i] \in Item
  BY <1>1, ElementOfSeq
<1>3. items[i].day \in Int /\ items[i].from \in Nat
         /\ items[i].lesson \in LessonSet \cup {NoLesson} /\ items[i].status \in ItemStatus
  BY <1>2 DEF Item
<1> QED
  BY <1>1, <1>2, <1>3

\* The totals of a prefix extend by one more item.
LEMMA TotalsOfPrefix ==
  ASSUME NEW items \in Seq(Item), NEW d \in Int
  PROVE  \A m \in 0..Len(items) : \E g \in [0..m -> Nat] :
           /\ g[0] = 0
           /\ \A n \in 1..m : g[n] = g[n - 1] + Share(items[n], d)
<1> DEFINE Has(m) == \E g \in [0..m -> Nat] :
             g[0] = 0 /\ \A n \in 1..m : g[n] = g[n - 1] + Share(items[n], d)
           Bad == {m \in 0..Len(items) : ~Has(m)}
<1>0. Len(items) \in Nat /\ \A n \in 1..Len(items) : Share(items[n], d) \in Nat
  <2>1. Len(items) \in Nat /\ DOMAIN items = 1..Len(items)
    OBVIOUS
  <2> QED
    BY <2>1, ItemAt, ShareInNat
<1>1. SUFFICES ASSUME Bad # {} PROVE FALSE
  OBVIOUS
<1>2. PICK m \in Bad : \A n \in Bad : m <= n
  <2>1. Bad \in SUBSET Nat
    BY <1>0
  <2> QED
    BY <1>1, <2>1, LeastElement
<1>3. Has(0)
  <2> DEFINE g == [n \in 0..0 |-> 0]
  <2>1. g \in [0..0 -> Nat] /\ g[0] = 0 /\ \A n \in 1..0 : g[n] = g[n - 1] + Share(items[n], d)
    OBVIOUS
  <2> QED
    BY <2>1
<1>4. m \in 1..Len(items) /\ ~Has(m)
  <2> HIDE DEF Has
  <2>1. m \in 0..Len(items) /\ ~Has(m)
    BY <1>2
  <2> QED
    BY <1>0, <1>3, <2>1
<1>5. Has(m - 1)
  <2>1. m - 1 \in 0..Len(items) /\ ~(m <= m - 1)
    BY <1>0, <1>4
  <2> HIDE DEF Has
  <2>2. m - 1 \notin Bad
    <3> HIDE DEF Bad
    <3> QED
      BY <1>2, <2>1
  <2> QED
    BY <2>1, <2>2
<1>6. PICK g \in [0..(m - 1) -> Nat] :
        g[0] = 0 /\ \A n \in 1..(m - 1) : g[n] = g[n - 1] + Share(items[n], d)
  BY <1>5
<1> DEFINE h == [n \in 0..m |-> IF n = m THEN g[m - 1] + Share(items[m], d) ELSE g[n]]
<1>7. h \in [0..m -> Nat]
  BY <1>0, <1>4
<1>8. h[0] = 0
  BY <1>0, <1>4, <1>6
<1>9. ASSUME NEW n \in 1..m
      PROVE  h[n] = h[n - 1] + Share(items[n], d)
  BY <1>0, <1>4, <1>6
<1> HIDE DEF h
<1>10. Has(m)
  BY <1>7, <1>8, <1>9
<1> QED
  BY <1>4, <1>10

\* The running total of the day d exists, and MinutesOn is its last value.
LEMMA MinutesAreTotals ==
  ASSUME NEW items \in Seq(Item), NEW d \in Int
  PROVE  \E g \in [0..Len(items) -> Nat] :
           /\ g[0] = 0
           /\ \A n \in 1..Len(items) : g[n] = g[n - 1] + Share(items[n], d)
           /\ MinutesOn(items, d) = g[Len(items)]
<1>0. Len(items) \in Nat
  OBVIOUS
<1>1. PICK g \in [0..Len(items) -> Nat] :
        g[0] = 0 /\ \A n \in 1..Len(items) : g[n] = g[n - 1] + Share(items[n], d)
  <2>1. Len(items) \in 0..Len(items)
    BY <1>0
  <2> QED
    BY <2>1, TotalsOfPrefix, Zenon
<1>2. ASSUME NEW n \in 1..Len(items)
      PROVE  (IF n \in PlannedOn(items, d) THEN MinutesOfItem(items[n]) ELSE 0)
             = Share(items[n], d)
  BY DEF PlannedOn, Planned, Share
<1>3. Totals(g, items, d)
  BY <1>0, <1>1, <1>2 DEF Totals
<1> DEFINE f == CHOOSE f : Totals(f, items, d)
<1>4. Totals(f, items, d)
  BY <1>3
<1>5. MinutesOn(items, d) = f[Len(items)]
  BY DEF MinutesOn, Totals
<1> HIDE DEF f
<1>6. f[0] = 0 /\ \A n \in 1..Len(items) : f[n] = f[n - 1] + Share(items[n], d)
  BY <1>0, <1>2, <1>4 DEF Totals
<1> DEFINE Bad == {n \in 0..Len(items) : f[n] # g[n]}
<1>7. Bad = {}
  <2>1. SUFFICES ASSUME Bad # {} PROVE FALSE
    OBVIOUS
  <2>2. Bad \in SUBSET Nat
    BY <1>0
  <2>3. PICK n \in Bad : \A k \in Bad : n <= k
    BY <2>1, <2>2, LeastElement
  <2>4. n \in 1..Len(items)
    BY <1>0, <1>1, <1>6, <2>3
  <2>5. n - 1 \in 0..Len(items) /\ ~(n <= n - 1)
    BY <1>0, <2>4
  <2>6. f[n - 1] = g[n - 1]
    BY <2>3, <2>5
  <2> QED
    BY <1>1, <1>6, <2>3, <2>4, <2>6
<1>8. f[Len(items)] = g[Len(items)]
  <2>1. Len(items) \in 0..Len(items)
    BY <1>0
  <2> QED
    BY <1>7, <2>1
<1> QED
  BY <1>1, <1>5, <1>8

\* What is on a day depends on from, day and lesson of the items alone, one by one.
LEMMA TotalsAgree ==
  ASSUME NEW items \in Seq(Item), NEW other \in Seq(Item), NEW d \in Int,
         Len(items) <= Len(other),
         \A i \in 1..Len(items) : Share(items[i], d) = Share(other[i], d)
  PROVE  /\ Len(other) = Len(items) => MinutesOn(other, d) = MinutesOn(items, d)
         /\ Len(other) = Len(items) + 1
              => MinutesOn(other, d) = MinutesOn(items, d) + Share(other[Len(other)], d)
         /\ MinutesOn(items, d) \in Nat
<1>0. Len(items) \in Nat /\ Len(other) \in Nat
  OBVIOUS
<1>1. PICK f \in [0..Len(items) -> Nat] :
        /\ f[0] = 0
        /\ \A n \in 1..Len(items) : f[n] = f[n - 1] + Share(items[n], d)
        /\ MinutesOn(items, d) = f[Len(items)]
  BY MinutesAreTotals, Zenon
<1>2. PICK g \in [0..Len(other) -> Nat] :
        /\ g[0] = 0
        /\ \A n \in 1..Len(other) : g[n] = g[n - 1] + Share(other[n], d)
        /\ MinutesOn(other, d) = g[Len(other)]
  BY MinutesAreTotals, Zenon
<1> DEFINE Bad == {n \in 0..Len(items) : f[n] # g[n]}
<1>3. Bad = {}
  <2>1. SUFFICES ASSUME Bad # {} PROVE FALSE
    OBVIOUS
  <2>2. Bad \in SUBSET Nat
    BY <1>0
  <2>3. PICK n \in Bad : \A k \in Bad : n <= k
    BY <2>1, <2>2, LeastElement
  <2>4. n \in 1..Len(items) /\ n \in 1..Len(other)
    BY <1>0, <1>1, <1>2, <2>3
  <2>5. n - 1 \in 0..Len(items) /\ ~(n <= n - 1)
    BY <1>0, <2>4
  <2>6. f[n - 1] = g[n - 1]
    BY <2>3, <2>5
  <2>7. f[n] = f[n - 1] + Share(items[n], d) /\ g[n] = g[n - 1] + Share(other[n], d)
    BY <1>1, <1>2, <2>4
  <2>8. f[n] = g[n]
    BY <2>4, <2>6, <2>7
  <2> QED
    BY <2>3, <2>8
<1>4. f[Len(items)] = g[Len(items)] /\ f[Len(items)] \in Nat
  <2>1. Len(items) \in 0..Len(items)
    BY <1>0
  <2> QED
    BY <1>3, <2>1
<1>5. ASSUME Len(other) = Len(items) + 1
      PROVE  MinutesOn(other, d) = MinutesOn(items, d) + Share(other[Len(other)], d)
  <2>1. Len(other) \in 1..Len(other) /\ Len(other) - 1 = Len(items)
    BY <1>0, <1>5
  <2>2. g[Len(other)] = g[Len(items)] + Share(other[Len(other)], d)
    BY <1>2, <2>1
  <2> QED
    BY <1>1, <1>2, <1>4, <2>2
<1> QED
  BY <1>1, <1>2, <1>4, <1>5

LEMMA MinutesInNat ==
  ASSUME NEW items \in Seq(Item), NEW d \in Int
  PROVE  MinutesOn(items, d) \in Nat
<1>1. Len(items) \in Nat
  OBVIOUS
<1> QED
  BY <1>1, TotalsAgree

LEMMA MinutesOfNone ==
  ASSUME NEW d \in Int
  PROVE  MinutesOn(<<>>, d) = 0 /\ PlannedOn(<<>>, d) = {}
<1>1. <<>> \in Seq(Item) /\ Len(<<>>) = 0
  OBVIOUS
<1>2. MinutesOn(<<>>, d) = 0
  BY <1>1, MinutesAreTotals
<1> QED
  BY <1>2 DEF PlannedOn, Planned

LEMMA AppendItem ==
  ASSUME NEW items \in Seq(Item), NEW x \in Item, NEW d \in Int
  PROVE  /\ Append(items, x) \in Seq(Item)
         /\ MinutesOn(Append(items, x), d) = MinutesOn(items, d) + Share(x, d)
         /\ PlannedOn(Append(items, x), d)
              = PlannedOn(items, d) \cup (IF x.from = 0 /\ x.day = d THEN {Len(items) + 1} ELSE {})
<1> DEFINE other == Append(items, x)
<1>1. /\ other \in Seq(Item) /\ Len(items) \in Nat /\ Len(other) = Len(items) + 1
      /\ other[Len(items) + 1] = x /\ \A i \in 1..Len(items) : other[i] = items[i]
  OBVIOUS
<1>2. DOMAIN other = 1..(Len(items) + 1) /\ DOMAIN items = 1..Len(items)
  BY <1>1
<1> HIDE DEF other
<1>3. MinutesOn(other, d) = MinutesOn(items, d) + Share(x, d)
  <2>1. Len(items) <= Len(other) /\ \A i \in 1..Len(items) : Share(items[i], d) = Share(other[i], d)
    BY <1>1
  <2>2. MinutesOn(other, d) = MinutesOn(items, d) + Share(other[Len(other)], d)
    BY <1>1, <2>1, TotalsAgree
  <2> QED
    BY <1>1, <2>2
<1>4. PlannedOn(other, d)
        = PlannedOn(items, d) \cup (IF x.from = 0 /\ x.day = d THEN {Len(items) + 1} ELSE {})
  BY <1>1, <1>2 DEF PlannedOn, Planned
<1> QED
  BY <1>1, <1>3, <1>4 DEF other

-----------------------------------------------------------------------------
(* Days. *)

DayFits(items, d) ==
  \/ Cardinality(PlannedOn(items, d)) = 1
  \/ MinutesOn(items, d) <= DailyGoal + DrillMinutes

Sound(items) ==
  /\ \A d \in Int : DayFits(items, d)
  /\ \E b \in Int : \A i \in Planned(items) : items[i].day \in b..(b + PlanDays - 1)

LEMMA SoundFitsDays ==
  ASSUME NEW items \in Seq(Item), Sound(items)
  PROVE  FitsDays(items)
<1> DEFINE days == {items[i].day : i \in Planned(items)}
<1>1. PICK b \in Int : \A i \in Planned(items) : items[i].day \in b..(b + PlanDays - 1)
  BY DEF Sound
<1>2. days \subseteq b..(b + PlanDays - 1)
  BY <1>1
<1>3. b + PlanDays - 1 \in Int /\ PlanDays \in Nat \ {0}
  BY StudyPlanAssumption
<1>4. /\ IsFiniteSet(b..(b + PlanDays - 1))
      /\ Cardinality(b..(b + PlanDays - 1)) = PlanDays
  BY <1>3, FS_Interval
<1>5. Cardinality(days) <= PlanDays
  BY <1>2, <1>4, FS_Subset
<1>6. \A d \in days : d \in Int
  BY <1>1, <1>3
<1>7. \A d \in days : DayFits(items, d)
  BY <1>6 DEF Sound
<1> QED
  BY <1>5, <1>7 DEF FitsDays, DayFits

\* Statuses play no part in it.
LEMMA SoundSame ==
  ASSUME NEW items \in Seq(Item), NEW other \in Seq(Item), Len(other) = Len(items),
         \A i \in DOMAIN items : /\ other[i].from = items[i].from /\ other[i].day = items[i].day
                                 /\ other[i].lesson = items[i].lesson,
         Sound(items)
  PROVE  Sound(other)
<1>1. DOMAIN items = 1..Len(items) /\ DOMAIN other = 1..Len(items) /\ Len(items) \in Nat
  OBVIOUS
<1>2. Planned(other) = Planned(items)
  BY <1>1 DEF Planned
<1>3. ASSUME NEW d \in Int PROVE DayFits(other, d)
  <2>1. PlannedOn(other, d) = PlannedOn(items, d)
    BY <1>1, <1>2 DEF PlannedOn, Planned
  <2>2. \A i \in 1..Len(items) : Share(items[i], d) = Share(other[i], d)
    BY <1>1 DEF Share, MinutesOfItem
  <2>3. MinutesOn(other, d) = MinutesOn(items, d)
    BY <1>1, <2>2, TotalsAgree
  <2> QED
    BY <2>1, <2>3 DEF Sound, DayFits
<1>4. \A i \in Planned(other) : other[i].day = items[i].day
  BY <1>2 DEF Planned
<1> QED
  BY <1>2, <1>3, <1>4 DEF Sound

\* Nor do items that were moved.
LEMMA SoundAppend ==
  ASSUME NEW items \in Seq(Item), NEW x \in Item, x.from # 0, Sound(items)
  PROVE  Sound(Append(items, x))
<1>1. ASSUME NEW d \in Int PROVE DayFits(Append(items, x), d)
  <2>1. Share(x, d) = 0 /\ MinutesOn(items, d) \in Nat
    BY MinutesInNat DEF Share
  <2>2. MinutesOn(Append(items, x), d) = MinutesOn(items, d) + Share(x, d)
    BY AppendItem
  <2>3. PlannedOn(Append(items, x), d)
          = PlannedOn(items, d) \cup (IF x.from = 0 /\ x.day = d THEN {Len(items) + 1} ELSE {})
    BY AppendItem
  <2>4. PlannedOn(Append(items, x), d) = PlannedOn(items, d)
    BY <2>3
  <2> QED
    BY <2>1, <2>2, <2>4 DEF Sound, DayFits
<1>2. \A i \in Planned(Append(items, x)) : i \in Planned(items) /\ Append(items, x)[i] = items[i]
  BY DEF Planned
<1> QED
  BY <1>1, <1>2 DEF Sound

-----------------------------------------------------------------------------
(* Packing. *)

PackState == [items : Seq(Item), used : Nat, offset : Nat, since : Nat]

Orderly(s, today, h) ==
  /\ s.offset <= h
  /\ \A i \in DOMAIN s.items :
       /\ s.items[i].from = 0 /\ s.items[i].status = "PENDING"
       /\ today <= s.items[i].day /\ s.items[i].day <= today + s.offset
       /\ s.items[i].day < today + h

\* What has been packed fits, and used is what the last day holds.
Measured(s, today) ==
  /\ \A d \in Int : DayFits(s.items, d)
  /\ \A d \in Int : d > today + s.offset => MinutesOn(s.items, d) = 0 /\ PlannedOn(s.items, d) = {}
  /\ MinutesOn(s.items, today + s.offset) = s.used
  /\ s.used = 0 => PlannedOn(s.items, today + s.offset) = {} /\ s.since = 0

\* Each of the first n lessons is there at most once.
Distinct(items, n) ==
  /\ \A i \in DOMAIN items : items[i].lesson # NoLesson
       => \E k \in 1..n : items[i].lesson = Lessons[k]
  /\ \A i, j \in DOMAIN items :
       items[i].lesson = items[j].lesson /\ items[i].lesson # NoLesson => i = j

PackedWell(s, today, h, n) ==
  s \in PackState /\ Orderly(s, today, h) /\ Measured(s, today) /\ Distinct(s.items, n)

LEMMA NothingPacked ==
  ASSUME NEW today \in Int, NEW h \in Nat \ {0}
  PROVE  PackedWell(PackStart, today, h, 0)
<1>1. PackStart \in PackState /\ PackStart.items = <<>> /\ PackStart.used = 0
        /\ PackStart.offset = 0 /\ PackStart.since = 0
  BY DEF PackStart, PackState
<1>2. DOMAIN <<>> = {} /\ h \in Nat /\ DailyGoal + DrillMinutes \in Nat
  BY StudyPlanAssumption
<1>3. \A d \in Int : MinutesOn(<<>>, d) = 0 /\ PlannedOn(<<>>, d) = {}
  BY MinutesOfNone
<1>4. Orderly(PackStart, today, h) /\ Distinct(PackStart.items, 0)
  BY <1>1, <1>2 DEF Orderly, Distinct
<1>5. Measured(PackStart, today)
  BY <1>1, <1>2, <1>3 DEF Measured, DayFits
<1> QED
  BY <1>1, <1>4, <1>5 DEF PackedWell

LEMMA DistinctGrows ==
  ASSUME NEW items, NEW n \in Nat, Distinct(items, n)
  PROVE  Distinct(items, n + 1)
BY DEF Distinct

\* The next day is begun empty.
LEMMA NextDayPacked ==
  ASSUME NEW s, NEW today \in Int, NEW h \in Nat \ {0}, NEW n \in Nat,
         PackedWell(s, today, h, n), s.offset < h
  PROVE  PackedWell([items |-> s.items, used |-> 0, offset |-> s.offset + 1, since |-> 0], today, h, n)
<1> DEFINE r == [items |-> s.items, used |-> 0, offset |-> s.offset + 1, since |-> 0]
<1>1. s \in PackState /\ Orderly(s, today, h) /\ Measured(s, today) /\ Distinct(s.items, n)
  BY DEF PackedWell
<1>2. /\ r \in PackState /\ r.items = s.items /\ r.offset = s.offset + 1
      /\ r.used = 0 /\ r.since = 0 /\ s.offset \in Nat /\ h \in Nat
  <2>1. s.items \in Seq(Item) /\ s.offset \in Nat /\ h \in Nat
    BY <1>1, StudyPlanAssumption DEF PackState
  <2> QED
    BY <2>1 DEF PackState
<1> HIDE DEF r
<1>3. \A i \in DOMAIN s.items : s.items[i].day \in Int
  BY <1>1, ItemAt DEF PackState
<1>4. Orderly(r, today, h)
  BY <1>1, <1>2, <1>3 DEF Orderly
<1>5. Measured(r, today)
  <2>1. today + r.offset \in Int /\ today + r.offset > today + s.offset
    BY <1>2
  <2>2. \A d \in Int : d > today + r.offset => d > today + s.offset
    BY <1>2
  <2> QED
    BY <1>1, <1>2, <2>1, <2>2 DEF Measured
<1> QED
  BY <1>1, <1>2, <1>4, <1>5 DEF PackedWell, r

\* An item is added to the last day.
LEMMA ItemPacked ==
  ASSUME NEW s, NEW today \in Int, NEW h \in Nat \ {0}, NEW n \in Nat,
         PackedWell(s, today, h, n), s.offset < h,
         NEW l \in LessonSet \cup {NoLesson}, NEW m \in Nat, NEW c \in Nat,
         m = MinutesOfItem(NewItem(today + s.offset, l)),
         s.used = 0 \/ s.used + m <= DailyGoal + DrillMinutes,
         l # NoLesson => /\ \A i \in DOMAIN s.items : s.items[i].lesson # l
                     /\ \E k \in 1..n : l = Lessons[k]
  PROVE  PackedWell([items |-> Append(s.items, NewItem(today + s.offset, l)),
                     used |-> s.used + m, offset |-> s.offset, since |-> c], today, h, n)
<1> DEFINE d0 == today + s.offset
           x == NewItem(d0, l)
           r == [items |-> Append(s.items, x), used |-> s.used + m, offset |-> s.offset,
                 since |-> c]
           items == s.items
           more == Append(s.items, x)
<1>1. s \in PackState /\ Orderly(s, today, h) /\ Measured(s, today) /\ Distinct(s.items, n)
  BY DEF PackedWell
<1>2. /\ s.offset \in Nat /\ s.used \in Nat /\ items \in Seq(Item) /\ d0 \in Int
      /\ h \in Nat /\ DailyGoal \in Nat /\ DrillMinutes \in Nat
  BY <1>1, StudyPlanAssumption DEF PackState
<1>3. x \in Item /\ x.from = 0 /\ x.day = d0 /\ x.lesson = l /\ x.status = "PENDING"
  BY <1>2 DEF NewItem, Item, ItemStatus
<1>4. m = MinutesOfItem(x) /\ m \in Nat \ {0}
  BY <1>2, <1>3, ShareInNat
<1>5. /\ more \in Seq(Item) /\ Len(items) \in Nat
      /\ DOMAIN more = 1..(Len(items) + 1) /\ DOMAIN items = 1..Len(items)
      /\ more[Len(items) + 1] = x /\ \A i \in DOMAIN items : more[i] = items[i]
  BY <1>2, <1>3
<1>6. /\ r \in PackState /\ r.items = more /\ r.offset = s.offset /\ r.used = s.used + m
  <2> HIDE DEF more
  <2> QED
    BY <1>2, <1>5 DEF PackState, more
<1>8. \A d \in Int : MinutesOn(items, d) \in Nat
  BY <1>2, MinutesInNat
<1>15. ASSUME NEW d \in Int, d # d0
       PROVE  MinutesOn(more, d) = MinutesOn(items, d) /\ PlannedOn(more, d) = PlannedOn(items, d)
  <2>1. Share(x, d) = 0 /\ MinutesOn(items, d) \in Nat
    BY <1>3, <1>8, <1>15 DEF Share
  <2>2. MinutesOn(more, d) = MinutesOn(items, d) + Share(x, d)
    BY <1>2, <1>3, AppendItem
  <2>3. PlannedOn(more, d)
          = PlannedOn(items, d) \cup (IF x.from = 0 /\ x.day = d THEN {Len(items) + 1} ELSE {})
    BY <1>2, <1>3, AppendItem
  <2> HIDE DEF more, x, items, d0
  <2> QED
    BY <2>1, <2>2, <2>3, <1>3, <1>15
<1>16. /\ MinutesOn(more, d0) = MinutesOn(items, d0) + m
       /\ PlannedOn(more, d0) = PlannedOn(items, d0) \cup {Len(items) + 1}
  <2>1. Share(x, d0) = m
    BY <1>3, <1>4 DEF Share
  <2>2. MinutesOn(more, d0) = MinutesOn(items, d0) + Share(x, d0)
    BY <1>2, <1>3, AppendItem
  <2>3. PlannedOn(more, d0)
          = PlannedOn(items, d0) \cup (IF x.from = 0 /\ x.day = d0 THEN {Len(items) + 1} ELSE {})
    BY <1>2, <1>3, AppendItem
  <2> HIDE DEF more, x, items, d0
  <2> QED
    BY <2>1, <2>2, <2>3, <1>3
<1> HIDE DEF x, r, items, more, d0
<1>9. items = s.items /\ d0 = today + s.offset
  BY DEF items, d0
<1>10. \A i \in DOMAIN items : items[i].day \in Int
  BY <1>2, ItemAt
<1>11. Orderly(r, today, h)
  <2>1. ASSUME NEW i \in DOMAIN more
        PROVE  /\ more[i].from = 0 /\ more[i].status = "PENDING"
               /\ today <= more[i].day /\ more[i].day <= today + s.offset
               /\ more[i].day < today + h
    <3>1. CASE i \in DOMAIN items
      BY <1>1, <1>5, <1>9, <3>1 DEF Orderly
    <3>2. CASE i = Len(items) + 1
      <4>1. today <= d0 /\ d0 <= today + s.offset /\ d0 < today + h
        BY <1>2, <1>9
      <4>2. more[i] = x
        BY <1>5, <3>2
      <4> QED
        BY <1>3, <4>1, <4>2
    <3> QED
      BY <1>5, <3>1, <3>2
  <2> QED
    BY <1>2, <1>6, <2>1 DEF Orderly
<1>12. Measured(r, today)
  <2>1. ASSUME NEW d \in Int PROVE DayFits(more, d)
    <3>1. CASE d # d0
      <4>1. MinutesOn(more, d) = MinutesOn(items, d) /\ PlannedOn(more, d) = PlannedOn(items, d)
        BY <1>15, <3>1
      <4> QED
        BY <1>1, <1>9, <4>1 DEF Measured, DayFits
    <3>2. CASE d = d0 /\ s.used = 0
      <4>1. PlannedOn(more, d) = {Len(items) + 1}
        BY <1>1, <1>16, <1>9, <3>2 DEF Measured
      <4>2. Cardinality({Len(items) + 1}) = 1
        BY FS_Singleton
      <4> QED
        BY <4>1, <4>2 DEF DayFits
    <3>3. CASE d = d0 /\ s.used # 0
      <4>1. MinutesOn(more, d) = s.used + m
        BY <1>1, <1>16, <1>9, <3>3 DEF Measured
      <4> QED
        BY <3>3, <4>1 DEF DayFits
    <3> QED
      BY <3>1, <3>2, <3>3
  <2>2. ASSUME NEW d \in Int, d > d0
        PROVE  MinutesOn(more, d) = 0 /\ PlannedOn(more, d) = {}
    <3>1. d # d0
      BY <1>2, <2>2
    <3>2. MinutesOn(more, d) = MinutesOn(items, d) /\ PlannedOn(more, d) = PlannedOn(items, d)
      BY <1>15, <3>1
    <3> QED
      BY <1>1, <1>9, <2>2, <3>2 DEF Measured
  <2>3. MinutesOn(more, d0) = s.used + m
    BY <1>1, <1>2, <1>16, <1>9 DEF Measured
  <2>4. s.used + m # 0
    BY <1>2, <1>4
  <2> QED
    BY <1>6, <1>9, <2>1, <2>2, <2>3, <2>4 DEF Measured
<1>13. Distinct(more, n)
  <2>1. \A i \in DOMAIN more : i \in DOMAIN items \/ i = Len(items) + 1
    BY <1>5
  <2>2. ASSUME NEW i \in DOMAIN more, more[i].lesson # NoLesson
        PROVE  \E k \in 1..n : more[i].lesson = Lessons[k]
    BY <1>1, <1>3, <1>5, <1>9, <2>1, <2>2 DEF Distinct
  <2>3. ASSUME NEW i \in DOMAIN more, NEW j \in DOMAIN more,
               more[i].lesson = more[j].lesson, more[i].lesson # NoLesson
        PROVE  i = j
    <3>1. CASE i \in DOMAIN items /\ j \in DOMAIN items
      BY <1>1, <1>5, <1>9, <2>3, <3>1 DEF Distinct
    <3>2. CASE i \in DOMAIN items /\ j = Len(items) + 1
      BY <1>3, <1>5, <1>9, <2>3, <3>2
    <3>3. CASE i = Len(items) + 1 /\ j \in DOMAIN items
      BY <1>3, <1>5, <1>9, <2>3, <3>3
    <3> QED
      BY <2>1, <3>1, <3>2, <3>3
  <2> QED
    BY <2>2, <2>3 DEF Distinct
<1>14. PackedWell(r, today, h, n)
  BY <1>6, <1>11, <1>12, <1>13 DEF PackedWell
<1> QED
  BY <1>14 DEF r, x, d0

LEMMA LessonFacts ==
  /\ Len(Lessons) \in Nat /\ DOMAIN Lessons = 1..Len(Lessons)
  /\ \A n \in 1..Len(Lessons) : Lessons[n] \in LessonSet /\ Lessons[n] # NoLesson
  /\ \A k, n \in 1..Len(Lessons) : Lessons[k] = Lessons[n] => k = n
<1>1. Lessons \in Seq(ToSet(Lessons)) /\ IsInjective(Lessons) /\ NoLesson \notin ToSet(Lessons)
  BY StudyPlanAssumption
<1>2. Len(Lessons) \in Nat /\ DOMAIN Lessons = 1..Len(Lessons)
  BY <1>1
<1>3. \A n \in 1..Len(Lessons) : Lessons[n] \in ToSet(Lessons)
  BY <1>1, ElementOfSeq
<1> QED
  BY <1>1, <1>2, <1>3 DEF IsInjective, LessonSet

LEMMA LessonPacked ==
  ASSUME NEW s, NEW today \in Int, NEW h \in Nat \ {0}, NEW n \in Nat, NEW drills \in BOOLEAN,
         PackedWell(s, today, h, n), n + 1 <= Len(Lessons), s.offset < h
  PROVE  PackedWell(AddLesson(s, Lessons[n + 1], today, h, drills), today, h, n + 1)
<1> DEFINE l == Lessons[n + 1]
           m == MinutesOf[l]
           fresh == [items |-> s.items, used |-> 0, offset |-> s.offset + 1, since |-> 0]
           next == IF Fits(s.used, m) THEN s ELSE fresh
           d == today + next.offset
           t == WithDrill(next, d, drills)
           r == [items |-> Append(t.items, NewItem(d, l)), used |-> t.used + m,
                 offset |-> t.offset, since |-> t.since + 1]
<1>1. AddLesson(s, l, today, h, drills) = IF next.offset >= h THEN next ELSE r
  BY DEF AddLesson
<1>2. /\ n + 1 \in 1..Len(Lessons) /\ l \in LessonSet /\ l # NoLesson /\ m \in Nat
      /\ DrillMinutes \in Nat \ {0} /\ DrillEvery \in Nat \ {0} /\ DailyGoal \in Nat
      /\ h \in Nat
  <2>1. n + 1 \in 1..Len(Lessons)
    BY LessonFacts
  <2>2. l \in LessonSet /\ l # NoLesson
    BY <2>1, LessonFacts
  <2>3. MinutesOf \in [LessonSet -> Nat \ {0}]
    BY StudyPlanAssumption DEF LessonSet
  <2> HIDE DEF l
  <2> QED
    BY <2>1, <2>2, <2>3, StudyPlanAssumption
<1>3. s \in PackState /\ Distinct(s.items, n)
  BY DEF PackedWell
<1>4. PackedWell(next, today, h, n) /\ next \in PackState /\ next.items = s.items
  <2>1. PackedWell(fresh, today, h, n)
    BY NextDayPacked
  <2>2. PackedWell(next, today, h, n)
    BY <2>1
  <2>3. fresh.items = s.items
    OBVIOUS
  <2> QED
    BY <2>2, <2>3 DEF PackedWell
<1>5. next.used = 0 \/ next.used + m <= DailyGoal
  BY DEF Fits
<1> HIDE DEF next, l, m
<1>6. \A i \in DOMAIN s.items : s.items[i].lesson # l
  <2>1. ASSUME NEW i \in DOMAIN s.items, s.items[i].lesson = l PROVE FALSE
    <3>1. PICK k \in 1..n : s.items[i].lesson = Lessons[k]
      BY <1>2, <1>3, <2>1 DEF Distinct
    <3>2. Lessons[k] = Lessons[n + 1] /\ k \in 1..Len(Lessons) /\ k # n + 1
      BY <1>2, <2>1, <3>1, LessonFacts DEF l
    <3> QED
      BY <1>2, <3>2, LessonFacts
  <2> QED
    BY <2>1
<1>7. CASE next.offset >= h
  <2>1. AddLesson(s, l, today, h, drills) = next
    BY <1>1, <1>7
  <2>2. PackedWell(next, today, h, n + 1)
    BY <1>4, DistinctGrows DEF PackedWell
  <2> QED
    BY <2>1, <2>2 DEF l
<1>8. CASE ~(next.offset >= h)
  <2>0. next.offset < h /\ next.used \in Nat /\ next.since \in Nat /\ next.offset \in Nat
    BY <1>2, <1>4, <1>8 DEF PackState
  <2>1. /\ PackedWell(t, today, h, n) /\ t.offset = next.offset
        /\ t.used = 0 \/ t.used + m <= DailyGoal + DrillMinutes
        /\ \A i \in DOMAIN t.items : t.items[i].lesson # l
    <3>1. CASE t = next
      BY <1>2, <1>4, <1>5, <1>6, <2>0, <3>1
    <3>2. CASE t # next
      <4>0. /\ next.since >= DrillEvery /\ next.used + DrillMinutes <= DailyGoal
            /\ t = [items |-> Append(next.items, NewItem(d, NoLesson)),
                    used |-> next.used + DrillMinutes, offset |-> next.offset, since |-> 0]
        BY <3>2 DEF WithDrill
      <4>1. DrillMinutes = MinutesOfItem(NewItem(d, NoLesson))
        BY DEF MinutesOfItem, NewItem
      <4>2. next.used + DrillMinutes <= DailyGoal + DrillMinutes
        BY <1>2, <2>0, <4>0
      <4>3. PackedWell([items |-> Append(next.items, NewItem(d, NoLesson)),
                        used |-> next.used + DrillMinutes, offset |-> next.offset,
                        since |-> 0], today, h, n)
        BY <1>2, <1>4, <2>0, <4>1, <4>2, ItemPacked
      <4>4. next.used # 0
        BY <1>2, <1>4, <2>0, <4>0 DEF PackedWell, Measured
      <4>5. t.used + m <= DailyGoal + DrillMinutes
        BY <1>2, <1>5, <2>0, <4>0, <4>4
      <4>6. \A i \in DOMAIN t.items : t.items[i].lesson # l
        <5>1. next.items \in Seq(Item) /\ NewItem(d, NoLesson).lesson = NoLesson
          BY <1>4 DEF PackState, NewItem
        <5>2. Len(next.items) \in Nat /\ DOMAIN next.items = 1..Len(next.items)
          BY <5>1
        <5>3. t.items = Append(next.items, NewItem(d, NoLesson))
          BY <4>0
        <5>4. /\ DOMAIN t.items = 1..(Len(next.items) + 1)
              /\ t.items[Len(next.items) + 1] = NewItem(d, NoLesson)
              /\ \A i \in 1..Len(next.items) : t.items[i] = next.items[i]
          BY <5>1, <5>2, <5>3
        <5>5. \A i \in DOMAIN t.items : i \in DOMAIN next.items \/ i = Len(next.items) + 1
          BY <5>2, <5>4
        <5> HIDE DEF t
        <5> QED
          BY <1>2, <1>4, <1>6, <5>1, <5>2, <5>4, <5>5
      <4> QED
        BY <4>0, <4>3, <4>5, <4>6
    <3> QED
      BY <3>1, <3>2
  <2> HIDE DEF t
  <2>2. t \in PackState
    BY <2>1 DEF PackedWell
  <2>3. m = MinutesOfItem(NewItem(d, l))
    BY <1>2 DEF MinutesOfItem, NewItem, m
  <2>4. t.since + 1 \in Nat /\ t.items \in Seq(Item)
    BY <2>2 DEF PackState
  <2>5. PackedWell(t, today, h, n + 1)
    BY <2>1, DistinctGrows DEF PackedWell
  <2>6. \E k \in 1..(n + 1) : l = Lessons[k]
    BY <1>2 DEF l
  <2>7. d = today + t.offset /\ t.offset < h
    BY <2>0, <2>1
  <2> HIDE DEF d
  <2>8. PackedWell([items |-> Append(t.items, NewItem(today + t.offset, l)),
                     used |-> t.used + m, offset |-> t.offset, since |-> t.since + 1], today, h, n + 1)
    <3>1. n + 1 \in Nat /\ l \in LessonSet \cup {NoLesson}
      BY <1>2
    <3>2. m = MinutesOfItem(NewItem(today + t.offset, l))
      BY <2>3, <2>7
    <3>3. l # NoLesson => /\ \A i \in DOMAIN t.items : t.items[i].lesson # l
                      /\ \E k \in 1..(n + 1) : l = Lessons[k]
      BY <2>1, <2>6
    <3> HIDE DEF r, fresh
    <3> QED
      BY <1>2, <2>1, <2>4, <2>5, <2>7, <3>1, <3>2, <3>3, ItemPacked
  <2>9. PackedWell(r, today, h, n + 1)
    BY <2>7, <2>8
  <2> QED
    BY <1>1, <1>8, <2>9 DEF l
<1> QED
  BY <1>7, <1>8

PackNext(s, n, left, today, h, drills) ==
  IF Lessons[n] \notin left \/ s.offset >= h THEN s
  ELSE AddLesson(s, Lessons[n], today, h, drills)

LEMMA NextPacked ==
  ASSUME NEW s, NEW today \in Int, NEW h \in Nat \ {0}, NEW n \in 1..Len(Lessons), NEW drills \in BOOLEAN, NEW left,
         PackedWell(s, today, h, n - 1)
  PROVE  PackedWell(PackNext(s, n, left, today, h, drills), today, h, n)
<1>1. Len(Lessons) \in Nat /\ n - 1 \in Nat /\ (n - 1) + 1 = n /\ n <= Len(Lessons)
  BY LessonFacts
<1>2. PackedWell(s, today, h, n)
  BY <1>1, DistinctGrows DEF PackedWell
<1>3. CASE s.offset < h
  <2>1. PackedWell(AddLesson(s, Lessons[(n - 1) + 1], today, h, drills), today, h, (n - 1) + 1)
    BY <1>1, <1>3, LessonPacked
  <2>2. PackedWell(AddLesson(s, Lessons[n], today, h, drills), today, h, n)
    BY <1>1, <2>1
  <2> QED
    BY <1>2, <2>2 DEF PackNext
<1>4. CASE ~(s.offset < h)
  <2>1. s.offset >= h
    BY <1>2, <1>4, StudyPlanAssumption DEF PackedWell, PackState
  <2> QED
    BY <1>2, <2>1 DEF PackNext
<1> QED
  BY <1>3, <1>4

\* The loop can be run over the first m lessons.
Runs(m, left, today, h, drills) ==
  \E g \in [0..m -> PackState] :
    /\ g[0] = PackStart
    /\ \A n \in 1..m : g[n] = PackNext(g[n - 1], n, left, today, h, drills)
    /\ PackedWell(g[m], today, h, m)

LEMMA RunsOfPacking ==
  ASSUME NEW left, NEW today \in Int, NEW h \in Nat \ {0}, NEW drills \in BOOLEAN
  PROVE  \A m \in 0..Len(Lessons) : Runs(m, left, today, h, drills)
<1> USE DEF Runs
<1> DEFINE Has(m) == Runs(m, left, today, h, drills)
           Bad == {m \in 0..Len(Lessons) : ~Has(m)}
<1>0. Len(Lessons) \in Nat
  BY LessonFacts
<1>1. SUFFICES ASSUME Bad # {} PROVE FALSE
  OBVIOUS
<1>2. PICK m \in Bad : \A n \in Bad : m <= n
  <2>1. Bad \in SUBSET Nat
    BY <1>0
  <2> QED
    BY <1>1, <2>1, LeastElement
<1>3. Has(0)
  <2> DEFINE g == [n \in 0..0 |-> PackStart]
  <2>1. PackedWell(PackStart, today, h, 0) /\ PackStart \in PackState
    BY NothingPacked DEF PackedWell
  <2>2. g \in [0..0 -> PackState] /\ g[0] = PackStart
    BY <2>1
  <2>3. \A n \in 1..0 : g[n] = PackNext(g[n - 1], n, left, today, h, drills)
    OBVIOUS
  <2> HIDE DEF g
  <2> QED
    BY <2>1, <2>2, <2>3
<1>4. m \in 1..Len(Lessons) /\ ~Has(m)
  <2> HIDE DEF Has
  <2>1. m \in 0..Len(Lessons) /\ ~Has(m)
    BY <1>2
  <2> QED
    BY <1>0, <1>3, <2>1
<1>5. Has(m - 1)
  <2>1. m - 1 \in 0..Len(Lessons) /\ ~(m <= m - 1)
    BY <1>0, <1>4
  <2> HIDE DEF Has
  <2>2. m - 1 \notin Bad
    <3> HIDE DEF Bad
    <3> QED
      BY <1>2, <2>1
  <2> QED
    BY <2>1, <2>2
<1>6. PICK g \in [0..(m - 1) -> PackState] :
        /\ g[0] = PackStart
        /\ \A n \in 1..(m - 1) : g[n] = PackNext(g[n - 1], n, left, today, h, drills)
        /\ PackedWell(g[m - 1], today, h, m - 1)
  BY <1>5
<1> DEFINE last == PackNext(g[m - 1], m, left, today, h, drills)
           f == [n \in 0..m |-> IF n = m THEN last ELSE g[n]]
<1>7. PackedWell(last, today, h, m) /\ last \in PackState
  <2>1. PackedWell(last, today, h, m)
    BY <1>4, <1>6, NextPacked
  <2> HIDE DEF last
  <2> QED
    BY <2>1 DEF PackedWell
<1> HIDE DEF last
<1>8. f \in [0..m -> PackState] /\ f[m] = last
  BY <1>0, <1>4, <1>7
<1>9. f[0] = PackStart
  BY <1>0, <1>4, <1>6
<1>10. ASSUME NEW n \in 1..m
       PROVE  f[n] = PackNext(f[n - 1], n, left, today, h, drills)
  <2>0. m \in Nat /\ n - 1 \in 0..(m - 1) /\ f[n - 1] = g[n - 1]
    BY <1>0, <1>4
  <2>1. CASE n = m
    BY <1>8, <2>0, <2>1 DEF last
  <2>2. CASE n # m
    <3>1. n \in 1..(m - 1) /\ f[n] = g[n]
      BY <1>0, <1>4, <2>2
    <3> QED
      BY <1>6, <2>0, <3>1
  <2> QED
    BY <2>1, <2>2
<1> HIDE DEF f
<1>11. Has(m)
  BY <1>7, <1>8, <1>9, <1>10
<1> QED
  BY <1>4, <1>11

\* f is the loop of Pack.
Loop(f, left, today, h, drills) ==
  f = [n \in 0..Len(Lessons) |->
         IF n = 0 THEN PackStart
         ELSE IF Lessons[n] \notin left \/ f[n - 1].offset >= h THEN f[n - 1]
         ELSE AddLesson(f[n - 1], Lessons[n], today, h, drills)]

LEMMA LoopSteps ==
  ASSUME NEW f, NEW left, NEW today, NEW h, NEW drills
  PROVE  Loop(f, left, today, h, drills)
           <=> f = [n \in 0..Len(Lessons) |-> IF n = 0 THEN PackStart
                                              ELSE PackNext(f[n - 1], n, left, today, h, drills)]
BY DEF Loop, PackNext

\* What a generation packs: new items, for the days of the plan, each lesson once,
\* no day too full.
LEMMA PackIsRight ==
  ASSUME NEW left, NEW today \in Int, NEW h \in Nat \ {0}, NEW drills \in BOOLEAN
  PROVE  \E s : PackedWell(s, today, h, Len(Lessons)) /\ Pack(left, today, h, drills) = s.items
<1>0. Len(Lessons) \in Nat /\ Len(Lessons) \in 0..Len(Lessons)
  BY LessonFacts
<1>1. PICK g \in [0..Len(Lessons) -> PackState] :
        /\ g[0] = PackStart
        /\ \A n \in 1..Len(Lessons) : g[n] = PackNext(g[n - 1], n, left, today, h, drills)
        /\ PackedWell(g[Len(Lessons)], today, h, Len(Lessons))
  <2>1. Len(Lessons) \in 0..Len(Lessons)
    BY <1>0
  <2>2. Runs(Len(Lessons), left, today, h, drills)
    BY <2>1, RunsOfPacking
  <2> QED
    BY <2>2 DEF Runs
<1>2. Loop(g, left, today, h, drills)
  <2>1. g = [n \in 0..Len(Lessons) |-> IF n = 0 THEN PackStart
                                       ELSE PackNext(g[n - 1], n, left, today, h, drills)]
    BY <1>0, <1>1
  <2> QED
    BY <2>1, LoopSteps, Zenon
<1> DEFINE f == CHOOSE f : Loop(f, left, today, h, drills)
<1>3. Loop(f, left, today, h, drills)
  BY <1>2
<1>4. Pack(left, today, h, drills) = f[Len(Lessons)].items
  BY DEF Pack, Loop
<1> HIDE DEF f
<1>5. f = [n \in 0..Len(Lessons) |-> IF n = 0 THEN PackStart
                                     ELSE PackNext(f[n - 1], n, left, today, h, drills)]
  BY <1>3, LoopSteps, Zenon
<1>6. f[0] = PackStart
         /\ \A n \in 1..Len(Lessons) : f[n] = PackNext(f[n - 1], n, left, today, h, drills)
  BY <1>0, <1>5
<1> DEFINE Bad == {n \in 0..Len(Lessons) : f[n] # g[n]}
<1>7. Bad = {}
  <2>1. SUFFICES ASSUME Bad # {} PROVE FALSE
    OBVIOUS
  <2>2. Bad \in SUBSET Nat
    BY <1>0
  <2>3. PICK n \in Bad : \A k \in Bad : n <= k
    BY <2>1, <2>2, LeastElement
  <2>4. n \in 1..Len(Lessons)
    BY <1>0, <1>1, <1>6, <2>3
  <2>5. n - 1 \in 0..Len(Lessons) /\ ~(n <= n - 1)
    BY <1>0, <2>4
  <2>6. f[n - 1] = g[n - 1]
    BY <2>3, <2>5
  <2>7. f[n] = g[n]
    BY <1>1, <1>6, <2>4, <2>6
  <2> QED
    BY <2>3, <2>7
<1>8. f[Len(Lessons)] = g[Len(Lessons)]
  BY <1>0, <1>7
<1> QED
  BY <1>1, <1>4, <1>8

LEMMA PackedItems ==
  ASSUME NEW left, NEW today \in Int, NEW h \in 1..PlanDays, NEW drills \in BOOLEAN
  PROVE  LET items == Pack(left, today, h, drills) IN
         /\ items \in Seq(Item) /\ Sound(items)
         /\ \A i \in DOMAIN items : today <= items[i].day
         /\ \A i, j \in DOMAIN items :
              items[i].lesson = items[j].lesson /\ items[i].lesson # NoLesson => i = j
<1>0. h \in Nat \ {0} /\ PlanDays \in Nat
  BY StudyPlanAssumption
<1>1. PICK s : PackedWell(s, today, h, Len(Lessons)) /\ Pack(left, today, h, drills) = s.items
  BY <1>0, PackIsRight
<1>2. /\ s.items \in Seq(Item) /\ Orderly(s, today, h) /\ Measured(s, today)
      /\ Distinct(s.items, Len(Lessons))
  BY <1>1 DEF PackedWell, PackState
<1>3. Sound(s.items)
  <2>1. ASSUME NEW i \in Planned(s.items)
        PROVE  s.items[i].day \in today..(today + PlanDays - 1)
    <3>1. i \in DOMAIN s.items
      BY DEF Planned
    <3>2. s.items[i].day \in Int /\ PlanDays \in Nat /\ h <= PlanDays
      BY <1>2, <3>1, ItemAt, StudyPlanAssumption
    <3> QED
      BY <1>2, <3>1, <3>2 DEF Orderly
  <2> QED
    BY <1>2, <2>1 DEF Sound, Measured
<1> QED
  BY <1>1, <1>2, <1>3 DEF Orderly, Distinct

-----------------------------------------------------------------------------
(* The inductive invariant. *)

AllSound == \A p \in DOMAIN plans : Sound(ItemsOf(p))

\* What the API has read of a student's rights for a plan that is still ACTIVE.
CoversTask(j) ==
  j.pc \in {"finished", "fill"} /\ j.by = "api" /\ Active(j.plan) => entitled \subseteq j.exams

NoRefresh == \A w \in Slots : task[w].pc # "refresh"

Covered ==
  ~died /\ NoRefresh =>
    /\ \A p \in DOMAIN plans :
         Active(p) /\ plans[p].filled /\ plans[p].by = "api" => entitled \subseteq plans[p].exams
    /\ \A w \in Slots : CoversTask(task[w])

\* While requests do not overlap, what a task has read is still so.
QuietTask(j) ==
  /\ j.pc = "move" => ItemsOf(j.plan)[j.item].status = "PENDING"
  /\ j.pc = "progress" /\ ~j.completes => j.lesson \notin completed
  /\ j.pc = "claim" => j.todo \subseteq ActivePlans
  /\ j.pc \in {"missed", "recent"} => Active(j.plan)
  /\ j.pc \notin {"idle", "claim"} => j.todo = {}

PendingOnceIn(items) ==
  \A i, j \in DOMAIN items :
    /\ items[i].status = "PENDING" /\ items[j].status = "PENDING"
    /\ items[i].lesson = items[j].lesson /\ items[i].lesson # NoLesson
    => i = j

Quiet ==
  ~raced =>
    /\ \A v, w \in Slots : task[v].pc # "idle" /\ task[w].pc # "idle" => v = w
    /\ \A w \in Slots : QuietTask(task[w])
    /\ \A p \in DOMAIN plans : PendingOnceIn(ItemsOf(p))

ReplansAfter(j) ==
  j.by = "worker" /\ j.pc \in {"abandon", "create"}
    => \A k \in DOMAIN replans : replans[k] < j.today

\* Nothing in an ACTIVE plan is older than the last rebuild by the worker, which
\* keeps the plan from being judged again on the day of that rebuild.
Replanned ==
  ~raced /\ ~movedBack =>
    /\ IsInjective(replans)
    /\ \A k \in DOMAIN replans : replans[k] <= day
    /\ \A p \in DOMAIN plans : Active(p) =>
         \A i \in DOMAIN ItemsOf(p) : \A k \in DOMAIN replans : replans[k] <= ItemsOf(p)[i].day
    /\ \A w \in Slots : ReplansAfter(task[w])

StudyPlanInv == StudyPlanTypeOK /\ AllSound /\ OneActivePlan /\ Covered /\ Quiet /\ Replanned

-----------------------------------------------------------------------------
(* Records. *)

LEMMA NoTaskFields ==
  /\ NoTask \in Task /\ NoTask.pc = "idle" /\ NoTask.by = "api"
  /\ NoTask.todo = {} /\ NoTask.today = 0
BY DEF NoTask, Task, Places

LEMMA GenerateFields ==
  ASSUME target \in Exams, NEW by \in {"api", "worker"}
  PROVE  LET j == Generate(by) IN
         /\ j \in Task /\ j.pc = "abandon" /\ j.by = by /\ j.todo = {} /\ j.today = 0
BY DEF Generate, NoTask, Task, Places

LEMMA ActivePlansFinite ==
  ASSUME StudyPlanTypes
  PROVE  /\ ActivePlans \subseteq DOMAIN plans /\ IsFiniteSet(DOMAIN plans)
         /\ IsFiniteSet(ActivePlans) /\ Cardinality(ActivePlans) \in Nat
         /\ DOMAIN plans = 1..Len(plans) /\ Len(plans) \in Nat
<1>1. DOMAIN plans = 1..Len(plans) /\ Len(plans) \in Nat
  BY DEF StudyPlanTypes
<1>2. IsFiniteSet(DOMAIN plans)
  BY <1>1, FS_Interval
<1>3. ActivePlans \subseteq DOMAIN plans
  BY DEF ActivePlans
<1> QED
  BY <1>1, <1>2, <1>3, FS_Subset, FS_CardinalityType

LEMMA ItemsType ==
  ASSUME StudyPlanTypes, NEW p \in DOMAIN plans
  PROVE  /\ p \in Nat /\ plans[p] \in Plan /\ ItemsOf(p) \in Seq(Item)
         /\ \A i \in DOMAIN ItemsOf(p) : i \in Nat /\ ItemsOf(p)[i] \in Item
<1>1. p \in Nat /\ plans[p] \in Plan
  BY DEF StudyPlanTypes
<1>2. ItemsOf(p) \in Seq(Item)
  BY <1>1 DEF Plan, ItemsOf
<1> QED
  BY <1>1, <1>2, ItemAt

Creators == {w \in Slots : Doing(w, "create")}

LEMMA CreatorsFinite ==
  /\ IsFiniteSet(Slots) /\ Cardinality(Slots) \in Nat
  /\ Creators \subseteq Slots /\ IsFiniteSet(Creators) /\ Cardinality(Creators) \in Nat
  /\ Cardinality(Creators) <= Cardinality(Slots)
<1>1. IsFiniteSet(Slots)
  BY StudyPlanAssumption
<1>2. Creators \subseteq Slots
  BY DEF Creators
<1> QED
  BY <1>1, <1>2, FS_Subset, FS_CardinalityType

\* No set of more than one element where at most one is allowed.
LEMMA AtMostOne ==
  ASSUME NEW S, IsFiniteSet(S), NEW x \in S
  PROVE  /\ Cardinality(S) \in Nat \ {0}
         /\ Cardinality(S) <= 1 => S = {x}
<1>1. Cardinality({x}) = 1 /\ IsFiniteSet({x})
  BY FS_Singleton
<1>2. {x} \subseteq S
  OBVIOUS
<1>3. Cardinality({x}) <= Cardinality(S) /\ Cardinality(S) \in Nat
        /\ (Cardinality({x}) = Cardinality(S) => {x} = S)
  BY <1>2, FS_Subset, FS_CardinalityType
<1> QED
  BY <1>1, <1>3

-----------------------------------------------------------------------------
(* Steps that change no plan. *)

\* A request begins.
LEMMA RequestKeeps ==
  ASSUME StudyPlanInv, NEW w \in Slots, NEW r \in Task, Begin(w, r),
         plans' = plans, claims' = claims, day' = day, completed' = completed,
         target' \in Exams, entitled' \subseteq Exams, allowed' \in [Events -> Nat],
         entitled' = entitled \/ r.pc = "refresh",
         RowsOf(r), r.pc \notin GenPcs, r.pc # "create", QuietTask(r),
         r.pc = "abandon" => r.by = "api"
  PROVE  StudyPlanInv'
<1>1. /\ Doing(w, "idle") /\ task' = [task EXCEPT ![w] = r] /\ replans' = replans
      /\ movedBack' = movedBack /\ died' = died
      /\ raced' = (raced \/ \E v \in Slots : ~Doing(v, "idle"))
  BY DEF Begin
<1>2. StudyPlanTypes /\ Rows /\ AllSound /\ OneActivePlan /\ Covered /\ Quiet /\ Replanned
  BY DEF StudyPlanInv, StudyPlanTypeOK
<1>3. /\ \A v \in Slots : task'[v] = IF v = w THEN r ELSE task[v]
      /\ task[w].pc = "idle" /\ task'[w] = r
  BY <1>1, <1>2 DEF StudyPlanTypes, Doing
<1>4. StudyPlanTypes'
  BY <1>1, <1>2 DEF StudyPlanTypes
<1>5. Rows'
  BY <1>2, <1>3 DEF Rows, RowsOf, GenPcs, ItemsOf
<1>6. AllSound'
  <2>1. \A p \in DOMAIN plans : Sound(ItemsOf(p)) <=> Sound(ItemsOf(p))'
    BY DEF Sound, DayFits, PlannedOn, Planned, MinutesOn, MinutesOfItem, ItemsOf
  <2> QED
    BY <1>2, <2>1 DEF AllSound
<1>7. OneActivePlan'
  <2>1. ActivePlans' = ActivePlans
    BY DEF ActivePlans, Active
  <2>2. Creators' = Creators
    BY <1>3 DEF Creators, Doing
  <2>3. raced => raced'
    BY <1>1
  <2>4. /\ Creators = {v \in Slots : Doing(v, "create")}
        /\ Creators' = {v \in Slots : Doing(v, "create")'}
    BY DEF Creators
  <2>5. CASE raced' = raced
    BY <1>2, <2>1, <2>2, <2>5 DEF OneActivePlan, Creators
  <2>6. CASE raced' # raced
    <3>1. ~raced /\ raced'
      BY <1>1, <1>2, <2>6 DEF StudyPlanTypes
    <3>2. Cardinality(ActivePlans) + Cardinality(Creators) <= 1
      BY <1>2, <3>1 DEF OneActivePlan, Creators
    <3>3. Cardinality(Slots) \in Nat \ {0}
      BY CreatorsFinite, AtMostOne
    <3>4. Cardinality(ActivePlans) + Cardinality(Creators) <= Cardinality(Slots)
      BY <1>2, <3>2, <3>3, ActivePlansFinite, CreatorsFinite
    <3> QED
      BY <2>1, <2>2, <3>1, <3>4 DEF OneActivePlan, Creators
  <2> QED
    BY <2>5, <2>6
<1>8. Covered'
  <2>1. SUFFICES ASSUME ~died', NoRefresh'
        PROVE  /\ \A p \in DOMAIN plans' :
                    Active(p)' /\ plans'[p].filled /\ plans'[p].by = "api"
                      => entitled' \subseteq plans'[p].exams
               /\ \A v \in Slots : CoversTask(task[v])'
    BY DEF Covered
  <2>2. r.pc # "refresh" /\ NoRefresh
    BY <1>3, <2>1 DEF NoRefresh
  <2> QED
    BY <1>1, <1>2, <1>3, <2>1, <2>2 DEF Covered, CoversTask, Active, GenPcs
<1>9. Quiet'
  <2>1. SUFFICES ASSUME ~raced'
        PROVE  /\ \A v, u \in Slots : task'[v].pc # "idle" /\ task'[u].pc # "idle" => v = u
               /\ \A v \in Slots : QuietTask(task[v])'
               /\ \A p \in DOMAIN plans' : PendingOnceIn(ItemsOf(p))'
    BY DEF Quiet
  <2>2. ~raced /\ \A v \in Slots : task[v].pc = "idle"
    BY <1>1, <2>1 DEF Doing
  <2>3. \A v, u \in Slots : task'[v].pc # "idle" /\ task'[u].pc # "idle" => v = u
    BY <1>3, <2>2
  <2>4. ASSUME NEW v \in Slots PROVE QuietTask(task[v])'
    <3>1. CASE v = w
      BY <1>3, <3>1 DEF QuietTask, ItemsOf, ActivePlans, Active
    <3>2. CASE v # w
      BY <1>2, <1>3, <2>2, <3>2 DEF Quiet, QuietTask, ItemsOf, ActivePlans, Active
    <3> QED
      BY <3>1, <3>2
  <2>5. \A p \in DOMAIN plans' : PendingOnceIn(ItemsOf(p))'
    BY <1>2, <2>2 DEF Quiet, PendingOnceIn, ItemsOf
  <2> QED
    BY <2>3, <2>4, <2>5
<1>10. Replanned'
  BY <1>1, <1>2, <1>3 DEF Replanned, ReplansAfter, Active, ItemsOf
<1> QED
  BY <1>4, <1>5, <1>6, <1>7, <1>8, <1>9, <1>10 DEF StudyPlanInv, StudyPlanTypeOK

\* A task goes on, or dies.
LEMMA ProgressKeeps ==
  ASSUME StudyPlanInv, NEW w \in Slots, ~Doing(w, "idle"),
         NEW r \in Task, task' = [task EXCEPT ![w] = r],
         plans' = plans, claims' \subseteq (Nat \X Nat), day' = day, target' = target,
         entitled' = entitled, allowed' \in [Events -> Nat], replans' = replans,
         movedBack' = movedBack, raced' = raced, died' \in BOOLEAN, died => died',
         completed' \subseteq LessonSet, completed' = completed \/ r.pc = "idle",
         RowsOf(r),
         r.pc \in GenPcs => task[w].pc \in GenPcs /\ r.plan = task[w].plan,
         Doing(w, "refresh") => died',
         r.pc # "create",
         Covered /\ ~died /\ NoRefresh => CoversTask(r),
         Quiet /\ ~raced => QuietTask(r),
         Replanned /\ ~raced /\ ~movedBack => ReplansAfter(r)
  PROVE  StudyPlanInv'
<1>2. StudyPlanTypes /\ Rows /\ AllSound /\ OneActivePlan /\ Covered /\ Quiet /\ Replanned
  BY DEF StudyPlanInv, StudyPlanTypeOK
<1>3. /\ \A v \in Slots : task'[v] = IF v = w THEN r ELSE task[v]
      /\ task[w].pc # "idle" /\ task'[w] = r
  BY <1>2 DEF StudyPlanTypes, Doing
<1>4. StudyPlanTypes'
  BY <1>2 DEF StudyPlanTypes
<1>5. Rows'
  BY <1>2, <1>3 DEF Rows, RowsOf, GenPcs, ItemsOf
<1>6. AllSound'
  <2>1. \A p \in DOMAIN plans : Sound(ItemsOf(p)) <=> Sound(ItemsOf(p))'
    BY DEF Sound, DayFits, PlannedOn, Planned, MinutesOn, MinutesOfItem, ItemsOf
  <2> QED
    BY <1>2, <2>1 DEF AllSound
<1>7. OneActivePlan'
  <2>1. ActivePlans' = ActivePlans
    BY DEF ActivePlans, Active
  <2>2. Creators' \subseteq Creators
    BY <1>3 DEF Creators, Doing
  <2>3. Cardinality(Creators') <= Cardinality(Creators) /\ Cardinality(Creators') \in Nat
    BY <2>2, CreatorsFinite, FS_Subset, FS_CardinalityType
  <2>4. /\ Creators = {v \in Slots : Doing(v, "create")}
        /\ Creators' = {v \in Slots : Doing(v, "create")'}
    BY DEF Creators
  <2>5. Cardinality(ActivePlans) + Cardinality(Creators) <= IF raced THEN Cardinality(Slots) ELSE 1
    BY <1>2 DEF OneActivePlan, Creators
  <2>6. (IF raced THEN Cardinality(Slots) ELSE 1) \in Nat
    BY CreatorsFinite
  <2>7. Cardinality(ActivePlans) + Cardinality(Creators') <= IF raced THEN Cardinality(Slots) ELSE 1
    BY <1>2, <2>3, <2>5, <2>6, ActivePlansFinite, CreatorsFinite
  <2> QED
    BY <2>1, <2>4, <2>7 DEF OneActivePlan
<1>8. Covered'
  <2>1. SUFFICES ASSUME ~died', NoRefresh'
        PROVE  /\ \A p \in DOMAIN plans' :
                    Active(p)' /\ plans'[p].filled /\ plans'[p].by = "api"
                      => entitled' \subseteq plans'[p].exams
               /\ \A v \in Slots : CoversTask(task[v])'
    BY DEF Covered
  <2>2. ~died /\ task[w].pc # "refresh"
    BY <1>2, <2>1 DEF StudyPlanTypes, Doing
  <2>3. NoRefresh
    BY <1>3, <2>1, <2>2 DEF NoRefresh
  <2>4. CoversTask(r)
    BY <1>2, <2>2, <2>3
  <2> QED
    BY <1>2, <1>3, <2>2, <2>3, <2>4 DEF Covered, CoversTask, Active
<1>9. Quiet'
  <2>1. SUFFICES ASSUME ~raced
        PROVE  /\ \A v, u \in Slots : task'[v].pc # "idle" /\ task'[u].pc # "idle" => v = u
               /\ \A v \in Slots : QuietTask(task[v])'
               /\ \A p \in DOMAIN plans' : PendingOnceIn(ItemsOf(p))'
    BY DEF Quiet
  <2>2. \A v \in Slots : v # w => task[v].pc = "idle"
    BY <1>2, <1>3, <2>1 DEF Quiet
  <2>3. \A v, u \in Slots : task'[v].pc # "idle" /\ task'[u].pc # "idle" => v = u
    BY <1>3, <2>2
  <2>4. ASSUME NEW v \in Slots PROVE QuietTask(task[v])'
    <3>1. CASE v = w
      <4>1. QuietTask(r)
        BY <1>2, <2>1
      <4> QED
        BY <1>3, <3>1, <4>1 DEF QuietTask, ItemsOf, ActivePlans, Active
    <3>2. CASE v # w
      BY <1>2, <1>3, <2>1, <2>2, <3>2 DEF Quiet, QuietTask, ItemsOf, ActivePlans, Active
    <3> QED
      BY <3>1, <3>2
  <2>5. \A p \in DOMAIN plans' : PendingOnceIn(ItemsOf(p))'
    BY <1>2, <2>1 DEF Quiet, PendingOnceIn, ItemsOf
  <2> QED
    BY <2>3, <2>4, <2>5
<1>10. Replanned'
  BY <1>2, <1>3 DEF Replanned, ReplansAfter, Active, ItemsOf
<1> QED
  BY <1>4, <1>5, <1>6, <1>7, <1>8, <1>9, <1>10 DEF StudyPlanInv, StudyPlanTypeOK

-----------------------------------------------------------------------------
(* Requests. *)

LEMMA ReadKeeps ==
  ASSUME StudyPlanInv, NEW w \in Slots, Read(w) \/ Regenerate(w)
  PROVE  StudyPlanInv'
<1>1. PICK r : r = Generate("api")
  OBVIOUS
<1>2. StudyPlanTypes
  BY DEF StudyPlanInv, StudyPlanTypeOK
<1>3. /\ Begin(w, r) /\ plans' = plans /\ claims' = claims /\ day' = day
      /\ completed' = completed /\ target' = target /\ entitled' = entitled
      /\ allowed' \in [Events -> Nat]
  <2>1. CASE Read(w)
    BY <1>1, <1>2, <2>1 DEF Read, Use, student, StudyPlanTypes, Events
  <2>2. CASE Regenerate(w)
    BY <1>1, <1>2, <2>2 DEF Regenerate, Use, student, StudyPlanTypes, Events
  <2> QED
    BY <2>1, <2>2
<1>4. r \in Task /\ r.pc = "abandon" /\ r.by = "api" /\ r.todo = {} /\ r.today = 0
  BY <1>1, <1>2, GenerateFields DEF StudyPlanTypes
<1>5. RowsOf(r) /\ QuietTask(r)
  BY <1>2, <1>4 DEF RowsOf, QuietTask, GenPcs, StudyPlanTypes
<1> QED
  BY <1>2, <1>3, <1>4, <1>5, RequestKeeps DEF StudyPlanTypes, GenPcs

LEMMA SetGoalKeeps ==
  ASSUME StudyPlanInv, NEW w \in Slots, NEW e \in Exams, SetGoal(w, e)
  PROVE  StudyPlanInv'
<1>1. PICK r : r = [NoTask EXCEPT !.pc = "goal"]
  OBVIOUS
<1>2. StudyPlanTypes
  BY DEF StudyPlanInv, StudyPlanTypeOK
<1>3. /\ Begin(w, r) /\ plans' = plans /\ claims' = claims /\ day' = day
      /\ completed' = completed /\ target' \in Exams /\ entitled' = entitled
      /\ allowed' \in [Events -> Nat]
  BY <1>1, <1>2 DEF SetGoal, Use, StudyPlanTypes, Events
<1>4. r \in Task /\ r.pc = "goal" /\ r.todo = {} /\ r.today = 0
  BY <1>1 DEF NoTask, Task, Places
<1>5. RowsOf(r) /\ QuietTask(r)
  BY <1>2, <1>4 DEF RowsOf, QuietTask, GenPcs, StudyPlanTypes
<1> QED
  BY <1>2, <1>3, <1>4, <1>5, RequestKeeps DEF StudyPlanTypes, GenPcs

LEMMA BuyKeeps ==
  ASSUME StudyPlanInv, NEW w \in Slots, NEW e \in Exams, Buy(w, e)
  PROVE  StudyPlanInv'
<1>1. PICK r : r = [NoTask EXCEPT !.pc = "refresh"]
  OBVIOUS
<1>2. StudyPlanTypes
  BY DEF StudyPlanInv, StudyPlanTypeOK
<1>3. /\ Begin(w, r) /\ plans' = plans /\ claims' = claims /\ day' = day
      /\ completed' = completed /\ target' = target /\ entitled' \subseteq Exams
      /\ allowed' \in [Events -> Nat]
  BY <1>1, <1>2 DEF Buy, Use, StudyPlanTypes, Events
<1>4. r \in Task /\ r.pc = "refresh" /\ r.todo = {} /\ r.today = 0
  BY <1>1 DEF NoTask, Task, Places
<1>5. RowsOf(r) /\ QuietTask(r)
  BY <1>2, <1>4 DEF RowsOf, QuietTask, GenPcs, StudyPlanTypes
<1> QED
  BY <1>2, <1>3, <1>4, <1>5, RequestKeeps DEF StudyPlanTypes, GenPcs

LEMMA ReadItemKeeps ==
  ASSUME StudyPlanInv, NEW w \in Slots, NEW p \in DOMAIN plans, NEW i \in DOMAIN ItemsOf(p),
         NEW s \in {"DONE", "SKIPPED"}, ReadItem(w, p, i, s)
  PROVE  StudyPlanInv'
<1>1. PICK r : r = [NoTask EXCEPT !.pc = "mark", !.plan = p, !.item = i, !.set = s]
  OBVIOUS
<1>2. StudyPlanTypes
  BY DEF StudyPlanInv, StudyPlanTypeOK
<1>3. /\ Begin(w, r) /\ plans' = plans /\ claims' = claims /\ day' = day
      /\ completed' = completed /\ target' = target /\ entitled' = entitled
      /\ allowed' \in [Events -> Nat]
  BY <1>1, <1>2 DEF ReadItem, Use, student, StudyPlanTypes, Events
<1>4. p \in Nat /\ i \in Nat
  BY <1>2, ItemsType
<1>5. /\ r \in Task /\ r.pc = "mark" /\ r.todo = {} /\ r.today = 0
      /\ r.plan = p /\ r.item = i
  BY <1>1, <1>4 DEF NoTask, Task, Places
<1>6. RowsOf(r) /\ QuietTask(r)
  BY <1>2, <1>5 DEF RowsOf, QuietTask, GenPcs, StudyPlanTypes
<1> QED
  BY <1>2, <1>3, <1>5, <1>6, RequestKeeps DEF StudyPlanTypes, GenPcs

LEMMA ReadPendingKeeps ==
  ASSUME StudyPlanInv, NEW w \in Slots, NEW p \in DOMAIN plans, NEW i \in DOMAIN ItemsOf(p),
         ReadPending(w, p, i)
  PROVE  StudyPlanInv'
<1>1. PICK r : r = [NoTask EXCEPT !.pc = "move", !.plan = p, !.item = i]
  OBVIOUS
<1>2. StudyPlanTypes
  BY DEF StudyPlanInv, StudyPlanTypeOK
<1>3. /\ Begin(w, r) /\ plans' = plans /\ claims' = claims /\ day' = day
      /\ completed' = completed /\ target' = target /\ entitled' = entitled
      /\ allowed' \in [Events -> Nat] /\ ItemsOf(p)[i].status = "PENDING"
  BY <1>1, <1>2 DEF ReadPending, Movable, Use, student, StudyPlanTypes, Events
<1>4. p \in Nat /\ i \in Nat
  BY <1>2, ItemsType
<1>5. /\ r \in Task /\ r.pc = "move" /\ r.todo = {} /\ r.today = 0
      /\ r.plan = p /\ r.item = i
  BY <1>1, <1>4 DEF NoTask, Task, Places
<1>6. RowsOf(r) /\ QuietTask(r)
  BY <1>2, <1>3, <1>5 DEF RowsOf, QuietTask, GenPcs, StudyPlanTypes
<1> QED
  BY <1>2, <1>3, <1>5, <1>6, RequestKeeps DEF StudyPlanTypes, GenPcs

LEMMA ReadProgressKeeps ==
  ASSUME StudyPlanInv, NEW w \in Slots, NEW l \in LessonSet, NEW c \in BOOLEAN,
         ReadProgress(w, l, c)
  PROVE  StudyPlanInv'
<1>1. PICK r : r = [NoTask EXCEPT !.pc = "progress", !.lesson = l, !.completes = Completes(l, c)]
  OBVIOUS
<1>2. StudyPlanTypes
  BY DEF StudyPlanInv, StudyPlanTypeOK
<1>3. /\ Begin(w, r) /\ plans' = plans /\ claims' = claims /\ day' = day
      /\ completed' = completed /\ target' = target /\ entitled' = entitled
      /\ allowed' \in [Events -> Nat]
  BY <1>1, <1>2 DEF ReadProgress, Use, student, StudyPlanTypes, Events
<1>4. Completes(l, c) \in BOOLEAN /\ (l \in completed => Completes(l, c))
  BY DEF Completes
<1>5. /\ r \in Task /\ r.pc = "progress" /\ r.todo = {} /\ r.today = 0
      /\ r.lesson = l /\ r.completes = Completes(l, c)
  <2> PICK b \in BOOLEAN : b = Completes(l, c)
    BY <1>4
  <2>1. r = [NoTask EXCEPT !.pc = "progress", !.lesson = l, !.completes = b]
    BY <1>1
  <2> QED
    BY <2>1 DEF NoTask, Task, Places
<1>6. RowsOf(r) /\ QuietTask(r)
  BY <1>2, <1>4, <1>5 DEF RowsOf, QuietTask, GenPcs, StudyPlanTypes
<1> QED
  BY <1>2, <1>3, <1>5, <1>6, RequestKeeps DEF StudyPlanTypes, GenPcs

LEMMA SweepKeeps ==
  ASSUME StudyPlanInv, NEW w \in Slots, Sweep(w)
  PROVE  StudyPlanInv'
<1>1. PICK r : r = [NoTask EXCEPT !.pc = "claim", !.by = "worker", !.today = day,
                                  !.todo = ActivePlans]
  OBVIOUS
<1>2. StudyPlanTypes
  BY DEF StudyPlanInv, StudyPlanTypeOK
<1>3. /\ Begin(w, r) /\ plans' = plans /\ claims' = claims /\ day' = day
      /\ completed' = completed /\ target' = target /\ entitled' = entitled
      /\ allowed' \in [Events -> Nat]
  BY <1>1, <1>2 DEF Sweep, Use, student, StudyPlanTypes, Events
<1>4. day \in Nat /\ ActivePlans \subseteq DOMAIN plans /\ ActivePlans \in SUBSET Nat
  BY <1>2, ActivePlansFinite DEF StudyPlanTypes
<1>5. r \in Task /\ r.pc = "claim" /\ r.todo = ActivePlans /\ r.today = day
  <2> PICK A \in SUBSET Nat, d \in Nat : A = ActivePlans /\ d = day
    BY <1>4
  <2>1. r = [NoTask EXCEPT !.pc = "claim", !.by = "worker", !.today = d, !.todo = A]
    BY <1>1
  <2> QED
    BY <2>1 DEF NoTask, Task, Places
<1>6. RowsOf(r) /\ QuietTask(r)
  BY <1>4, <1>5 DEF RowsOf, QuietTask, GenPcs
<1> QED
  BY <1>2, <1>3, <1>5, <1>6, RequestKeeps DEF StudyPlanTypes, GenPcs

-----------------------------------------------------------------------------
(* A task goes on, or dies. *)

LEMMA GenerateForGoalKeeps ==
  ASSUME StudyPlanInv, NEW w \in Slots, GenerateForGoal(w)
  PROVE  StudyPlanInv'
<1>1. PICK r : r = Generate("api")
  OBVIOUS
<1>2. StudyPlanTypes
  BY DEF StudyPlanInv, StudyPlanTypeOK
<1>3. /\ ~Doing(w, "idle") /\ ~Doing(w, "refresh") /\ task' = [task EXCEPT ![w] = r]
      /\ UNCHANGED <<plans, target, entitled, completed, day, claims, replans, movedBack, raced,
                     died, allowed>>
  BY <1>1 DEF GenerateForGoal, Doing, student, history
<1>4. r \in Task /\ r.pc = "abandon" /\ r.by = "api" /\ r.todo = {} /\ r.today = 0
  BY <1>1, <1>2, GenerateFields DEF StudyPlanTypes
<1>5. RowsOf(r) /\ QuietTask(r) /\ CoversTask(r) /\ ReplansAfter(r)
  BY <1>2, <1>4 DEF RowsOf, QuietTask, GenPcs, StudyPlanTypes, CoversTask, ReplansAfter
<1> QED
  BY <1>2, <1>3, <1>4, <1>5, ProgressKeeps DEF StudyPlanTypes, GenPcs

LEMMA ReadRightsKeeps ==
  ASSUME StudyPlanInv, NEW w \in Slots, ReadRights(w)
  PROVE  StudyPlanInv'
<1>1. PICK r : r = [task[w] EXCEPT !.pc = "finished", !.exams = @ \cup entitled]
  OBVIOUS
<1>2. StudyPlanTypes /\ Rows
  BY DEF StudyPlanInv, StudyPlanTypeOK
<1>3. /\ task[w].pc = "rights" /\ ~Doing(w, "idle") /\ ~Doing(w, "refresh")
      /\ task' = [task EXCEPT ![w] = r]
      /\ UNCHANGED <<plans, target, entitled, completed, day, claims, replans, movedBack, raced,
                     died, allowed>>
  BY <1>1, <1>2 DEF ReadRights, Doing, student, history, StudyPlanTypes
<1>4. /\ r \in Task /\ r.pc = "finished" /\ r.by = task[w].by /\ r.todo = task[w].todo
      /\ r.today = task[w].today /\ r.plan = task[w].plan /\ entitled \subseteq r.exams
  BY <1>1, <1>2 DEF Task, Places, StudyPlanTypes
<1>5. RowsOf(r) /\ CoversTask(r) /\ ReplansAfter(r)
  BY <1>2, <1>3, <1>4 DEF Rows, RowsOf, GenPcs, CoversTask, ReplansAfter
<1>6. Quiet /\ ~raced => QuietTask(r)
  BY <1>3, <1>4 DEF Quiet, QuietTask
<1> QED
  BY <1>2, <1>3, <1>4, <1>5, <1>6, ProgressKeeps DEF StudyPlanTypes, GenPcs

LEMMA ReadFinishedKeeps ==
  ASSUME StudyPlanInv, NEW w \in Slots, ReadFinished(w)
  PROVE  StudyPlanInv'
<1>1. PICK left : left = LessonsOf(task[w].exams) \ completed
  OBVIOUS
<1>2. PICK r : r = [task[w] EXCEPT !.pc = "fill", !.left = left]
  OBVIOUS
<1>3. StudyPlanTypes /\ Rows /\ left \in SUBSET LessonSet
  BY <1>1, LessonFacts DEF StudyPlanInv, StudyPlanTypeOK, LessonsOf
<1>4. /\ task[w].pc = "finished" /\ ~Doing(w, "idle") /\ ~Doing(w, "refresh")
      /\ task' = [task EXCEPT ![w] = r]
      /\ UNCHANGED <<plans, target, entitled, completed, day, claims, replans, movedBack, raced,
                     died, allowed>>
  BY <1>1, <1>2, <1>3 DEF ReadFinished, Doing, student, history, StudyPlanTypes
<1>5. /\ r \in Task /\ r.pc = "fill" /\ r.by = task[w].by /\ r.todo = task[w].todo
      /\ r.today = task[w].today /\ r.plan = task[w].plan /\ r.exams = task[w].exams
  BY <1>2, <1>3 DEF Task, Places, StudyPlanTypes
<1>6. RowsOf(r) /\ ReplansAfter(r)
  BY <1>3, <1>4, <1>5 DEF Rows, RowsOf, GenPcs, ReplansAfter
<1>7. Quiet /\ ~raced => QuietTask(r)
  BY <1>4, <1>5 DEF Quiet, QuietTask
<1>8. Covered /\ ~died /\ NoRefresh => CoversTask(r)
  BY <1>4, <1>5 DEF Covered, CoversTask
<1> QED
  BY <1>3, <1>4, <1>5, <1>6, <1>7, <1>8, ProgressKeeps DEF StudyPlanTypes, GenPcs

\* What a task that has ended holds.
LEMMA NoTaskRows ==
  ASSUME StudyPlanTypes
  PROVE  RowsOf(NoTask) /\ QuietTask(NoTask) /\ CoversTask(NoTask) /\ ReplansAfter(NoTask)
BY NoTaskFields DEF RowsOf, QuietTask, CoversTask, ReplansAfter, GenPcs, StudyPlanTypes

LEMMA WriteProgressKeeps ==
  ASSUME StudyPlanInv, NEW w \in Slots, WriteProgress(w)
  PROVE  StudyPlanInv'
<1>1. PICK r : r = NoTask
  OBVIOUS
<1>2. StudyPlanTypes /\ Rows
  BY DEF StudyPlanInv, StudyPlanTypeOK
<1>3. /\ task[w].pc = "progress" /\ ~Doing(w, "idle") /\ ~Doing(w, "refresh")
      /\ task' = [task EXCEPT ![w] = r]
      /\ UNCHANGED <<plans, target, entitled, day, claims, replans, movedBack, raced,
                     died, allowed>>
  BY <1>1, <1>2 DEF WriteProgress, Doing, Finish, history
<1>4. completed' \subseteq LessonSet
  <2>1. task[w].lesson \in LessonSet
    BY <1>2, <1>3 DEF Rows, RowsOf
  <2> QED
    BY <1>2, <2>1 DEF WriteProgress, StudyPlanTypes
<1>5. r \in Task /\ r.pc = "idle"
  BY <1>1, NoTaskFields
<1>6. RowsOf(r) /\ QuietTask(r) /\ CoversTask(r) /\ ReplansAfter(r)
  BY <1>1, <1>2, NoTaskRows
<1> QED
  BY <1>2, <1>3, <1>4, <1>5, <1>6, ProgressKeeps DEF StudyPlanTypes, GenPcs

LEMMA DieKeeps ==
  ASSUME StudyPlanInv, NEW w \in Slots, Die(w)
  PROVE  StudyPlanInv'
<1>1. PICK r : r = NoTask
  OBVIOUS
<1>2. StudyPlanTypes
  BY DEF StudyPlanInv, StudyPlanTypeOK
<1>3. /\ ~Doing(w, "idle") /\ task' = [task EXCEPT ![w] = r] /\ died' = TRUE
      /\ allowed' \in [Events -> Nat]
      /\ UNCHANGED <<plans, target, entitled, completed, day, claims, replans, movedBack, raced>>
  BY <1>1, <1>2 DEF Die, Finish, Use, student, StudyPlanTypes, Events
<1>4. r \in Task /\ r.pc = "idle"
  BY <1>1, NoTaskFields
<1>5. RowsOf(r) /\ QuietTask(r) /\ CoversTask(r) /\ ReplansAfter(r)
  BY <1>1, <1>2, NoTaskRows
<1> QED
  BY <1>2, <1>3, <1>4, <1>5, ProgressKeeps DEF StudyPlanTypes, GenPcs

\* Under quiet requests a sweep has one plan in hand.
LEMMA OneTodo ==
  ASSUME StudyPlanInv, ~raced, NEW w \in Slots, Doing(w, "claim"), NEW p \in task[w].todo
  PROVE  task[w].todo = {p} /\ Active(p)
<1>1. StudyPlanTypes /\ OneActivePlan /\ QuietTask(task[w])
  BY DEF StudyPlanInv, StudyPlanTypeOK, Quiet
<1>2. task[w].todo \subseteq ActivePlans
  BY <1>1 DEF QuietTask, Doing
<1>3. Cardinality(ActivePlans) <= 1
  BY <1>1, ActivePlansFinite, CreatorsFinite DEF OneActivePlan, Creators
<1>4. ActivePlans = {p}
  BY <1>1, <1>2, <1>3, ActivePlansFinite, AtMostOne
<1> QED
  BY <1>2, <1>4 DEF ActivePlans

LEMMA ClaimKeeps ==
  ASSUME StudyPlanInv, NEW w \in Slots, NEW p \in task[w].todo, Claim(w, p)
  PROVE  StudyPlanInv'
<1>1. StudyPlanTypes /\ Rows /\ task[w].pc = "claim" /\ task[w] \in Task
  BY DEF StudyPlanInv, StudyPlanTypeOK, Claim, Doing, StudyPlanTypes
<1>2. p \in DOMAIN plans /\ p \in Nat /\ task[w].todo \subseteq DOMAIN plans
  BY <1>1, ItemsType DEF Rows, RowsOf
<1>3. task[w].todo \in SUBSET Nat /\ task[w].today \in Nat
  BY <1>1 DEF Task
<1>4. PICK rest \in SUBSET Nat : rest = task[w].todo \ {p}
  BY <1>3
<1>5. NextPlan(w, p) = NoTask \/ NextPlan(w, p) = [task[w] EXCEPT !.pc = "claim", !.todo = rest]
  BY <1>4 DEF NextPlan
<1>6. \/ task' = [task EXCEPT ![w] = NextPlan(w, p)]
      \/ task' = [task EXCEPT ![w] = [task[w] EXCEPT !.pc = "missed", !.plan = p, !.todo = rest]]
  BY <1>4 DEF Claim
<1>7. PICK r : /\ task' = [task EXCEPT ![w] = r]
               /\ \/ r = NoTask
                  \/ r = [task[w] EXCEPT !.pc = "claim", !.todo = rest]
                  \/ r = [task[w] EXCEPT !.pc = "missed", !.plan = p, !.todo = rest]
  BY <1>5, <1>6
<1>8. /\ ~Doing(w, "idle") /\ ~Doing(w, "refresh")
      /\ UNCHANGED <<plans, target, entitled, completed, day, replans, movedBack, raced,
                     died, allowed>>
  BY <1>1 DEF Claim, Doing, student, history
<1>9. claims' \subseteq (Nat \X Nat)
  <2>1. claims' = claims \cup {<<p, task[w].today>>} /\ claims \subseteq (Nat \X Nat)
    BY <1>1 DEF Claim, StudyPlanTypes
  <2> QED
    BY <1>2, <1>3, <2>1
<1>13. task' = [task EXCEPT ![w] = r]
  BY <1>7
<1>14. /\ StudyPlanTypes /\ allowed' \in [Events -> Nat] /\ died' \in BOOLEAN
       /\ completed' \subseteq LessonSet
       /\ died => died'
  BY <1>1, <1>8 DEF StudyPlanTypes
<1>10. CASE r = NoTask
  BY <1>13, <1>14, <1>8, <1>9, <1>10, NoTaskFields, NoTaskRows, ProgressKeeps DEF GenPcs
<1>11. CASE r = [task[w] EXCEPT !.pc = "claim", !.todo = rest]
  <2>1. /\ r \in Task /\ r.pc = "claim" /\ r.todo = rest /\ r.today = task[w].today
    BY <1>1, <1>11 DEF Task, Places
  <2>2. RowsOf(r) /\ CoversTask(r) /\ ReplansAfter(r)
    BY <1>1, <1>2, <1>4, <2>1 DEF Rows, RowsOf, GenPcs, CoversTask, ReplansAfter
  <2>3. Quiet /\ ~raced => QuietTask(r)
    BY <1>1, <1>4, <2>1 DEF Quiet, QuietTask
  <2> QED
    BY <1>13, <1>14, <1>8, <1>9, <2>1, <2>2, <2>3, ProgressKeeps DEF GenPcs
<1>12. CASE r = [task[w] EXCEPT !.pc = "missed", !.plan = p, !.todo = rest]
  <2>1. /\ r \in Task /\ r.pc = "missed" /\ r.todo = rest /\ r.today = task[w].today /\ r.plan = p
    BY <1>1, <1>2, <1>12 DEF Task, Places
  <2>2. RowsOf(r) /\ CoversTask(r) /\ ReplansAfter(r)
    BY <1>1, <1>2, <1>4, <2>1 DEF Rows, RowsOf, GenPcs, CoversTask, ReplansAfter
  <2>3. ASSUME ~raced PROVE QuietTask(r)
    <3>1. task[w].todo = {p} /\ Active(p)
      BY <1>1, <2>3, OneTodo DEF Doing
    <3> QED
      BY <1>4, <2>1, <3>1 DEF QuietTask
  <2> QED
    BY <1>13, <1>14, <1>8, <1>9, <2>1, <2>2, <2>3, ProgressKeeps DEF GenPcs
<1> QED
  BY <1>7, <1>10, <1>11, <1>12

\* A plan whose items are all still to come has not fallen behind.
LEMMA BehindHasMissed ==
  ASSUME StudyPlanTypes, NEW p \in DOMAIN plans, NEW today \in Nat, FellBehind(p, today)
  PROVE  \E i \in DOMAIN ItemsOf(p) : ItemsOf(p)[i].day < today
<1> DEFINE recent == Recent(p, today)
           missed == {x \in recent : ItemsOf(x[1])[x[2]].status = "MISSED"}
           past == {j \in DOMAIN ItemsOf(p) : ItemsOf(p)[j].day < today
                                              /\ ItemsOf(p)[j].day >= today - Behind}
<1>1. SUFFICES ASSUME past = {} PROVE FALSE
  OBVIOUS
<1>2. recent = {}
  BY <1>1 DEF Recent
<1>3. missed = {} /\ Cardinality({}) = 0
  BY <1>2, FS_EmptySet
<1> QED
  BY <1>2, <1>3 DEF FellBehind

LEMMA JudgeKeeps ==
  ASSUME StudyPlanInv, NEW w \in Slots, Judge(w)
  PROVE  StudyPlanInv'
<1>2. StudyPlanTypes /\ Rows /\ task[w].pc = "recent" /\ Replanned /\ task[w] \in Task
  BY DEF StudyPlanInv, StudyPlanTypeOK, Judge, Doing, StudyPlanTypes
<1>3. /\ task[w].plan \in DOMAIN plans /\ task[w].today \in Nat /\ task[w].todo \in SUBSET Nat
      /\ task[w].todo \subseteq DOMAIN plans /\ task[w].today <= day
  BY <1>2 DEF Rows, RowsOf, StudyPlanTypes, Task
<1>4. PICK t \in Nat, todo \in SUBSET Nat, e \in Exams :
        t = task[w].today /\ todo = task[w].todo /\ e = target
  BY <1>2, <1>3 DEF StudyPlanTypes
<1>5. PICK r : /\ task' = [task EXCEPT ![w] = r]
               /\ \/ r = NoTask
                  \/ r = [task[w] EXCEPT !.pc = "claim"] /\ todo # {}
                  \/ /\ r = [Generate("worker") EXCEPT !.todo = todo, !.today = t]
                     /\ FellBehind(task[w].plan, t)
  BY <1>2, <1>4 DEF Judge
<1>6. /\ ~Doing(w, "idle") /\ ~Doing(w, "refresh")
      /\ UNCHANGED <<plans, target, entitled, completed, day, claims, replans, movedBack, raced,
                     died, allowed>>
  BY <1>2 DEF Judge, Doing, student, history
<1>7. CASE r = NoTask
  BY <1>2, <1>5, <1>6, <1>7, NoTaskFields, NoTaskRows, ProgressKeeps DEF StudyPlanTypes, GenPcs
<1>8. CASE r = [task[w] EXCEPT !.pc = "claim"] /\ todo # {}
  <2>1. /\ r \in Task /\ r.pc = "claim" /\ r.todo = todo /\ r.today = task[w].today
    <3>1. r = [task[w] EXCEPT !.pc = "claim"]
      BY <1>8
    <3> QED
      BY <1>2, <1>4, <3>1 DEF Task, Places
  <2>2. RowsOf(r) /\ CoversTask(r) /\ ReplansAfter(r)
    BY <1>3, <1>4, <2>1 DEF RowsOf, GenPcs, CoversTask, ReplansAfter
  <2>3. Quiet /\ ~raced => QuietTask(r)
    <3>1. Quiet /\ ~raced => task[w].todo = {}
      BY <1>2 DEF Quiet, QuietTask
    <3> QED
      BY <1>4, <1>8, <3>1
  <2> QED
    BY <1>2, <1>5, <1>6, <2>1, <2>2, <2>3, ProgressKeeps DEF StudyPlanTypes, GenPcs
<1>9. CASE /\ r = [Generate("worker") EXCEPT !.todo = todo, !.today = t]
           /\ FellBehind(task[w].plan, t)
  <2>1. /\ r \in Task /\ r.pc = "abandon" /\ r.by = "worker" /\ r.todo = todo /\ r.today = t
    BY <1>4, <1>9 DEF Generate, NoTask, Task, Places
  <2>2. RowsOf(r) /\ CoversTask(r)
    BY <1>3, <1>4, <2>1 DEF RowsOf, GenPcs, CoversTask
  <2>3. Quiet /\ ~raced => QuietTask(r) /\ Active(task[w].plan)
    BY <1>2, <1>4, <2>1 DEF Quiet, QuietTask
  <2>4. ASSUME ~raced, ~movedBack PROVE ReplansAfter(r)
    <3>1. PICK i \in DOMAIN ItemsOf(task[w].plan) : ItemsOf(task[w].plan)[i].day < t
      BY <1>2, <1>3, <1>9, BehindHasMissed
    <3>2. Active(task[w].plan)
      BY <2>3, <2>4 DEF StudyPlanInv
    <3>3. \A k \in DOMAIN replans : replans[k] <= ItemsOf(task[w].plan)[i].day
      BY <1>2, <1>3, <2>4, <3>1, <3>2 DEF Replanned
    <3>4. ItemsOf(task[w].plan)[i].day \in Int /\ \A k \in DOMAIN replans : replans[k] \in Nat
      <4>1. ItemsOf(task[w].plan)[i] \in Item
        BY <1>2, <1>3, <3>1, ItemsType
      <4> QED
        BY <1>2, <4>1 DEF StudyPlanTypes, Item
    <3>5. \A k \in DOMAIN replans : replans[k] < t
      BY <3>1, <3>3, <3>4
    <3> QED
      BY <2>1, <3>5 DEF ReplansAfter
  <2> QED
    BY <1>2, <1>5, <1>6, <2>1, <2>2, <2>3, <2>4, ProgressKeeps DEF StudyPlanTypes, GenPcs
<1> QED
  BY <1>5, <1>7, <1>8, <1>9

-----------------------------------------------------------------------------
(* Steps that change one plan. *)

\* The items of the plan p are written, by a task that ends, goes on with its sweep
\* or judges the plan.
LEMMA WriteKeeps ==
  ASSUME StudyPlanInv, NEW w \in Slots,
         ~Doing(w, "idle"), ~Doing(w, "refresh"), ~Doing(w, "create"),
         NEW r \in Task, task' = [task EXCEPT ![w] = r], r.pc \in {"idle", "claim", "recent"},
         NEW p \in DOMAIN plans, NEW q \in Plan, plans' = [plans EXCEPT ![p] = q],
         UNCHANGED <<target, entitled, completed, day, claims, replans, raced, died, allowed>>,
         movedBack' \in BOOLEAN, movedBack => movedBack',
         q.status = plans[p].status, q.by = plans[p].by,
         DOMAIN ItemsOf(p) \subseteq DOMAIN q.items, ~q.filled => q.items = <<>>,
         q.filled = plans[p].filled \/ (task[w].pc \in GenPcs /\ task[w].plan = p),
         Sound(q.items), RowsOf(r),
         Covered /\ ~died /\ NoRefresh /\ Active(p) /\ q.filled /\ q.by = "api"
           => entitled \subseteq q.exams,
         Quiet /\ ~raced => QuietTask(r) /\ PendingOnceIn(q.items),
         Replanned /\ ~raced /\ ~movedBack' /\ Active(p) =>
           \A i \in DOMAIN q.items : \A k \in DOMAIN replans : replans[k] <= q.items[i].day
  PROVE  StudyPlanInv'
<1>2. StudyPlanTypes /\ Rows /\ AllSound /\ OneActivePlan /\ Covered /\ Quiet /\ Replanned
  BY DEF StudyPlanInv, StudyPlanTypeOK
<1>3. /\ \A v \in Slots : task'[v] = IF v = w THEN r ELSE task[v]
      /\ task[w].pc # "idle" /\ task'[w] = r
  BY <1>2 DEF StudyPlanTypes, Doing
<1>4. /\ plans' \in Seq(Plan) /\ DOMAIN plans' = DOMAIN plans
      /\ \A x \in DOMAIN plans : plans'[x] = IF x = p THEN q ELSE plans[x]
  BY <1>2 DEF StudyPlanTypes
<1>5. \A x \in DOMAIN plans : Active(x)' <=> Active(x)
  BY <1>4 DEF Active
<1>6. StudyPlanTypes'
  BY <1>2, <1>4 DEF StudyPlanTypes
<1>7. Rows'
  <2>1. ASSUME NEW v \in Slots PROVE RowsOf(task[v])'
    <3>1. CASE v = w
      BY <1>3, <1>4, <3>1 DEF RowsOf, GenPcs
    <3>2. CASE v # w
      <4>1. RowsOf(task[v]) /\ task'[v] = task[v]
        BY <1>2, <1>3, <3>2 DEF Rows
      <4>2. task[v].pc \in GenPcs /\ task[v].plan = p => q.filled = plans[p].filled
        BY <1>2, <3>2 DEF Rows
      <4>3. task[v].pc \in GenPcs => /\ task[v].plan \in DOMAIN plans'
                                    /\ ~plans'[task[v].plan].filled
                                    /\ plans'[task[v].plan].by = task[v].by
        BY <1>4, <4>1, <4>2 DEF RowsOf
      <4>4. task[v].pc \in {"mark", "move"} => /\ task[v].plan \in DOMAIN plans'
                                              /\ task[v].item \in DOMAIN plans'[task[v].plan].items
        BY <1>4, <4>1 DEF RowsOf, ItemsOf
      <4> QED
        BY <1>4, <4>1, <4>3, <4>4 DEF RowsOf, ItemsOf
    <3> QED
      BY <3>1, <3>2
  <2>2. \A u, v \in Slots : task'[v].pc \in GenPcs /\ task'[u].pc \in GenPcs
                                /\ task'[v].plan = task'[u].plan => v = u
    BY <1>2, <1>3 DEF Rows, GenPcs
  <2>3. \A x \in DOMAIN plans' : ~plans'[x].filled => ItemsOf(x)' = <<>>
    BY <1>2, <1>4 DEF Rows, ItemsOf
  <2> QED
    BY <2>1, <2>2, <2>3 DEF Rows
<1>8. AllSound'
  <2>1. ASSUME NEW x \in DOMAIN plans PROVE Sound(ItemsOf(x)')
    BY <1>2, <1>4 DEF AllSound, ItemsOf
  <2>2. AllSound' <=> \A x \in DOMAIN plans' : Sound(ItemsOf(x)')
    BY DEF AllSound, Sound, DayFits, PlannedOn, Planned, MinutesOn, MinutesOfItem, ItemsOf
  <2> QED
    BY <1>4, <2>1, <2>2
<1>9. OneActivePlan'
  <2>1. ActivePlans' = ActivePlans
    BY <1>4, <1>5 DEF ActivePlans
  <2>2. \A v \in Slots : Doing(v, "create")' <=> Doing(v, "create")
    BY <1>3 DEF Doing
  <2>3. {v \in Slots : Doing(v, "create")'} = {v \in Slots : Doing(v, "create")}
    BY <2>2
  <2> QED
    BY <1>2, <2>1, <2>3 DEF OneActivePlan
<1>10. Covered'
  <2>1. SUFFICES ASSUME ~died, NoRefresh'
        PROVE  /\ \A x \in DOMAIN plans' :
                    Active(x)' /\ plans'[x].filled /\ plans'[x].by = "api"
                      => entitled' \subseteq plans'[x].exams
               /\ \A v \in Slots : CoversTask(task[v])'
    BY DEF Covered
  <2>2. NoRefresh
    BY <1>3, <2>1 DEF NoRefresh, Doing
  <2>3. \A x \in DOMAIN plans' :
           Active(x)' /\ plans'[x].filled /\ plans'[x].by = "api"
             => entitled' \subseteq plans'[x].exams
    BY <1>2, <1>4, <1>5, <2>1, <2>2 DEF Covered
  <2>4. ASSUME NEW v \in Slots PROVE CoversTask(task[v])'
    <3>1. CASE v = w
      BY <1>3, <3>1 DEF CoversTask
    <3>2. CASE v # w
      <4>1. RowsOf(task[v]) /\ CoversTask(task[v]) /\ task'[v] = task[v]
        BY <1>2, <1>3, <2>1, <2>2, <3>2 DEF Rows, Covered
      <4>2. task[v].pc \in {"finished", "fill"} => task[v].plan \in DOMAIN plans
        BY <4>1 DEF RowsOf, GenPcs
      <4> QED
        BY <1>5, <4>1, <4>2 DEF CoversTask
    <3> QED
      BY <3>1, <3>2
  <2> QED
    BY <2>3, <2>4
<1>11. Quiet'
  <2>1. SUFFICES ASSUME ~raced
        PROVE  /\ \A v, u \in Slots : task'[v].pc # "idle" /\ task'[u].pc # "idle" => v = u
               /\ \A v \in Slots : QuietTask(task[v])'
               /\ \A x \in DOMAIN plans' : PendingOnceIn(ItemsOf(x))'
    BY DEF Quiet
  <2>2. \A v \in Slots : v # w => task[v].pc = "idle"
    BY <1>2, <1>3, <2>1 DEF Quiet
  <2>3. \A v, u \in Slots : task'[v].pc # "idle" /\ task'[u].pc # "idle" => v = u
    BY <1>3, <2>2
  <2>4. ASSUME NEW v \in Slots PROVE QuietTask(task[v])'
    <3>1. CASE v = w
      <4>1. QuietTask(r) /\ RowsOf(r) /\ ActivePlans' = ActivePlans
        BY <1>2, <1>4, <1>5, <2>1 DEF ActivePlans
      <4>2. r.pc = "recent" => r.plan \in DOMAIN plans
        BY <4>1 DEF RowsOf
      <4> QED
        BY <1>3, <1>5, <3>1, <4>1, <4>2 DEF QuietTask
    <3>2. CASE v # w
      BY <1>3, <2>2, <3>2 DEF QuietTask
    <3> QED
      BY <3>1, <3>2
  <2>5. ASSUME NEW x \in DOMAIN plans' PROVE PendingOnceIn(ItemsOf(x))'
    <3>1. PendingOnceIn(ItemsOf(x)')
      BY <1>2, <1>4, <2>1 DEF Quiet, ItemsOf
    <3> QED
      BY <3>1 DEF PendingOnceIn
  <2> QED
    BY <2>3, <2>4, <2>5
<1>12. Replanned'
  <2>1. SUFFICES ASSUME ~raced, ~movedBack'
        PROVE  /\ IsInjective(replans)
               /\ \A k \in DOMAIN replans : replans[k] <= day
               /\ \A x \in DOMAIN plans' : Active(x)' =>
                    \A i \in DOMAIN ItemsOf(x)' : \A k \in DOMAIN replans :
                      replans[k] <= ItemsOf(x)'[i].day
               /\ \A v \in Slots : ReplansAfter(task[v])'
    BY DEF Replanned, IsInjective
  <2>2. ~movedBack
    BY <1>2, <2>1 DEF StudyPlanTypes
  <2>3. ASSUME NEW x \in DOMAIN plans', Active(x)'
        PROVE  \A i \in DOMAIN ItemsOf(x)' : \A k \in DOMAIN replans :
                 replans[k] <= ItemsOf(x)'[i].day
    <3>1. CASE x = p
      BY <1>2, <1>4, <1>5, <2>1, <2>3, <3>1 DEF ItemsOf
    <3>2. CASE x # p
      BY <1>2, <1>4, <1>5, <2>1, <2>2, <2>3, <3>2 DEF Replanned, ItemsOf
    <3> QED
      BY <3>1, <3>2
  <2>4. \A v \in Slots : ReplansAfter(task[v])'
    BY <1>2, <1>3, <2>1, <2>2 DEF Replanned, ReplansAfter
  <2> QED
    BY <1>2, <2>1, <2>2, <2>3, <2>4 DEF Replanned
<1> QED
  BY <1>6, <1>7, <1>8, <1>9, <1>10, <1>11, <1>12 DEF StudyPlanInv, StudyPlanTypeOK

\* A plan with other items.
LEMMA WithItems ==
  ASSUME NEW row \in Plan, NEW items \in Seq(Item)
  PROVE  LET q == [row EXCEPT !.items = items] IN
         /\ q \in Plan /\ q.items = items /\ q.status = row.status /\ q.by = row.by
         /\ q.filled = row.filled /\ q.exams = row.exams
BY DEF Plan

LEMMA WithStatus ==
  ASSUME NEW x \in Item, NEW s \in ItemStatus
  PROVE  LET y == [x EXCEPT !.status = s] IN
         /\ y \in Item /\ y.status = s /\ y.from = x.from /\ y.day = x.day /\ y.lesson = x.lesson
BY DEF Item

\* What WriteKeeps asks of items that differ in their status alone.
LEMMA StatusesChanged ==
  ASSUME StudyPlanInv, NEW p \in DOMAIN plans, NEW items \in Seq(Item),
         Len(items) = Len(ItemsOf(p)),
         \A i \in DOMAIN ItemsOf(p) : /\ items[i].from = ItemsOf(p)[i].from
                                      /\ items[i].day = ItemsOf(p)[i].day
                                      /\ items[i].lesson = ItemsOf(p)[i].lesson
                                      /\ items[i].status = "PENDING" => ItemsOf(p)[i].status = "PENDING"
  PROVE  /\ DOMAIN items = DOMAIN ItemsOf(p) /\ Sound(items)
         /\ ItemsOf(p) = <<>> => items = <<>>
         /\ Quiet /\ ~raced => PendingOnceIn(items)
         /\ Replanned /\ ~raced /\ ~movedBack /\ Active(p) =>
              \A i \in DOMAIN items : \A k \in DOMAIN replans : replans[k] <= items[i].day
<1>1. StudyPlanTypes /\ AllSound
  BY DEF StudyPlanInv, StudyPlanTypeOK
<1>2. ItemsOf(p) \in Seq(Item)
  BY <1>1, ItemsType
<1>3. DOMAIN items = DOMAIN ItemsOf(p)
  BY <1>2
<1>4. Sound(items)
  BY <1>1, <1>2, SoundSame DEF AllSound
<1>5. ItemsOf(p) = <<>> => items = <<>>
  BY <1>2
<1>6. Quiet /\ ~raced => PendingOnceIn(items)
  BY <1>3 DEF Quiet, PendingOnceIn
<1>7. Replanned /\ ~raced /\ ~movedBack /\ Active(p) =>
        \A i \in DOMAIN items : \A k \in DOMAIN replans : replans[k] <= items[i].day
  BY <1>3 DEF Replanned
<1> QED
  BY <1>3, <1>4, <1>5, <1>6, <1>7

LEMMA MarkKeeps ==
  ASSUME StudyPlanInv, NEW w \in Slots, Mark(w)
  PROVE  StudyPlanInv'
<1>1. /\ StudyPlanTypes /\ Rows /\ Covered /\ task[w] \in Task /\ task[w].pc = "mark"
      /\ ~Doing(w, "idle") /\ ~Doing(w, "refresh") /\ ~Doing(w, "create")
  BY DEF StudyPlanInv, StudyPlanTypeOK, Mark, Doing, StudyPlanTypes
<1>2. PICK r : r = NoTask
  OBVIOUS
<1>3. PICK p : p = task[w].plan
  OBVIOUS
<1>4. PICK n : n = task[w].item
  OBVIOUS
<1>5. PICK s \in ItemStatus : s = task[w].set
  BY <1>1 DEF Task, ItemStatus
<1>6. /\ p \in DOMAIN plans /\ n \in DOMAIN ItemsOf(p)
  BY <1>1, <1>3, <1>4 DEF Rows, RowsOf
<1>7. PICK items : items = [ItemsOf(p) EXCEPT ![n] = [@ EXCEPT !.status = s]]
  OBVIOUS
<1>8. plans[p] \in Plan /\ ItemsOf(p) \in Seq(Item) /\ ItemsOf(p)[n] \in Item
  BY <1>1, <1>6, ItemsType
<1>9. /\ [ItemsOf(p)[n] EXCEPT !.status = s] \in Item
      /\ [ItemsOf(p)[n] EXCEPT !.status = s].status = s
      /\ [ItemsOf(p)[n] EXCEPT !.status = s].from = ItemsOf(p)[n].from
      /\ [ItemsOf(p)[n] EXCEPT !.status = s].day = ItemsOf(p)[n].day
      /\ [ItemsOf(p)[n] EXCEPT !.status = s].lesson = ItemsOf(p)[n].lesson
  BY <1>8, WithStatus
<1>10. /\ items \in Seq(Item) /\ Len(items) = Len(ItemsOf(p))
       /\ \A i \in DOMAIN ItemsOf(p) :
            items[i] = IF i = n THEN [ItemsOf(p)[n] EXCEPT !.status = s] ELSE ItemsOf(p)[i]
  BY <1>6, <1>7, <1>8, <1>9
<1>11. s # "PENDING"
  BY <1>1, <1>5 DEF Task
<1>12. \A i \in DOMAIN ItemsOf(p) :
         /\ items[i].from = ItemsOf(p)[i].from /\ items[i].day = ItemsOf(p)[i].day
         /\ items[i].lesson = ItemsOf(p)[i].lesson
         /\ items[i].status = "PENDING" => ItemsOf(p)[i].status = "PENDING"
  BY <1>9, <1>10, <1>11
<1>13. PICK q : q = [plans[p] EXCEPT !.items = items]
  OBVIOUS
<1>14. /\ plans' = [plans EXCEPT ![p] = q] /\ task' = [task EXCEPT ![w] = r]
       /\ UNCHANGED <<target, entitled, completed, day, claims, replans, movedBack, raced, died,
                      allowed>>
  BY <1>2, <1>3, <1>4, <1>5, <1>7, <1>13 DEF Mark, Finish, student, history, ItemsOf
<1>15. /\ q \in Plan /\ q.items = items /\ q.status = plans[p].status /\ q.by = plans[p].by
       /\ q.filled = plans[p].filled /\ q.exams = plans[p].exams
  BY <1>8, <1>10, <1>13, WithItems
<1>16. /\ DOMAIN items = DOMAIN ItemsOf(p) /\ Sound(items)
       /\ ItemsOf(p) = <<>> => items = <<>>
       /\ Quiet /\ ~raced => PendingOnceIn(items)
       /\ Replanned /\ ~raced /\ ~movedBack /\ Active(p) =>
            \A i \in DOMAIN items : \A k \in DOMAIN replans : replans[k] <= items[i].day
  BY <1>6, <1>10, <1>12, StatusesChanged
<1>17. RowsOf(r) /\ QuietTask(r) /\ r \in Task /\ r.pc = "idle"
  BY <1>1, <1>2, NoTaskRows, NoTaskFields
<1>18. ~q.filled => q.items = <<>>
  BY <1>1, <1>6, <1>15, <1>16 DEF Rows
<1>19. Covered /\ ~died /\ NoRefresh /\ Active(p) /\ q.filled /\ q.by = "api"
           => entitled \subseteq q.exams
  BY <1>6, <1>15 DEF Covered
<1>20. movedBack' \in BOOLEAN /\ movedBack' = movedBack
  BY <1>1, <1>14 DEF StudyPlanTypes
<1>30. /\ DOMAIN ItemsOf(p) \subseteq DOMAIN q.items /\ Sound(q.items)
       /\ q.filled = plans[p].filled \/ (task[w].pc \in GenPcs /\ task[w].plan = p)
       /\ Quiet /\ ~raced => QuietTask(r) /\ PendingOnceIn(q.items)
       /\ Replanned /\ ~raced /\ ~movedBack' /\ Active(p) =>
            \A i \in DOMAIN q.items : \A k \in DOMAIN replans : replans[k] <= q.items[i].day
  BY <1>15, <1>16, <1>17, <1>20
<1>31. r.pc \in {"idle", "claim", "recent"} /\ r \in Task
  BY <1>17
<1>32. plans' = [plans EXCEPT ![p] = q] /\ task' = [task EXCEPT ![w] = r]
  BY <1>14
<1>33. UNCHANGED <<target, entitled, completed, day, claims, replans, raced, died, allowed>>
  BY <1>14
<1> QED
  BY <1>1, <1>6, <1>15, <1>17, <1>18, <1>19, <1>20, <1>30, <1>31, <1>32, <1>33, WriteKeeps

LEMMA MarkMissedKeeps ==
  ASSUME StudyPlanInv, NEW w \in Slots, MarkMissed(w)
  PROVE  StudyPlanInv'
<1>1. /\ StudyPlanTypes /\ Rows /\ Covered /\ task[w] \in Task /\ task[w].pc = "missed"
      /\ ~Doing(w, "idle") /\ ~Doing(w, "refresh") /\ ~Doing(w, "create")
  BY DEF StudyPlanInv, StudyPlanTypeOK, MarkMissed, Doing, StudyPlanTypes
<1>2. PICK r : r = [task[w] EXCEPT !.pc = "recent"]
  OBVIOUS
<1>3. PICK p : p = task[w].plan
  OBVIOUS
<1>4. PICK today : today = task[w].today
  OBVIOUS
<1>6. p \in DOMAIN plans
  BY <1>1, <1>3 DEF Rows, RowsOf
<1>7. PICK items : items = [i \in DOMAIN ItemsOf(p) |->
                              IF Overdue(ItemsOf(p)[i], today)
                              THEN [ItemsOf(p)[i] EXCEPT !.status = "MISSED"] ELSE ItemsOf(p)[i]]
  OBVIOUS
<1>8. plans[p] \in Plan /\ ItemsOf(p) \in Seq(Item)
  BY <1>1, <1>6, ItemsType
<1>9. ASSUME NEW i \in DOMAIN ItemsOf(p)
      PROVE  /\ items[i] \in Item
             /\ items[i].from = ItemsOf(p)[i].from /\ items[i].day = ItemsOf(p)[i].day
             /\ items[i].lesson = ItemsOf(p)[i].lesson
             /\ items[i].status = "PENDING" => ItemsOf(p)[i].status = "PENDING"
  <2>1. ItemsOf(p)[i] \in Item /\ "MISSED" \in ItemStatus
    BY <1>1, <1>6, ItemsType DEF ItemStatus
  <2>2. LET y == [ItemsOf(p)[i] EXCEPT !.status = "MISSED"] IN
        /\ y \in Item /\ y.from = ItemsOf(p)[i].from /\ y.day = ItemsOf(p)[i].day
        /\ y.lesson = ItemsOf(p)[i].lesson /\ y.status = "MISSED"
    BY <2>1, WithStatus
  <2> QED
    BY <1>7, <2>1, <2>2
<1>10. items \in Seq(Item) /\ Len(items) = Len(ItemsOf(p))
  <2>1. DOMAIN ItemsOf(p) = 1..Len(ItemsOf(p)) /\ Len(ItemsOf(p)) \in Nat
    BY <1>8
  <2>2. items \in [1..Len(ItemsOf(p)) -> Item]
    BY <1>7, <1>9, <2>1
  <2> QED
    BY <2>1, <2>2
<1>13. PICK q : q = [plans[p] EXCEPT !.items = items]
  OBVIOUS
<1>14. /\ plans' = [plans EXCEPT ![p] = q] /\ task' = [task EXCEPT ![w] = r]
       /\ UNCHANGED <<target, entitled, completed, day, claims, replans, movedBack, raced, died,
                      allowed>>
  BY <1>2, <1>3, <1>4, <1>7, <1>13 DEF MarkMissed, GoOn, student, history, ItemsOf
<1>15. /\ q \in Plan /\ q.items = items /\ q.status = plans[p].status /\ q.by = plans[p].by
       /\ q.filled = plans[p].filled /\ q.exams = plans[p].exams
  BY <1>8, <1>10, <1>13, WithItems
<1>16. /\ DOMAIN items = DOMAIN ItemsOf(p) /\ Sound(items)
       /\ ItemsOf(p) = <<>> => items = <<>>
       /\ Quiet /\ ~raced => PendingOnceIn(items)
       /\ Replanned /\ ~raced /\ ~movedBack /\ Active(p) =>
            \A i \in DOMAIN items : \A k \in DOMAIN replans : replans[k] <= items[i].day
  BY <1>6, <1>9, <1>10, StatusesChanged
<1>17. /\ r \in Task /\ r.pc = "recent" /\ r.plan = task[w].plan /\ r.todo = task[w].todo
       /\ r.today = task[w].today
  BY <1>1, <1>2 DEF Task, Places
<1>18. RowsOf(r)
  BY <1>1, <1>17 DEF Rows, RowsOf, GenPcs
<1>21. Quiet /\ ~raced => QuietTask(r)
  BY <1>1, <1>17 DEF Quiet, QuietTask
<1>22. ~q.filled => q.items = <<>>
  BY <1>1, <1>6, <1>15, <1>16 DEF Rows
<1>19. Covered /\ ~died /\ NoRefresh /\ Active(p) /\ q.filled /\ q.by = "api"
           => entitled \subseteq q.exams
  BY <1>6, <1>15 DEF Covered
<1>20. movedBack' \in BOOLEAN /\ movedBack' = movedBack
  BY <1>1, <1>14 DEF StudyPlanTypes
<1>30. /\ DOMAIN ItemsOf(p) \subseteq DOMAIN q.items /\ Sound(q.items)
       /\ q.filled = plans[p].filled \/ (task[w].pc \in GenPcs /\ task[w].plan = p)
       /\ Quiet /\ ~raced => QuietTask(r) /\ PendingOnceIn(q.items)
       /\ Replanned /\ ~raced /\ ~movedBack' /\ Active(p) =>
            \A i \in DOMAIN q.items : \A k \in DOMAIN replans : replans[k] <= q.items[i].day
  BY <1>15, <1>16, <1>17, <1>20, <1>21
<1>31. r.pc \in {"idle", "claim", "recent"} /\ r \in Task
  BY <1>17
<1>32. plans' = [plans EXCEPT ![p] = q] /\ task' = [task EXCEPT ![w] = r]
  BY <1>14
<1>33. UNCHANGED <<target, entitled, completed, day, claims, replans, raced, died, allowed>>
  BY <1>14
<1> QED
  BY <1>1, <1>6, <1>15, <1>18, <1>19, <1>20, <1>22, <1>30, <1>31, <1>32, <1>33, WriteKeeps

LEMMA MoveKeeps ==
  ASSUME StudyPlanInv, NEW w \in Slots, NEW d \in {day - 1, day, day + 1}, Move(w, d)
  PROVE  StudyPlanInv'
<1>1. /\ StudyPlanTypes /\ Rows /\ AllSound /\ Covered /\ Quiet /\ Replanned
      /\ task[w] \in Task /\ task[w].pc = "move"
      /\ ~Doing(w, "idle") /\ ~Doing(w, "refresh") /\ ~Doing(w, "create")
  BY DEF StudyPlanInv, StudyPlanTypeOK, Move, Doing, StudyPlanTypes
<1>2. PICK r : r = NoTask
  OBVIOUS
<1>3. PICK p : p = task[w].plan
  OBVIOUS
<1>4. PICK n : n = task[w].item
  OBVIOUS
<1>6. /\ p \in DOMAIN plans /\ n \in DOMAIN ItemsOf(p) /\ d \in Int
  BY <1>1, <1>3, <1>4 DEF Rows, RowsOf, StudyPlanTypes
<1>7. PICK closed : closed = [ItemsOf(p) EXCEPT ![n].status = "RESCHEDULED"]
  OBVIOUS
<1>8. /\ plans[p] \in Plan /\ ItemsOf(p) \in Seq(Item) /\ ItemsOf(p)[n] \in Item
      /\ DOMAIN ItemsOf(p) = 1..Len(ItemsOf(p)) /\ Len(ItemsOf(p)) \in Nat
  <2>1. plans[p] \in Plan /\ ItemsOf(p) \in Seq(Item) /\ ItemsOf(p)[n] \in Item
    BY <1>1, <1>6, ItemsType
  <2> QED
    BY <2>1
<1>9. PICK y : y = [ItemsOf(p)[n] EXCEPT !.status = "RESCHEDULED"]
  OBVIOUS
<1>10. /\ y \in Item /\ y.from = ItemsOf(p)[n].from /\ y.day = ItemsOf(p)[n].day
       /\ y.lesson = ItemsOf(p)[n].lesson /\ y.status = "RESCHEDULED"
  BY <1>8, <1>9, WithStatus DEF ItemStatus
<1>11. /\ closed \in Seq(Item) /\ Len(closed) = Len(ItemsOf(p))
       /\ DOMAIN closed = DOMAIN ItemsOf(p)
       /\ \A i \in DOMAIN ItemsOf(p) : closed[i] = IF i = n THEN y ELSE ItemsOf(p)[i]
  BY <1>6, <1>7, <1>8, <1>9, <1>10
<1>12. PICK x : x = [ItemsOf(p)[n] EXCEPT !.day = d, !.status = "PENDING", !.from = n]
  OBVIOUS
<1>13. /\ x \in Item /\ x.lesson = ItemsOf(p)[n].lesson /\ x.day = d /\ x.from = n /\ n # 0
       /\ x.status = "PENDING"
  <2>1. n \in Nat /\ n # 0
    BY <1>6, <1>8
  <2>2. PICK old \in Item : old = ItemsOf(p)[n]
    BY <1>8
  <2>3. x = [old EXCEPT !.day = d, !.status = "PENDING", !.from = n] /\ d \in Int
    BY <1>6, <1>12, <2>2
  <2>5. x.lesson = old.lesson /\ x.day = d /\ x.from = n /\ x.status = "PENDING"
    BY <2>3 DEF Item
  <2>6. x \in Item
    BY <2>1, <2>3 DEF Item, ItemStatus
  <2>4. x \in Item /\ x.lesson = old.lesson /\ x.day = d /\ x.from = n /\ x.status = "PENDING"
    BY <2>5, <2>6
  <2> QED
    BY <2>1, <2>2, <2>4
<1>14. PICK items : items = Append(closed, x)
  OBVIOUS
<1>15. /\ items \in Seq(Item) /\ DOMAIN items = 1..(Len(ItemsOf(p)) + 1)
       /\ items[Len(ItemsOf(p)) + 1] = x
       /\ \A i \in DOMAIN ItemsOf(p) : items[i] = IF i = n THEN y ELSE ItemsOf(p)[i]
  <2>1. /\ Append(closed, x) \in Seq(Item) /\ Len(Append(closed, x)) = Len(closed) + 1
        /\ Append(closed, x)[Len(closed) + 1] = x
        /\ \A i \in 1..Len(closed) : Append(closed, x)[i] = closed[i]
    BY <1>11, <1>13, AppendProperties
  <2> QED
    BY <1>8, <1>11, <1>14, <2>1
<1>16. PICK q : q = [plans[p] EXCEPT !.items = items]
  OBVIOUS
<1>17. /\ q \in Plan /\ q.items = items /\ q.status = plans[p].status /\ q.by = plans[p].by
       /\ q.filled = plans[p].filled /\ q.exams = plans[p].exams
  BY <1>8, <1>15, <1>16, WithItems
<1>18. /\ plans' = [plans EXCEPT ![p].items =
                      Append([@ EXCEPT ![n].status = "RESCHEDULED"],
                             [ItemsOf(p)[n] EXCEPT !.day = d, !.status = "PENDING", !.from = n])]
       /\ task' = [task EXCEPT ![w] = r] /\ movedBack' = (movedBack \/ d < day)
  BY <1>2, <1>3, <1>4 DEF Move, Finish
<1>19. plans' = [plans EXCEPT ![p] = q]
  BY <1>7, <1>12, <1>14, <1>16, <1>18 DEF ItemsOf
<1>20. UNCHANGED <<target, entitled, completed, day, claims, replans, raced, died, allowed>>
  BY DEF Move, student
<1>21. movedBack' \in BOOLEAN /\ (movedBack => movedBack')
  BY <1>1, <1>18 DEF StudyPlanTypes
<1>22. Sound(closed)
  <2>1. \A i \in DOMAIN ItemsOf(p) : /\ closed[i].from = ItemsOf(p)[i].from
                                     /\ closed[i].day = ItemsOf(p)[i].day
                                     /\ closed[i].lesson = ItemsOf(p)[i].lesson
    BY <1>10, <1>11
  <2>2. Sound(ItemsOf(p))
    BY <1>1, <1>6 DEF AllSound
  <2> QED
    BY <1>8, <1>11, <2>1, <2>2, SoundSame
<1>23. Sound(q.items)
  BY <1>11, <1>13, <1>14, <1>17, <1>22, SoundAppend
<1>24. DOMAIN ItemsOf(p) \subseteq DOMAIN q.items /\ (~q.filled => q.items = <<>>)
  <2>1. DOMAIN ItemsOf(p) \subseteq DOMAIN items
    BY <1>8, <1>15
  <2>2. plans[p].filled
    BY <1>1, <1>6, <1>8 DEF Rows
  <2> QED
    BY <1>17, <2>1, <2>2
<1>25. RowsOf(r) /\ QuietTask(r) /\ r \in Task /\ r.pc \in {"idle", "claim", "recent"}
  BY <1>1, <1>2, NoTaskRows, NoTaskFields
<1>26. Covered /\ ~died /\ NoRefresh /\ Active(p) /\ q.filled /\ q.by = "api"
           => entitled \subseteq q.exams
  BY <1>6, <1>17 DEF Covered
<1>27. ASSUME ~raced PROVE PendingOnceIn(q.items)
  <2>1. ItemsOf(p)[n].status = "PENDING" /\ PendingOnceIn(ItemsOf(p))
    BY <1>1, <1>3, <1>4, <1>6, <1>27 DEF Quiet, QuietTask
  <2>2. ASSUME NEW i \in DOMAIN items, items[i].status = "PENDING",
               i # Len(ItemsOf(p)) + 1
        PROVE  /\ i \in DOMAIN ItemsOf(p) /\ i # n /\ items[i] = ItemsOf(p)[i]
    <3>1. i \in DOMAIN ItemsOf(p)
      BY <1>8, <1>15, <2>2
    <3> QED
      BY <1>10, <1>15, <2>2, <3>1
  <2>3. ASSUME NEW i \in DOMAIN items, NEW j \in DOMAIN items,
               items[i].status = "PENDING", items[j].status = "PENDING",
               items[i].lesson = items[j].lesson, items[i].lesson # NoLesson
        PROVE  i = j
    <3>1. CASE i # Len(ItemsOf(p)) + 1 /\ j # Len(ItemsOf(p)) + 1
      BY <2>1, <2>2, <2>3, <3>1 DEF PendingOnceIn
    <3>2. CASE i = Len(ItemsOf(p)) + 1 /\ j # Len(ItemsOf(p)) + 1
      BY <1>6, <1>13, <1>15, <2>1, <2>2, <2>3, <3>2 DEF PendingOnceIn
    <3>3. CASE i # Len(ItemsOf(p)) + 1 /\ j = Len(ItemsOf(p)) + 1
      BY <1>6, <1>13, <1>15, <2>1, <2>2, <2>3, <3>3 DEF PendingOnceIn
    <3> QED
      BY <3>1, <3>2, <3>3
  <2> QED
    BY <1>17, <2>3 DEF PendingOnceIn
<1>28. ASSUME ~raced, ~movedBack', Active(p), NEW i \in DOMAIN q.items, NEW k \in DOMAIN replans
       PROVE  replans[k] <= q.items[i].day
  <2>1. ~movedBack /\ ~(d < day) /\ day \in Nat /\ replans[k] \in Nat
    <3>1. ~movedBack /\ ~(d < day)
      BY <1>18, <1>28, Zenon
    <3> QED
      BY <1>1, <3>1 DEF StudyPlanTypes
  <2>2. replans[k] <= day
    BY <1>1, <1>28, <2>1 DEF Replanned
  <2>3. CASE i = Len(ItemsOf(p)) + 1
    BY <1>6, <1>13, <1>15, <1>17, <2>1, <2>2, <2>3
  <2>4. CASE i # Len(ItemsOf(p)) + 1
    <3>1. i \in DOMAIN ItemsOf(p)
      BY <1>8, <1>15, <1>17, <2>4
    <3>2. q.items[i].day = ItemsOf(p)[i].day
      BY <1>10, <1>15, <1>17, <3>1
    <3> QED
      BY <1>1, <1>6, <1>28, <2>1, <3>1, <3>2 DEF Replanned
  <2> QED
    BY <2>3, <2>4
<1>30. /\ q.filled = plans[p].filled \/ (task[w].pc \in GenPcs /\ task[w].plan = p)
       /\ Quiet /\ ~raced => QuietTask(r) /\ PendingOnceIn(q.items)
       /\ Replanned /\ ~raced /\ ~movedBack' /\ Active(p) =>
            \A i \in DOMAIN q.items : \A k \in DOMAIN replans : replans[k] <= q.items[i].day
  BY <1>17, <1>25, <1>27, <1>28
<1>31. task' = [task EXCEPT ![w] = r]
  BY <1>18
<1> QED
  BY <1>1, <1>6, <1>17, <1>19, <1>20, <1>21, <1>23, <1>24, <1>25, <1>26, <1>30, <1>31, WriteKeeps

LEMMA FillKeeps ==
  ASSUME StudyPlanInv, NEW w \in Slots, NEW h \in 1..PlanDays, NEW drills \in BOOLEAN,
         Fill(w, h, drills)
  PROVE  StudyPlanInv'
<1>1. /\ StudyPlanTypes /\ Rows /\ AllSound /\ Covered /\ Quiet /\ Replanned
      /\ task[w] \in Task /\ task[w].pc = "fill"
      /\ ~Doing(w, "idle") /\ ~Doing(w, "refresh") /\ ~Doing(w, "create")
  BY DEF StudyPlanInv, StudyPlanTypeOK, Fill, Doing, StudyPlanTypes
<1>2. PICK p : p = task[w].plan
  OBVIOUS
<1>3. PICK exams \in SUBSET Exams, today \in Nat, left \in SUBSET LessonSet :
        exams = task[w].exams /\ today = day /\ left = task[w].left
  BY <1>1 DEF Task, StudyPlanTypes
<1>4. /\ p \in DOMAIN plans /\ ~plans[p].filled /\ plans[p].by = task[w].by
      /\ ItemsOf(p) = <<>>
  BY <1>1, <1>2 DEF Rows, RowsOf, GenPcs
<1>5. PICK items : items = Pack(left, today, h, drills)
  OBVIOUS
<1>6. /\ items \in Seq(Item) /\ Sound(items)
      /\ \A i \in DOMAIN items : today <= items[i].day
      /\ \A i, j \in DOMAIN items :
           items[i].lesson = items[j].lesson /\ items[i].lesson # NoLesson => i = j
  <2>1. today \in Int
    BY <1>3
  <2> QED
    BY <1>5, <2>1, PackedItems
<1>7. PICK q : q = [plans[p] EXCEPT !.filled = TRUE, !.exams = exams, !.items = items]
  OBVIOUS
<1>8. /\ q \in Plan /\ q.items = items /\ q.status = plans[p].status /\ q.by = plans[p].by
      /\ q.filled = TRUE /\ q.exams = exams
  <2>1. plans[p] \in Plan
    BY <1>1, <1>4, ItemsType
  <2> QED
    BY <1>3, <1>6, <1>7, <2>1 DEF Plan
<1>9. plans' = [plans EXCEPT ![p] = q]
  BY <1>2, <1>3, <1>5, <1>7 DEF Fill
<1>10. UNCHANGED <<target, entitled, completed, day, claims, replans, raced, died, allowed>>
         /\ movedBack' = movedBack /\ movedBack' \in BOOLEAN
  BY <1>1 DEF Fill, student, history, StudyPlanTypes
<1>11. PICK r : /\ task' = [task EXCEPT ![w] = r]
                /\ \/ r = NoTask /\ task[w].todo = {}
                   \/ r = [task[w] EXCEPT !.pc = "claim"] /\ task[w].todo # {}
  BY DEF Fill, Finish, GoOn
<1>12. /\ r \in Task /\ r.pc \in {"idle", "claim", "recent"} /\ RowsOf(r)
       /\ Quiet /\ ~raced => QuietTask(r)
  <2>1. CASE r = NoTask
    BY <1>1, <2>1, NoTaskFields, NoTaskRows
  <2>2. CASE r = [task[w] EXCEPT !.pc = "claim"] /\ task[w].todo # {}
    <3>1. /\ r \in Task /\ r.pc = "claim" /\ r.todo = task[w].todo /\ r.today = task[w].today
      BY <1>1, <2>2 DEF Task, Places
    <3>2. RowsOf(r)
      BY <1>1, <3>1 DEF Rows, RowsOf, GenPcs
    <3>3. Quiet /\ ~raced => task[w].todo = {}
      BY <1>1 DEF Quiet, QuietTask
    <3> QED
      BY <2>2, <3>1, <3>2, <3>3
  <2> QED
    BY <1>11, <2>1, <2>2
<1>13. Covered /\ ~died /\ NoRefresh /\ Active(p) /\ q.filled /\ q.by = "api"
           => entitled \subseteq q.exams
  BY <1>1, <1>2, <1>3, <1>4, <1>8 DEF Covered, CoversTask
<1>14. PendingOnceIn(q.items)
  BY <1>6, <1>8 DEF PendingOnceIn
<1>15. ASSUME ~raced, ~movedBack', NEW i \in DOMAIN q.items, NEW k \in DOMAIN replans
       PROVE  replans[k] <= q.items[i].day
  <2>1. replans[k] <= today /\ replans[k] \in Nat /\ today \in Nat
    BY <1>1, <1>3, <1>10, <1>15 DEF Replanned, StudyPlanTypes
  <2>2. today <= items[i].day /\ items[i].day \in Int
    BY <1>6, <1>8, <1>15, ItemAt
  <2> QED
    BY <1>8, <2>1, <2>2
<1>16. /\ DOMAIN ItemsOf(p) \subseteq DOMAIN q.items /\ (~q.filled => q.items = <<>>)
       /\ q.filled = plans[p].filled \/ (task[w].pc \in GenPcs /\ task[w].plan = p)
       /\ Sound(q.items)
       /\ Quiet /\ ~raced => QuietTask(r) /\ PendingOnceIn(q.items)
       /\ Replanned /\ ~raced /\ ~movedBack' /\ Active(p) =>
            \A i \in DOMAIN q.items : \A k \in DOMAIN replans : replans[k] <= q.items[i].day
  BY <1>1, <1>2, <1>4, <1>6, <1>8, <1>12, <1>14, <1>15 DEF GenPcs
<1>17. /\ task' = [task EXCEPT ![w] = r]
       /\ UNCHANGED <<target, entitled, completed, day, claims, replans, raced, died, allowed>>
       /\ movedBack' \in BOOLEAN /\ (movedBack => movedBack')
  BY <1>10, <1>11
<1> QED
  BY <1>1, <1>4, <1>8, <1>9, <1>12, <1>13, <1>16, <1>17, WriteKeeps

-----------------------------------------------------------------------------
(* Steps that abandon or create plans, and the clock. *)

LEMMA AbandonedPlans ==
  ASSUME StudyPlanTypes
  PROVE  /\ Abandoned(plans) \in Seq(Plan) /\ DOMAIN Abandoned(plans) = DOMAIN plans
         /\ \A p \in DOMAIN plans :
              /\ Abandoned(plans)[p].status = "ABANDONED"
              /\ Abandoned(plans)[p].by = plans[p].by
              /\ Abandoned(plans)[p].exams = plans[p].exams
              /\ Abandoned(plans)[p].filled = plans[p].filled
              /\ Abandoned(plans)[p].items = plans[p].items
<1>1. /\ plans \in Seq(Plan) /\ DOMAIN plans = 1..Len(plans) /\ Len(plans) \in Nat
      /\ \A p \in DOMAIN plans : plans[p] \in Plan
  BY DEF StudyPlanTypes
<1>2. DOMAIN Abandoned(plans) = DOMAIN plans
  BY DEF Abandoned
<1>3. ASSUME NEW p \in DOMAIN plans
      PROVE  /\ Abandoned(plans)[p] \in Plan
             /\ Abandoned(plans)[p].status = "ABANDONED"
             /\ Abandoned(plans)[p].by = plans[p].by
             /\ Abandoned(plans)[p].exams = plans[p].exams
             /\ Abandoned(plans)[p].filled = plans[p].filled
             /\ Abandoned(plans)[p].items = plans[p].items
  <2>1. PICK row \in Plan : row = plans[p]
    BY <1>1
  <2>2. Abandoned(plans)[p] = [row EXCEPT !.status = "ABANDONED"]
    BY <2>1 DEF Abandoned
  <2> QED
    BY <2>1, <2>2 DEF Plan
<1>4. Abandoned(plans) \in [1..Len(plans) -> Plan]
  BY <1>1, <1>3 DEF Abandoned
<1>5. Abandoned(plans) \in Seq(Plan)
  BY <1>1, <1>4
<1> QED
  BY <1>2, <1>3, <1>5

\* The ACTIVE plans are abandoned, by a task that ends or goes on to create one.
LEMMA AbandoningKeeps ==
  ASSUME StudyPlanInv, NEW w \in Slots, ~Doing(w, "idle"), NEW r \in Task,
         task' = [task EXCEPT ![w] = r], plans' = Abandoned(plans),
         UNCHANGED <<student, day, claims, history, allowed>>,
         \/ r = NoTask
         \/ /\ Doing(w, "abandon") /\ r.pc = "create" /\ r.by = task[w].by
            /\ r.todo = task[w].todo /\ r.today = task[w].today
  PROVE  StudyPlanInv'
<1>1. /\ StudyPlanTypes /\ Rows /\ AllSound /\ OneActivePlan /\ Covered /\ Quiet /\ Replanned
      /\ task[w] \in Task /\ task[w].pc # "idle"
  BY DEF StudyPlanInv, StudyPlanTypeOK, StudyPlanTypes, Doing
<1>2. /\ UNCHANGED <<target, entitled, completed, day, claims, allowed>>
      /\ UNCHANGED <<replans, movedBack, raced, died>>
  BY DEF student, history
<1>3. \A v \in Slots : task'[v] = IF v = w THEN r ELSE task[v]
  BY <1>1 DEF StudyPlanTypes
<1>4. /\ plans' \in Seq(Plan) /\ DOMAIN plans' = DOMAIN plans
      /\ \A p \in DOMAIN plans : /\ plans'[p].status = "ABANDONED"
                                 /\ plans'[p].by = plans[p].by
                                 /\ plans'[p].exams = plans[p].exams
                                 /\ plans'[p].filled = plans[p].filled
                                 /\ plans'[p].items = plans[p].items
  BY <1>1, AbandonedPlans
<1>5. r.pc \in {"idle", "create"} /\ RowsOf(r)
  <2>1. CASE r = NoTask
    BY <1>1, <2>1, NoTaskFields, NoTaskRows
  <2>2. CASE r # NoTask
    BY <1>1, <2>2 DEF Rows, RowsOf, GenPcs, Doing
  <2> QED
    BY <2>1, <2>2
<1>6. \A p \in DOMAIN plans : ~Active(p)'
  BY <1>4 DEF Active
<1>7. StudyPlanTypes'
  BY <1>1, <1>2, <1>4 DEF StudyPlanTypes
<1>8. Rows'
  <2>1. ASSUME NEW v \in Slots PROVE RowsOf(task[v])'
    <3>1. RowsOf(task'[v])
      BY <1>1, <1>3, <1>5 DEF Rows
    <3> QED
      BY <1>2, <1>4, <3>1 DEF RowsOf, ItemsOf, GenPcs
  <2>2. \A u, v \in Slots : task'[v].pc \in GenPcs /\ task'[u].pc \in GenPcs
                                /\ task'[v].plan = task'[u].plan => v = u
    BY <1>1, <1>3, <1>5 DEF Rows, GenPcs
  <2>3. \A p \in DOMAIN plans' : ~plans'[p].filled => ItemsOf(p)' = <<>>
    BY <1>1, <1>4 DEF Rows, ItemsOf
  <2> QED
    BY <2>1, <2>2, <2>3 DEF Rows
<1>9. AllSound'
  <2>1. ASSUME NEW p \in DOMAIN plans PROVE Sound(ItemsOf(p)')
    BY <1>1, <1>4 DEF AllSound, ItemsOf
  <2>2. AllSound' <=> \A p \in DOMAIN plans' : Sound(ItemsOf(p)')
    BY DEF AllSound, Sound, DayFits, PlannedOn, Planned, MinutesOn, MinutesOfItem, ItemsOf
  <2> QED
    BY <1>4, <2>1, <2>2
<1>10. OneActivePlan'
  <2>1. ActivePlans' = {} /\ Cardinality(ActivePlans') = 0
    BY <1>4, <1>6, FS_EmptySet DEF ActivePlans
  <2>2. Creators' = {v \in Slots : Doing(v, "create")'} /\ Creators' \subseteq Slots
    BY DEF Creators
  <2>3. /\ Cardinality(Creators') \in Nat
        /\ Cardinality(Creators') <= Cardinality(Slots) /\ Cardinality(Slots) \in Nat
    BY <2>2, CreatorsFinite, FS_Subset, FS_CardinalityType
  <2>4. ASSUME ~raced PROVE Cardinality(Creators') <= 1
    <3>1. Creators' \subseteq {w}
      BY <1>1, <1>3, <2>2, <2>4 DEF Quiet, Doing
    <3>2. IsFiniteSet({w}) /\ Cardinality({w}) = 1
      BY FS_Singleton
    <3>3. Cardinality(Creators') <= Cardinality({w})
      BY <3>1, <3>2, FS_Subset
    <3> QED
      BY <3>2, <3>3
  <2> QED
    BY <1>2, <2>1, <2>2, <2>3, <2>4 DEF OneActivePlan
<1>11. Covered'
  <2>1. ASSUME NEW v \in Slots PROVE CoversTask(task[v])'
    <3>1. task'[v].pc \in {"finished", "fill"} => task'[v].plan \in DOMAIN plans
      BY <1>1, <1>3, <1>5 DEF Rows, RowsOf, GenPcs
    <3> QED
      BY <1>6, <3>1 DEF CoversTask
  <2> QED
    BY <1>4, <1>6, <2>1 DEF Covered
<1>12. Quiet'
  <2>1. SUFFICES ASSUME ~raced
        PROVE  /\ \A v, u \in Slots : task'[v].pc # "idle" /\ task'[u].pc # "idle" => v = u
               /\ \A v \in Slots : QuietTask(task[v])'
               /\ \A p \in DOMAIN plans' : PendingOnceIn(ItemsOf(p))'
    BY <1>2 DEF Quiet
  <2>2. \A v \in Slots : v # w => task[v].pc = "idle"
    BY <1>1, <2>1 DEF Quiet
  <2>3. \A v, u \in Slots : task'[v].pc # "idle" /\ task'[u].pc # "idle" => v = u
    BY <1>3, <2>2
  <2>4. ASSUME NEW v \in Slots PROVE QuietTask(task[v])'
    <3>1. CASE v = w /\ r # NoTask
      <4>1. task[w].pc = "abandon" /\ QuietTask(task[w])
        BY <1>1, <2>1, <3>1 DEF Quiet, Doing
      <4>2. task[w].todo = {}
        BY <4>1 DEF QuietTask
      <4> QED
        BY <1>3, <3>1, <4>2 DEF QuietTask
    <3>2. CASE v = w /\ r = NoTask
      BY <1>3, <3>2, NoTaskFields DEF QuietTask
    <3>3. CASE v # w
      BY <1>3, <2>2, <3>3 DEF QuietTask
    <3> QED
      BY <3>1, <3>2, <3>3
  <2>5. ASSUME NEW p \in DOMAIN plans' PROVE PendingOnceIn(ItemsOf(p))'
    <3>1. PendingOnceIn(ItemsOf(p)')
      BY <1>1, <1>4, <2>1 DEF Quiet, ItemsOf
    <3> QED
      BY <3>1 DEF PendingOnceIn
  <2> QED
    BY <2>3, <2>4, <2>5
<1>13. Replanned'
  <2>1. SUFFICES ASSUME ~raced, ~movedBack
        PROVE  /\ IsInjective(replans)
               /\ \A k \in DOMAIN replans : replans[k] <= day
               /\ \A p \in DOMAIN plans' : ~Active(p)'
               /\ \A v \in Slots : ReplansAfter(task[v])'
    BY <1>2 DEF Replanned, IsInjective
  <2>2. ASSUME NEW v \in Slots PROVE ReplansAfter(task[v])'
    BY <1>1, <1>2, <1>3, <2>1, NoTaskFields DEF Replanned, ReplansAfter, Doing
  <2> QED
    BY <1>1, <1>4, <1>6, <2>1, <2>2 DEF Replanned
<1> QED
  BY <1>7, <1>8, <1>9, <1>10, <1>11, <1>12, <1>13 DEF StudyPlanInv, StudyPlanTypeOK

LEMMA AbandonKeeps ==
  ASSUME StudyPlanInv, NEW w \in Slots, Abandon(w)
  PROVE  StudyPlanInv'
<1>1. task[w] \in Task
  BY DEF StudyPlanInv, StudyPlanTypeOK, StudyPlanTypes
<1>2. PICK r : r = [task[w] EXCEPT !.pc = "create"]
  OBVIOUS
<1>3. /\ r \in Task /\ r.pc = "create" /\ r.by = task[w].by /\ r.todo = task[w].todo
      /\ r.today = task[w].today
  BY <1>1, <1>2 DEF Task, Places
<1>4. /\ Doing(w, "abandon") /\ ~Doing(w, "idle") /\ plans' = Abandoned(plans)
      /\ task' = [task EXCEPT ![w] = r]
  BY <1>2 DEF Abandon, GoOn, Doing
<1>5. UNCHANGED <<student, day, claims, history, allowed>>
  BY DEF Abandon
<1> QED
  BY <1>3, <1>4, <1>5, AbandoningKeeps

LEMMA RefreshKeeps ==
  ASSUME StudyPlanInv, NEW w \in Slots, Refresh(w)
  PROVE  StudyPlanInv'
<1>1. PICK r \in Task : r = NoTask
  BY NoTaskFields
<1>2. ~Doing(w, "idle") /\ plans' = Abandoned(plans) /\ task' = [task EXCEPT ![w] = r]
  BY <1>1 DEF Refresh, Refreshed, Finish, Doing
<1>3. UNCHANGED <<student, day, claims, history, allowed>>
  BY DEF Refresh
<1> QED
  BY <1>1, <1>2, <1>3, AbandoningKeeps

LEMMA TickKeeps ==
  ASSUME StudyPlanInv, Tick
  PROVE  StudyPlanInv'
<1>1. /\ StudyPlanTypes /\ Rows /\ AllSound /\ OneActivePlan /\ Covered /\ Quiet /\ Replanned
  BY DEF StudyPlanInv, StudyPlanTypeOK
<1>2. /\ UNCHANGED <<plans, target, entitled, completed, claims, task>>
      /\ UNCHANGED <<replans, movedBack, raced, died>>
      /\ day' = day + 1 /\ allowed' \in [Events -> Nat]
  BY <1>1 DEF Tick, Use, student, history, StudyPlanTypes, Events
<1>3. day \in Nat /\ \A k \in DOMAIN replans : replans[k] \in Nat
  BY <1>1 DEF StudyPlanTypes
<1>4. StudyPlanTypes'
  BY <1>1, <1>2 DEF StudyPlanTypes
<1>5. Rows'
  <2>1. \A w \in Slots : task[w].today \in Nat
    BY <1>1 DEF StudyPlanTypes, Task
  <2> QED
    BY <1>1, <1>2, <1>3, <2>1 DEF Rows, RowsOf, ItemsOf
<1>6. AllSound'
  <2>1. \A p \in DOMAIN plans : Sound(ItemsOf(p)) <=> Sound(ItemsOf(p))'
    BY <1>2 DEF Sound, DayFits, PlannedOn, Planned, MinutesOn, MinutesOfItem, ItemsOf
  <2> QED
    BY <1>1, <1>2, <2>1 DEF AllSound
<1>7. OneActivePlan'
  BY <1>1, <1>2 DEF OneActivePlan, ActivePlans, Active, Doing
<1>8. Covered'
  BY <1>1, <1>2 DEF Covered, NoRefresh, CoversTask, Active
<1>9. Quiet'
  BY <1>1, <1>2 DEF Quiet, QuietTask, PendingOnceIn, ItemsOf, ActivePlans, Active
<1>10. Replanned'
  BY <1>1, <1>2, <1>3 DEF Replanned, ReplansAfter, Active, ItemsOf
<1> QED
  BY <1>4, <1>5, <1>6, <1>7, <1>8, <1>9, <1>10 DEF StudyPlanInv, StudyPlanTypeOK

LEMMA NothingSound == Sound(<<>>)
<1>1. DailyGoal + DrillMinutes \in Nat /\ 0 <= DailyGoal + DrillMinutes
  BY StudyPlanAssumption
<1>2. \A d \in Int : DayFits(<<>>, d)
  BY <1>1, MinutesOfNone DEF DayFits
<1>3. Planned(<<>>) = {} /\ 0 \in Int
  BY DEF Planned
<1> QED
  BY <1>2, <1>3 DEF Sound

LEMMA CreateKeeps ==
  ASSUME StudyPlanInv, NEW w \in Slots, Create(w)
  PROVE  StudyPlanInv'
<1>1. /\ StudyPlanTypes /\ Rows /\ AllSound /\ OneActivePlan /\ Covered /\ Quiet /\ Replanned
      /\ task[w] \in Task /\ task[w].pc = "create" /\ w \in Creators
  BY DEF StudyPlanInv, StudyPlanTypeOK, StudyPlanTypes, Create, Created, Doing, Creators
<1>2. PICK by : by = task[w].by
  OBVIOUS
<1>3. PICK len : len = Len(plans)
  OBVIOUS
<1>4. /\ len \in Nat /\ DOMAIN plans = 1..len /\ plans \in Seq(Plan) /\ by \in {"api", "worker"}
      /\ day \in Nat /\ task[w].today \in Nat /\ task[w].today <= day
  BY <1>1, <1>2, <1>3 DEF StudyPlanTypes, Task, Rows, RowsOf
<1>5. PICK row : row = [status |-> "ACTIVE", by |-> by, exams |-> {}, filled |-> FALSE,
                        items |-> <<>>]
  OBVIOUS
<1>6. row \in Plan /\ row.items = <<>> /\ row.by = by /\ ~row.filled /\ row.status = "ACTIVE"
  <2>1. <<>> \in Seq(Item)
    OBVIOUS
  <2> QED
    BY <1>4, <1>5, <2>1 DEF Plan
<1>7. PICK r : r = [task[w] EXCEPT !.pc = IF by = "api" THEN "rights" ELSE "finished",
                                  !.plan = len + 1]
  OBVIOUS
<1>8. /\ r \in Task /\ r.plan = len + 1 /\ r.by = by /\ r.todo = task[w].todo
      /\ r.today = task[w].today /\ r.pc = IF by = "api" THEN "rights" ELSE "finished"
  <2>1. PICK old \in Task : old = task[w]
    BY <1>1
  <2>2. PICK pc \in Places : pc = IF by = "api" THEN "rights" ELSE "finished"
    BY DEF Places
  <2>3. r = [old EXCEPT !.pc = pc, !.plan = len + 1] /\ len + 1 \in Nat
    BY <1>4, <1>7, <2>1, <2>2
  <2>4. /\ r.pc = pc /\ r.plan = len + 1 /\ r.by = old.by /\ r.todo = old.todo
        /\ r.today = old.today
    BY <2>3 DEF Task
  <2>5. r \in Task
    BY <2>3 DEF Task
  <2> QED
    BY <1>2, <2>1, <2>2, <2>4, <2>5
<1>9. /\ plans' = Append(plans, row) /\ task' = [task EXCEPT ![w] = r]
      /\ replans' = IF by = "worker" THEN Append(replans, day) ELSE replans
      /\ UNCHANGED <<target, entitled, completed, day, claims, movedBack, raced, died, allowed>>
  BY <1>2, <1>3, <1>5, <1>7 DEF Create, Created, student
<1>10. \A v \in Slots : task'[v] = IF v = w THEN r ELSE task[v]
  BY <1>1, <1>9 DEF StudyPlanTypes
<1>11. /\ plans' \in Seq(Plan) /\ DOMAIN plans' = 1..(len + 1) /\ plans'[len + 1] = row
       /\ \A p \in DOMAIN plans : p \in DOMAIN plans' /\ p # len + 1 /\ plans'[p] = plans[p]
       /\ \A p \in DOMAIN plans' : p \in DOMAIN plans \/ p = len + 1
  <2>1. /\ plans' \in Seq(Plan) /\ Len(plans') = len + 1 /\ plans'[len + 1] = row
        /\ \A p \in 1..len : plans'[p] = plans[p]
    BY <1>3, <1>4, <1>6, <1>9, AppendProperties
  <2>2. DOMAIN plans' = 1..(len + 1)
    BY <2>1
  <2> QED
    BY <1>4, <2>1, <2>2
<1>12. \A p \in DOMAIN plans : Active(p)' <=> Active(p)
  BY <1>11 DEF Active
<1>13. StudyPlanTypes'
  <2>1. replans' \in Seq(Nat)
    BY <1>1, <1>4, <1>9 DEF StudyPlanTypes
  <2> QED
    BY <1>1, <1>8, <1>9, <1>11, <2>1 DEF StudyPlanTypes
<1>14. Rows'
  <2>1. ASSUME NEW v \in Slots PROVE RowsOf(task[v])'
    <3>1. CASE v = w
      <4>1. r.todo \subseteq DOMAIN plans
        BY <1>1, <1>8 DEF Rows, RowsOf
      <4>2. len + 1 \in DOMAIN plans'
        BY <1>4, <1>11
      <4> QED
        BY <1>4, <1>6, <1>8, <1>9, <1>10, <1>11, <3>1, <4>1, <4>2 DEF RowsOf, GenPcs
    <3>2. CASE v # w
      <4>1. RowsOf(task[v]) /\ task'[v] = task[v]
        BY <1>1, <1>10, <3>2 DEF Rows
      <4> QED
        BY <1>9, <1>11, <4>1 DEF RowsOf, ItemsOf
    <3> QED
      BY <3>1, <3>2
  <2>2. \A v \in Slots : v # w /\ task[v].pc \in GenPcs => task[v].plan # len + 1
    BY <1>1, <1>11 DEF Rows, RowsOf
  <2>3. \A u, v \in Slots : task'[v].pc \in GenPcs /\ task'[u].pc \in GenPcs
                                /\ task'[v].plan = task'[u].plan => v = u
    BY <1>1, <1>8, <1>10, <2>2 DEF Rows
  <2>4. \A p \in DOMAIN plans' : ~plans'[p].filled => ItemsOf(p)' = <<>>
    BY <1>1, <1>6, <1>11 DEF Rows, ItemsOf
  <2> QED
    BY <2>1, <2>3, <2>4 DEF Rows
<1>15. AllSound'
  <2>1. ASSUME NEW p \in DOMAIN plans' PROVE Sound(ItemsOf(p)')
    <3>1. CASE p \in DOMAIN plans
      BY <1>1, <1>11, <3>1 DEF AllSound, ItemsOf
    <3>2. CASE p = len + 1
      BY <1>6, <1>11, <3>2, NothingSound DEF ItemsOf
    <3> QED
      BY <1>11, <3>1, <3>2
  <2>2. AllSound' <=> \A p \in DOMAIN plans' : Sound(ItemsOf(p)')
    BY DEF AllSound, Sound, DayFits, PlannedOn, Planned, MinutesOn, MinutesOfItem, ItemsOf
  <2> QED
    BY <2>1, <2>2
<1>16. /\ ActivePlans' = ActivePlans \cup {len + 1} /\ len + 1 \notin ActivePlans
       /\ Creators' = Creators \ {w}
  <2>1. ActivePlans' = ActivePlans \cup {len + 1} /\ len + 1 \notin ActivePlans
    BY <1>4, <1>6, <1>11, <1>12 DEF ActivePlans, Active
  <2>2. Creators' = Creators \ {w}
    BY <1>8, <1>10 DEF Creators, Doing
  <2> QED
    BY <2>1, <2>2
<1>17. OneActivePlan'
  <2>1. Cardinality(ActivePlans') = Cardinality(ActivePlans) + 1
    BY <1>1, <1>16, ActivePlansFinite, FS_AddElement
  <2>2. Cardinality(Creators') = Cardinality(Creators) - 1
    BY <1>1, <1>16, CreatorsFinite, FS_RemoveElement
  <2>3. Cardinality(ActivePlans') + Cardinality(Creators')
          = Cardinality(ActivePlans) + Cardinality(Creators)
    BY <1>1, <2>1, <2>2, ActivePlansFinite, CreatorsFinite
  <2>4. /\ Creators = {v \in Slots : Doing(v, "create")}
        /\ Creators' = {v \in Slots : Doing(v, "create")'}
    BY DEF Creators
  <2> QED
    BY <1>1, <1>9, <2>3, <2>4 DEF OneActivePlan
<1>18. Covered'
  <2>1. SUFFICES ASSUME ~died, NoRefresh'
        PROVE  /\ \A p \in DOMAIN plans' :
                    Active(p)' /\ plans'[p].filled /\ plans'[p].by = "api"
                      => entitled' \subseteq plans'[p].exams
               /\ \A v \in Slots : CoversTask(task[v])'
    BY <1>9 DEF Covered
  <2>2. NoRefresh
    BY <1>1, <1>10, <2>1 DEF NoRefresh
  <2>3. \A p \in DOMAIN plans' :
           Active(p)' /\ plans'[p].filled /\ plans'[p].by = "api"
             => entitled' \subseteq plans'[p].exams
    BY <1>1, <1>6, <1>9, <1>11, <1>12, <2>1, <2>2 DEF Covered
  <2>4. ASSUME NEW v \in Slots PROVE CoversTask(task[v])'
    <3>1. CASE v = w
      BY <1>4, <1>8, <1>10, <3>1 DEF CoversTask
    <3>2. CASE v # w
      <4>1. RowsOf(task[v]) /\ CoversTask(task[v]) /\ task'[v] = task[v]
        BY <1>1, <1>10, <2>1, <2>2, <3>2 DEF Rows, Covered
      <4>2. task[v].pc \in {"finished", "fill"} => task[v].plan \in DOMAIN plans
        BY <4>1 DEF RowsOf, GenPcs
      <4> QED
        BY <1>9, <1>12, <4>1, <4>2 DEF CoversTask
    <3> QED
      BY <3>1, <3>2
  <2> QED
    BY <2>3, <2>4
<1>19. Quiet'
  <2>1. SUFFICES ASSUME ~raced
        PROVE  /\ \A v, u \in Slots : task'[v].pc # "idle" /\ task'[u].pc # "idle" => v = u
               /\ \A v \in Slots : QuietTask(task[v])'
               /\ \A p \in DOMAIN plans' : PendingOnceIn(ItemsOf(p))'
    BY <1>9 DEF Quiet
  <2>2. (\A v \in Slots : v # w => task[v].pc = "idle") /\ QuietTask(task[w])
    BY <1>1, <2>1 DEF Quiet
  <2>3. \A v, u \in Slots : task'[v].pc # "idle" /\ task'[u].pc # "idle" => v = u
    BY <1>10, <2>2
  <2>4. ASSUME NEW v \in Slots PROVE QuietTask(task[v])'
    <3>1. CASE v = w
      <4>1. r.todo = {} /\ r.pc \in {"rights", "finished"}
        BY <1>1, <1>8, <2>2 DEF QuietTask
      <4> QED
        BY <1>10, <3>1, <4>1 DEF QuietTask
    <3>2. CASE v # w
      BY <1>10, <2>2, <3>2 DEF QuietTask
    <3> QED
      BY <3>1, <3>2
  <2>5. ASSUME NEW p \in DOMAIN plans' PROVE PendingOnceIn(ItemsOf(p))'
    <3>1. PendingOnceIn(ItemsOf(p)')
      <4>1. CASE p \in DOMAIN plans
        BY <1>1, <1>11, <2>1, <4>1 DEF Quiet, ItemsOf
      <4>2. CASE p = len + 1
        BY <1>6, <1>11, <4>2 DEF PendingOnceIn, ItemsOf
      <4> QED
        BY <1>11, <4>1, <4>2
    <3> QED
      BY <3>1 DEF PendingOnceIn
  <2> QED
    BY <2>3, <2>4, <2>5
<1>20. Replanned'
  <2>1. SUFFICES ASSUME ~raced, ~movedBack
        PROVE  /\ IsInjective(replans')
               /\ \A k \in DOMAIN replans' : replans'[k] <= day
               /\ \A p \in DOMAIN plans' : Active(p)' => ItemsOf(p)' = <<>>
               /\ \A v \in Slots : ReplansAfter(task[v])'
    BY <1>9 DEF Replanned, IsInjective
  <2>2. ActivePlans = {}
    <3>1. Cardinality(Creators) \in Nat \ {0}
      BY <1>1, CreatorsFinite, AtMostOne
    <3>2. Cardinality(ActivePlans) = 0
      BY <1>1, <2>1, <3>1, ActivePlansFinite DEF OneActivePlan, Creators
    <3> QED
      BY <1>1, <3>2, ActivePlansFinite, FS_EmptySet
  <2>3. \A p \in DOMAIN plans' : Active(p)' => ItemsOf(p)' = <<>>
    BY <1>6, <1>11, <1>12, <2>2 DEF ActivePlans, ItemsOf
  <2>4. ASSUME NEW v \in Slots PROVE ReplansAfter(task[v])'
    <3>1. task'[v].pc \notin {"abandon", "create"}
      BY <1>1, <1>8, <1>10, <2>1 DEF Quiet
    <3> QED
      BY <3>1 DEF ReplansAfter
  <2>5. IsInjective(replans') /\ \A k \in DOMAIN replans' : replans'[k] <= day
    <3>1. IsInjective(replans) /\ (\A k \in DOMAIN replans : replans[k] <= day)
            /\ ReplansAfter(task[w]) /\ replans \in Seq(Nat)
      BY <1>1, <2>1 DEF Replanned, StudyPlanTypes
    <3>2. CASE by = "api"
      BY <1>9, <3>1, <3>2
    <3>3. CASE by = "worker"
      <4>1. \A k \in DOMAIN replans : replans[k] < task[w].today
        BY <1>1, <1>2, <3>1, <3>3 DEF ReplansAfter
      <4>2. /\ Len(replans) \in Nat /\ DOMAIN replans = 1..Len(replans)
            /\ \A k \in DOMAIN replans : replans[k] \in Nat
        BY <3>1
      <4>3. \A k \in DOMAIN replans : replans[k] < day
        BY <1>4, <4>1, <4>2
      <4>4. /\ DOMAIN replans' = 1..(Len(replans) + 1) /\ replans'[Len(replans) + 1] = day
            /\ \A k \in 1..Len(replans) : replans'[k] = replans[k]
        <5>1. replans' = Append(replans, day)
          BY <1>9, <3>3
        <5>2. /\ Len(Append(replans, day)) = Len(replans) + 1
              /\ Append(replans, day)[Len(replans) + 1] = day
              /\ \A k \in 1..Len(replans) : Append(replans, day)[k] = replans[k]
              /\ Append(replans, day) \in Seq(Nat)
          BY <1>4, <3>1, AppendProperties
        <5> QED
          BY <5>1, <5>2
      <4>5. \A k \in DOMAIN replans' : replans'[k] <= day
        BY <1>4, <4>2, <4>3, <4>4
      <4>6. \A j, k \in DOMAIN replans' : replans'[j] = replans'[k] => j = k
        BY <1>4, <3>1, <4>2, <4>3, <4>4 DEF IsInjective
      <4> QED
        BY <4>5, <4>6 DEF IsInjective
    <3> QED
      BY <1>4, <3>2, <3>3
  <2> QED
    BY <2>3, <2>4, <2>5
<1> QED
  BY <1>13, <1>14, <1>15, <1>17, <1>18, <1>19, <1>20 DEF StudyPlanInv, StudyPlanTypeOK

LEMMA StudyPlanInitHolds == StudyPlanInit => StudyPlanInv
<1> SUFFICES ASSUME StudyPlanInit PROVE StudyPlanInv
  OBVIOUS
<1>1. /\ plans = <<>> /\ target \in Exams /\ entitled = {} /\ completed = {}
      /\ day = 0 /\ claims = {} /\ replans = <<>> /\ movedBack = FALSE /\ raced = FALSE
      /\ died = FALSE /\ allowed \in [Events -> Nat] /\ DOMAIN plans = {} /\ DOMAIN replans = {}
  BY StudyPlanAssumption DEF StudyPlanInit
<1>2. \A w \in Slots : task[w] = NoTask
  BY DEF StudyPlanInit
<1>3. StudyPlanTypes
  <2>1. task \in [Slots -> Task]
    BY <1>2, NoTaskFields DEF StudyPlanInit
  <2>2. plans \in Seq(Plan) /\ replans \in Seq(Nat)
    BY <1>1
  <2>3. day \in Nat /\ claims \subseteq Nat \X Nat /\ completed \subseteq LessonSet
    BY <1>1
  <2> QED
    BY <1>1, <2>1, <2>2, <2>3 DEF StudyPlanTypes
<1>4. \A w \in Slots : RowsOf(task[w]) /\ QuietTask(task[w]) /\ CoversTask(task[w])
                         /\ ReplansAfter(task[w]) /\ task[w].pc = "idle"
  BY <1>2, <1>3, NoTaskRows, NoTaskFields
<1>5. Rows
  BY <1>1, <1>4 DEF Rows, GenPcs
<1>6. OneActivePlan
  <2>1. ActivePlans = {}
    BY <1>1 DEF ActivePlans
  <2>2. {w \in Slots : Doing(w, "create")} = {}
    BY <1>4 DEF Doing
  <2>3. Cardinality({}) = 0
    BY FS_EmptySet
  <2>4. Cardinality(ActivePlans) = 0 /\ Cardinality({w \in Slots : Doing(w, "create")}) = 0
    BY <2>1, <2>2, <2>3, Zenon
  <2> HIDE <2>2
  <2>5. ~raced /\ Cardinality(ActivePlans) + Cardinality({w \in Slots : Doing(w, "create")}) <= 1
    BY <1>1, <2>4
  <2> QED
    BY <2>5 DEF OneActivePlan
<1>7. AllSound /\ Covered /\ Quiet /\ Replanned
  BY <1>1, <1>4 DEF AllSound, Covered, Quiet, Replanned, IsInjective
<1> QED
  BY <1>3, <1>5, <1>6, <1>7 DEF StudyPlanInv, StudyPlanTypeOK

LEMMA StudyPlanNextKeeps == StudyPlanInv /\ [StudyPlanNext]_studyPlanVars => StudyPlanInv'
<1> SUFFICES ASSUME StudyPlanInv, [StudyPlanNext]_studyPlanVars PROVE StudyPlanInv'
  OBVIOUS
<1>1. CASE Tick
  BY <1>1, TickKeeps
<1>2. ASSUME NEW w \in Slots, Read(w) \/ Regenerate(w)
      PROVE  StudyPlanInv'
  BY <1>2, ReadKeeps
<1>3. ASSUME NEW w \in Slots, GenerateForGoal(w)
      PROVE  StudyPlanInv'
  BY <1>3, GenerateForGoalKeeps
<1>4. ASSUME NEW w \in Slots, NEW e \in Exams, SetGoal(w, e) \/ Buy(w, e)
      PROVE  StudyPlanInv'
  BY <1>4, SetGoalKeeps, BuyKeeps
<1>5. ASSUME NEW w \in Slots, Abandon(w) \/ Create(w) \/ ReadRights(w) \/ ReadFinished(w)
      PROVE  StudyPlanInv'
  BY <1>5, AbandonKeeps, CreateKeeps, ReadRightsKeeps, ReadFinishedKeeps
<1>6. ASSUME NEW w \in Slots, NEW h \in 1..PlanDays, NEW drills \in BOOLEAN,
         Fill(w, h, drills)
      PROVE  StudyPlanInv'
  BY <1>6, FillKeeps
<1>7. ASSUME NEW w \in Slots, Refresh(w) \/ Mark(w) \/ WriteProgress(w)
      PROVE  StudyPlanInv'
  BY <1>7, RefreshKeeps, MarkKeeps, WriteProgressKeeps
<1>8. ASSUME NEW w \in Slots, NEW p \in DOMAIN plans, NEW i \in DOMAIN ItemsOf(p),
             \/ ReadPending(w, p, i)
             \/ \E s \in {"DONE", "SKIPPED"} : ReadItem(w, p, i, s)
      PROVE  StudyPlanInv'
  BY <1>8, ReadPendingKeeps, ReadItemKeeps
<1>9. ASSUME NEW w \in Slots, NEW d \in {day - 1, day, day + 1}, Move(w, d)
      PROVE  StudyPlanInv'
  BY <1>9, MoveKeeps
<1>10. ASSUME NEW w \in Slots, NEW l \in LessonSet, NEW c \in BOOLEAN, ReadProgress(w, l, c)
       PROVE  StudyPlanInv'
  BY <1>10, ReadProgressKeeps
<1>11. ASSUME NEW w \in Slots, Sweep(w) \/ MarkMissed(w) \/ Judge(w) \/ Die(w)
       PROVE  StudyPlanInv'
  BY <1>11, SweepKeeps, MarkMissedKeeps, JudgeKeeps, DieKeeps
<1>12. ASSUME NEW w \in Slots, NEW p \in task[w].todo, Claim(w, p)
       PROVE  StudyPlanInv'
  BY <1>12, ClaimKeeps
<1>13. CASE UNCHANGED studyPlanVars
  <2>1. /\ UNCHANGED <<plans, target, entitled, completed, day, claims, task, allowed>>
        /\ UNCHANGED <<replans, movedBack, raced, died>>
    BY <1>13 DEF studyPlanVars, student, history
  <2>2. \A p \in DOMAIN plans : Sound(ItemsOf(p)) <=> Sound(ItemsOf(p))'
    BY <2>1 DEF Sound, DayFits, PlannedOn, Planned, MinutesOn, MinutesOfItem, ItemsOf
  <2>3. AllSound'
    BY <2>1, <2>2 DEF AllSound, StudyPlanInv
  <2>4. (StudyPlanTypes /\ Rows)'
    BY <2>1 DEF StudyPlanInv, StudyPlanTypeOK, StudyPlanTypes, Rows, RowsOf, ItemsOf
  <2>5. (OneActivePlan /\ Covered)'
    BY <2>1 DEF StudyPlanInv, OneActivePlan, ActivePlans, Active, Doing, Covered, NoRefresh, CoversTask
  <2>6. Quiet'
    BY <2>1 DEF StudyPlanInv, Quiet, QuietTask, PendingOnceIn, ItemsOf, ActivePlans, Active
  <2>7. Replanned'
    BY <2>1 DEF StudyPlanInv, Replanned, ReplansAfter, Active, ItemsOf
  <2> QED
    BY <2>3, <2>4, <2>5, <2>6, <2>7 DEF StudyPlanInv, StudyPlanTypeOK
<1>14. CASE StudyPlanNext
  BY <1>1, <1>2, <1>3, <1>4, <1>5, <1>6, <1>7, <1>8, <1>9, <1>10, <1>11, <1>12, <1>14 DEF StudyPlanNext
<1> QED
  BY <1>13, <1>14

LEMMA StudyPlanInvariantHolds == StudyPlanSpec => []StudyPlanInv
BY StudyPlanInitHolds, StudyPlanNextKeeps, PTL DEF StudyPlanSpec

\* The rows keep their shape, and every task works with rows that are there.
THEOREM StudyPlanTypeCorrect == StudyPlanSpec => []StudyPlanTypeOK
<1>1. StudyPlanInv => StudyPlanTypeOK
  BY DEF StudyPlanInv
<1> QED
  BY <1>1, StudyPlanInvariantHolds, PTL

\* Generations and sweeps that do not overlap leave one ACTIVE plan, each lesson
\* pending at most once, and one rebuild a day; generations that do overlap leave
\* no more ACTIVE plans than there are slots.
THEOREM PlansAreSteadyHolds == StudyPlanSpec => []PlansAreSteady
<1>1. StudyPlanInv => PlansAreSteady
  <2> SUFFICES ASSUME StudyPlanInv PROVE PlansAreSteady
    OBVIOUS
  <2>1. PendingOnce
    BY DEF StudyPlanInv, Quiet, PendingOnceIn, PendingOnce, ActivePlans
  <2>2. OneActivePlan /\ ReplannedOnceADay
    BY DEF StudyPlanInv, Replanned, ReplannedOnceADay
  <2> QED
    BY <2>1, <2>2 DEF PlansAreSteady
<1> QED
  BY <1>1, StudyPlanInvariantHolds, PTL

\* A plan the API has filled covers what the student has paid for, and no plan
\* exceeds its days or the minutes of a day, whatever the lessons.
THEOREM GeneratedPlansAreRightHolds == StudyPlanSpec => []GeneratedPlansAreRight
<1>1. StudyPlanInv => GeneratedPlansAreRight
  <2> SUFFICES ASSUME StudyPlanInv PROVE GeneratedPlansAreRight
    OBVIOUS
  <2>1. ApiPlanCoversPurchases
    <3>1. SUFFICES ASSUME ~died, \A w \in Slots : ~Doing(w, "refresh")
                   PROVE  \A p \in ActivePlans :
                            plans[p].filled /\ plans[p].by = "api" => entitled \subseteq plans[p].exams
      BY DEF ApiPlanCoversPurchases
    <3>2. NoRefresh
      BY <3>1 DEF NoRefresh, Doing
    <3> QED
      BY <3>1, <3>2 DEF StudyPlanInv, Covered, ActivePlans
  <2>2. ASSUME NEW p \in DOMAIN plans PROVE FitsDays(ItemsOf(p))
    <3>1. ItemsOf(p) \in Seq(Item)
      BY ItemsType DEF StudyPlanInv, StudyPlanTypeOK
    <3>2. Sound(ItemsOf(p))
      BY DEF StudyPlanInv, AllSound
    <3> QED
      BY <3>1, <3>2, SoundFitsDays
  <2> QED
    BY <2>1, <2>2 DEF GeneratedPlansAreRight, PlanFitsDays
<1> QED
  BY <1>1, StudyPlanInvariantHolds, PTL

-----------------------------------------------------------------------------
(* What is done is kept. *)

DoneIsKept ==
  \A p \in DOMAIN plans : \A i \in DOMAIN ItemsOf(p) :
    ItemsOf(p)[i].status = "DONE"
      => \/ plans'[p].items[i].status \in {"DONE", "SKIPPED"}
         \/ raced /\ plans'[p].items[i].status = "RESCHEDULED"

LEMMA ItemsWritten ==
  ASSUME StudyPlanTypes, NEW p \in DOMAIN plans, NEW items,
         plans' = [plans EXCEPT ![p] = [plans[p] EXCEPT !.items = items]]
  PROVE  \A x \in DOMAIN plans : plans'[x].items = IF x = p THEN items ELSE ItemsOf(x)
<1>1. PICK row : row = [plans[p] EXCEPT !.items = items]
  OBVIOUS
<1>2. row.items = items
  BY <1>1, ItemsType DEF Plan
<1>3. plans' = [plans EXCEPT ![p] = row]
  BY <1>1
<1> QED
  BY <1>2, <1>3 DEF ItemsOf

LEMMA MarkKeepsDone ==
  ASSUME StudyPlanInv, NEW w \in Slots, Mark(w)
  PROVE  DoneIsKept
<1>1. StudyPlanTypes /\ Rows /\ task[w].pc = "mark" /\ task[w] \in Task
  BY DEF StudyPlanInv, StudyPlanTypeOK, Mark, Doing, StudyPlanTypes
<1>2. PICK p : p = task[w].plan
  OBVIOUS
<1>3. PICK n : n = task[w].item
  OBVIOUS
<1>4. PICK s \in {"DONE", "SKIPPED"} : s = task[w].set
  BY <1>1 DEF Task
<1>5. p \in DOMAIN plans /\ n \in DOMAIN ItemsOf(p)
  BY <1>1, <1>2, <1>3 DEF Rows, RowsOf
<1>6. PICK items : items = [ItemsOf(p) EXCEPT ![n] = [@ EXCEPT !.status = s]]
  OBVIOUS
<1>7. plans' = [plans EXCEPT ![p] = [plans[p] EXCEPT !.items = items]]
  BY <1>2, <1>3, <1>4, <1>6 DEF Mark, ItemsOf
<1>8. \A x \in DOMAIN plans : plans'[x].items = IF x = p THEN items ELSE ItemsOf(x)
  BY <1>1, <1>5, <1>7, ItemsWritten
<1>9. \A i \in DOMAIN ItemsOf(p) : items[i].status = IF i = n THEN s ELSE ItemsOf(p)[i].status
  <2>1. ItemsOf(p)[n] \in Item
    BY <1>1, <1>5, ItemsType
  <2>2. PICK y : y = [ItemsOf(p)[n] EXCEPT !.status = s]
    OBVIOUS
  <2>3. y.status = s
    BY <2>1, <2>2 DEF Item
  <2> QED
    BY <1>5, <1>6, <2>2, <2>3
<1> QED
  BY <1>8, <1>9 DEF DoneIsKept

LEMMA MarkMissedKeepsDone ==
  ASSUME StudyPlanInv, NEW w \in Slots, MarkMissed(w)
  PROVE  DoneIsKept
<1>1. StudyPlanTypes /\ Rows /\ task[w].pc = "missed"
  BY DEF StudyPlanInv, StudyPlanTypeOK, MarkMissed, Doing
<1>2. PICK p : p = task[w].plan
  OBVIOUS
<1>3. PICK today : today = task[w].today
  OBVIOUS
<1>5. p \in DOMAIN plans
  BY <1>1, <1>2 DEF Rows, RowsOf
<1>6. PICK items : items = [i \in DOMAIN ItemsOf(p) |->
                              IF Overdue(ItemsOf(p)[i], today)
                              THEN [ItemsOf(p)[i] EXCEPT !.status = "MISSED"] ELSE ItemsOf(p)[i]]
  OBVIOUS
<1>7. plans' = [plans EXCEPT ![p] = [plans[p] EXCEPT !.items = items]]
  BY <1>2, <1>3, <1>6 DEF MarkMissed, ItemsOf
<1>8. \A x \in DOMAIN plans : plans'[x].items = IF x = p THEN items ELSE ItemsOf(x)
  BY <1>1, <1>5, <1>7, ItemsWritten
<1>9. \A i \in DOMAIN ItemsOf(p) : ItemsOf(p)[i].status = "DONE" => items[i].status = "DONE"
  BY <1>6 DEF Overdue
<1> QED
  BY <1>8, <1>9 DEF DoneIsKept

LEMMA MoveKeepsDone ==
  ASSUME StudyPlanInv, NEW w \in Slots, NEW d \in {day - 1, day, day + 1}, Move(w, d)
  PROVE  DoneIsKept
<1>1. StudyPlanTypes /\ Rows /\ Quiet /\ task[w].pc = "move"
  BY DEF StudyPlanInv, StudyPlanTypeOK, Move, Doing
<1>2. PICK p : p = task[w].plan
  OBVIOUS
<1>3. PICK n : n = task[w].item
  OBVIOUS
<1>5. p \in DOMAIN plans /\ n \in DOMAIN ItemsOf(p)
  BY <1>1, <1>2, <1>3 DEF Rows, RowsOf
<1>6. PICK closed : closed = [ItemsOf(p) EXCEPT ![n].status = "RESCHEDULED"]
  OBVIOUS
<1>7. PICK x : x = [ItemsOf(p)[n] EXCEPT !.day = d, !.status = "PENDING", !.from = n]
  OBVIOUS
<1>8. plans' = [plans EXCEPT ![p] = [plans[p] EXCEPT !.items = Append(closed, x)]]
  <2>1. plans' = [plans EXCEPT ![p].items =
                    Append([@ EXCEPT ![n].status = "RESCHEDULED"],
                           [ItemsOf(p)[n] EXCEPT !.day = d, !.status = "PENDING", !.from = n])]
    BY <1>2, <1>3 DEF Move
  <2> QED
    BY <1>6, <1>7, <2>1 DEF ItemsOf
<1>9. \A y \in DOMAIN plans : plans'[y].items = IF y = p THEN Append(closed, x) ELSE ItemsOf(y)
  BY <1>1, <1>5, <1>8, ItemsWritten
<1>10. ItemsOf(p) \in Seq(Item) /\ ItemsOf(p)[n] \in Item
  BY <1>1, <1>5, ItemsType
<1>11. PICK y : y = [ItemsOf(p)[n] EXCEPT !.status = "RESCHEDULED"]
  OBVIOUS
<1>12. y \in Item /\ y.status = "RESCHEDULED"
  BY <1>10, <1>11 DEF Item, ItemStatus
<1>13. /\ closed \in Seq(Item) /\ Len(closed) = Len(ItemsOf(p))
       /\ \A i \in DOMAIN ItemsOf(p) : closed[i] = IF i = n THEN y ELSE ItemsOf(p)[i]
  BY <1>5, <1>6, <1>10, <1>11, <1>12
<1>14. \A i \in DOMAIN ItemsOf(p) : Append(closed, x)[i] = closed[i]
  <2>1. DOMAIN ItemsOf(p) = 1..Len(closed) /\ Len(closed) \in Nat
    BY <1>10, <1>13
  <2> QED
    BY <1>13, <2>1
<1>15. ~raced => ItemsOf(p)[n].status = "PENDING"
  BY <1>1, <1>2, <1>3 DEF Quiet, QuietTask
<1>16. \A i \in DOMAIN ItemsOf(p) :
         ItemsOf(p)[i].status = "DONE"
           => \/ Append(closed, x)[i].status \in {"DONE", "SKIPPED"}
              \/ raced /\ Append(closed, x)[i].status = "RESCHEDULED"
  BY <1>12, <1>13, <1>14, <1>15
<1> QED
  BY <1>9, <1>16 DEF DoneIsKept

LEMMA FillKeepsDone ==
  ASSUME StudyPlanInv, NEW w \in Slots, NEW h \in 1..PlanDays, NEW drills \in BOOLEAN,
         Fill(w, h, drills)
  PROVE  DoneIsKept
<1>1. StudyPlanTypes /\ Rows /\ task[w].pc = "fill"
  BY DEF StudyPlanInv, StudyPlanTypeOK, Fill, Doing
<1>2. PICK p : p = task[w].plan
  OBVIOUS
<1>3. p \in DOMAIN plans /\ ItemsOf(p) = <<>>
  BY <1>1, <1>2 DEF Rows, RowsOf, GenPcs
<1>4. \A x \in DOMAIN plans : x # p => plans'[x] = plans[x]
  BY <1>2, <1>3 DEF Fill
<1>5. DOMAIN ItemsOf(p) = {}
  BY <1>3
<1> QED
  BY <1>4, <1>5 DEF DoneIsKept, ItemsOf

LEMMA StepKeepsDone ==
  ASSUME StudyPlanInv, [StudyPlanNext]_studyPlanVars
  PROVE  DoneIsKept
<1>1. ASSUME \A p \in DOMAIN plans : plans'[p].items = ItemsOf(p)
      PROVE  DoneIsKept
  BY <1>1 DEF DoneIsKept
<1>2. CASE plans' = plans
  BY <1>1, <1>2 DEF ItemsOf
<1>3. ASSUME NEW w \in Slots, Abandon(w) \/ Refresh(w)
      PROVE  DoneIsKept
  <2>1. plans' = Abandoned(plans)
    BY <1>3 DEF Abandon, Refresh, Refreshed
  <2>2. StudyPlanTypes
    BY DEF StudyPlanInv, StudyPlanTypeOK
  <2> QED
    BY <1>1, <2>1, <2>2, AbandonedPlans DEF ItemsOf
<1>4. ASSUME NEW w \in Slots, Create(w)
      PROVE  DoneIsKept
  <2>1. plans \in Seq(Plan) /\ DOMAIN plans = 1..Len(plans)
    BY DEF StudyPlanInv, StudyPlanTypeOK, StudyPlanTypes
  <2>2. PICK row : plans' = Append(plans, row)
    BY <1>4 DEF Create, Created
  <2>3. \A p \in DOMAIN plans : plans'[p] = plans[p]
    BY <2>1, <2>2
  <2> QED
    BY <1>1, <2>3 DEF ItemsOf
<1>5. ASSUME NEW w \in Slots, Mark(w) \/ MarkMissed(w) \/ \E h \in 1..PlanDays, drills \in BOOLEAN : Fill(w, h, drills)
      PROVE  DoneIsKept
  BY <1>5, MarkKeepsDone, MarkMissedKeepsDone, FillKeepsDone
<1>6. ASSUME NEW w \in Slots, NEW d \in {day - 1, day, day + 1}, Move(w, d)
      PROVE  DoneIsKept
  BY <1>6, MoveKeepsDone
<1>7. CASE UNCHANGED studyPlanVars
  BY <1>2, <1>7 DEF studyPlanVars
<1>8. CASE StudyPlanNext
  <2>1. \/ plans' = plans
        \/ \E w \in Slots : Abandon(w) \/ Refresh(w)
        \/ \E w \in Slots : Create(w)
        \/ \E w \in Slots :
             Mark(w) \/ MarkMissed(w) \/ \E h \in 1..PlanDays, drills \in BOOLEAN : Fill(w, h, drills)
        \/ \E w \in Slots, d \in {day - 1, day, day + 1} : Move(w, d)
    BY <1>8 DEF StudyPlanNext, Tick, Read, Regenerate, GenerateForGoal, SetGoal, Buy, ReadRights,
                ReadFinished, ReadPending, ReadItem, ReadProgress, WriteProgress, Sweep, Claim,
                Judge, Die
  <2> QED
    BY <1>2, <1>3, <1>4, <1>5, <1>6, <2>1
<1> QED
  BY <1>7, <1>8

LEMMA StepKeepsCompleted ==
  ASSUME StudyPlanInv, [StudyPlanNext]_studyPlanVars
  PROVE  ~raced => completed \subseteq completed'
<1>1. \/ completed' = completed
      \/ \E w \in Slots : WriteProgress(w)
  BY DEF StudyPlanNext, studyPlanVars, student, Tick, Read, Regenerate, GenerateForGoal, SetGoal, Buy, Abandon,
         Create, ReadRights, ReadFinished, Fill, Refresh, ReadPending, ReadItem, Mark, Move,
         ReadProgress, Sweep, Claim, MarkMissed, Judge, Die
<1>2. ASSUME ~raced, NEW w \in Slots, WriteProgress(w)
      PROVE  completed \subseteq completed'
  <2>1. ~task[w].completes => task[w].lesson \notin completed
    BY <1>2 DEF StudyPlanInv, Quiet, QuietTask, WriteProgress, Doing
  <2> QED
    BY <1>2, <2>1 DEF WriteProgress
<1> QED
  BY <1>1, <1>2

\* No sweep, generation or purchase takes back what the student has done, and
\* without overlapping requests nothing does.
THEOREM WorkIsKeptHolds == StudyPlanSpec => WorkIsKept
<1>1. StudyPlanInv /\ [StudyPlanNext]_studyPlanVars => DoneIsKept
  BY StepKeepsDone
<1>2. StudyPlanInv /\ [StudyPlanNext]_studyPlanVars => (~raced => completed \subseteq completed')
  BY StepKeepsCompleted
<1>3. StudyPlanSpec => DoneStaysDone
  <2>1. StudyPlanInv /\ [StudyPlanNext]_studyPlanVars => [DoneIsKept]_studyPlanVars
    BY <1>1
  <2> QED
    BY <2>1, StudyPlanInvariantHolds, PTL DEF StudyPlanSpec, DoneStaysDone, DoneIsKept
<1>4. StudyPlanSpec => CompletionIsSticky
  <2>1. StudyPlanInv /\ [StudyPlanNext]_studyPlanVars => [~raced => completed \subseteq completed']_studyPlanVars
    BY <1>2
  <2> QED
    BY <2>1, StudyPlanInvariantHolds, PTL DEF StudyPlanSpec, CompletionIsSticky
<1> QED
  BY <1>3, <1>4 DEF WorkIsKept
=============================================================================
