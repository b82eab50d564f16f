---------------------------- MODULE SignInProofs ----------------------------
(* Theorems about SignIn, for every value of its constants. *)
EXTENDS SignIn, SequenceTheorems, FiniteSetTheorems, TLAPS

Busy(w) == job[w].pc # "idle"

\* Until requests overlap there is one at a time.
Alone == ~raced => \A v, w \in Workers : Busy(v) /\ Busy(w) => v = w

\* A family is named after its first session.
RowsOK ==
  /\ Len(sessions) <= MaxRows /\ Len(codes) <= MaxRows
  /\ \A n \in 1..Len(sessions) : sessions[n].family <= n
  /\ reused \subseteq 1..Len(sessions)

\* A request that refreshes keeps to the family of the token it was given.
JobOK(w) ==
  /\ job[w].family # 0 =>
       /\ job[w].pc \in {"rotate", "reuse", "family", "issue", "limit"}
       /\ job[w].row \in 1..Len(sessions) /\ sessions[job[w].row].family = job[w].family
  /\ job[w].pc \in {"rotate", "reuse", "family"} => job[w].family # 0
  /\ job[w].pc \in {"miss", "consume"} => job[w].row \in 1..Len(codes)
  /\ job[w].next \in {"idle", "trust", "settle"}

JobsOK == \A w \in Workers : JobOK(w)

\* Until requests overlap: the families, the one-time codes and the codes of
\* the authenticator, ...
Families ==
  /\ \A m, n \in Active(sessions) : sessions[m].family = sessions[n].family => m = n
  /\ \A n \in Active(sessions) : sessions[n].family \notin reused

CodesOK ==
  /\ \A c \in Rows : consumed[c] = IF c \in 1..Len(codes) /\ codes[c].consumed THEN 1 ELSE 0
  /\ \A c \in 1..Len(codes) : codes[c].attempts <= MaxAttempts

InReach(code, s) == code - s <= Tolerance /\ s - code <= Tolerance

StampsOK ==
  /\ \A n \in 1..Len(accepted) :
       accepted[n].at <= lastUsed /\ InReach(accepted[n].code, accepted[n].at)
  /\ \A m, n \in 1..Len(accepted) : m < n => accepted[m].at < accepted[n].at

\* ... and what the request that runs has read, which still holds.
StillTrue(w) ==
  /\ job[w].pc = "rotate" => sessions[job[w].row].status = "ACTIVE"
  /\ job[w].pc = "issue" /\ job[w].family # 0 =>
       /\ \A n \in Active(sessions) : sessions[n].family # job[w].family
       /\ job[w].family \notin reused
  /\ job[w].pc = "consume" => ~codes[job[w].row].consumed
  /\ job[w].pc = "miss" => codes[job[w].row].attempts < MaxAttempts
  /\ job[w].pc = "stamp" => job[w].row > lastUsed /\ InReach(job[w].code, job[w].row)

\* Until requests overlap or die: the lock, the codes that were tried, ...
Paid == locked \/ guesses.codes <= (MaxFailures - 1) * guesses.passed + wrong
LockOK == failed < MaxFailures /\ (locked => failed = 0) /\ Paid

Careful(w) ==
  /\ job[w].pc = "issue" /\ job[w].family # 0 => sessions[job[w].row].opened # "before"
  /\ job[w].pc \in {"bump", "totp"} => ~locked /\ job[w].read = failed
  /\ job[w].pc \in {"clear", "unlock"} => ~locked
  /\ job[w].pc \in {"expire", "fail"} => ~locked /\ wrong = job[w].read + 1

\* ... and what holds except between two statements of one request.
CleanSessions == \A n \in Active(sessions) : sessions[n].opened # "before"
CleanDevices == \A n \in Active(devices) : devices[n].opened # "before"
Counted == locked \/ wrong = failed

Between(w) ==
  /\ job[w].pc = "ends" \/ CleanSessions
  /\ job[w].pc \in {"ends", "forget"} \/ CleanDevices
  /\ job[w].pc \in {"expire", "fail"} \/ Counted

Accounted ==
  /\ CleanSessions \/ \E w \in Workers : job[w].pc = "ends"
  /\ CleanDevices \/ \E w \in Workers : job[w].pc \in {"ends", "forget"}
  /\ Counted \/ \E w \in Workers : job[w].pc \in {"expire", "fail"}

UpToDate ==
  /\ ~raced => Families /\ CodesOK /\ StampsOK /\ \A w \in Workers : StillTrue(w)
  /\ ~raced /\ ~died => LockOK /\ Accounted /\ \A w \in Workers : Careful(w)

IInv == TypeOK /\ RowsOK /\ JobsOK /\ Alone /\ UpToDate

LEMMA Bounds ==
  /\ MaxFailures \in Nat \ {0} /\ MaxAttempts \in Nat \ {0} /\ MaxRows \in Nat \ {0}
  /\ LastStep \in Nat /\ Rows = 1..MaxRows /\ 1 \in Rows
  BY SignInAssumption DEF Rows

LEMMA Lengths ==
  ASSUME TypeOK
  PROVE  /\ Len(sessions) \in Nat /\ Len(codes) \in Nat
         /\ DOMAIN sessions = 1..Len(sessions) /\ DOMAIN codes = 1..Len(codes)
         /\ \A n \in 1..Len(sessions) : sessions[n] \in Session
         /\ \A c \in 1..Len(codes) : codes[c] \in Code
         /\ DOMAIN devices = 1..Len(devices)
         /\ \A n \in 1..Len(devices) : devices[n] \in Device
<1>1. sessions \in Seq(Session) /\ codes \in Seq(Code) /\ devices \in Seq(Device)
  BY DEF TypeOK
<1>2. Len(sessions) \in Nat /\ DOMAIN sessions = 1..Len(sessions)
  BY <1>1, LenProperties
<1>3. Len(codes) \in Nat /\ DOMAIN codes = 1..Len(codes)
  BY <1>1, LenProperties
<1>4. DOMAIN devices = 1..Len(devices)
  BY <1>1, LenProperties
<1> QED
  BY <1>1, <1>2, <1>3, <1>4, ElementOfSeq

\* A right password starts a new row of tries.
LEMMA OneMoreRow ==
  ASSUME NEW c \in Nat, NEW p \in Nat, NEW k \in Nat, k <= MaxFailures - 1,
         c <= (MaxFailures - 1) * p + k
  PROVE  c <= (MaxFailures - 1) * (p + 1)
<1>1. MaxFailures - 1 \in Nat
  BY Bounds
<1> DEFINE m == MaxFailures - 1
<1>2. m \in Nat
  BY <1>1
<1> HIDE DEF m
<1>3. m * (p + 1) = m * p + m
  BY <1>2
<1>4. m * p \in Int
  BY <1>2
<1>5. c <= m * p + k /\ k <= m
  BY DEF m
<1>6. c <= m * (p + 1)
  BY <1>2, <1>3, <1>4, <1>5
<1> QED
  BY <1>6 DEF m

LEMMA IInvImpliesFamilies == IInv => TokenFamilies
  BY DEF IInv, UpToDate, Families, TokenFamilies, OneTokenPerFamily, ReuseEndsFamily

LEMMA IInvImpliesAccess == IInv => NewPasswordEndsAccess
  BY DEF IInv, UpToDate, Accounted, CleanSessions, CleanDevices, NewPasswordEndsAccess, Quiet, At

LEMMA IInvImpliesSecrets == IInv => SecretsAreLimited
<1> SUFFICES ASSUME IInv
             PROVE  SecretsAreLimited
  OBVIOUS
<1>1. WrongSecretsLock /\ GuessesCostPasswords
  <2>1. ASSUME Quiet
        PROVE  Counted /\ LockOK /\ Paid
    BY <2>1 DEF IInv, UpToDate, Accounted, Quiet, At, LockOK
  <2>2. WrongSecretsLock
    BY <2>1 DEF WrongSecretsLock, Counted, LockOK
  <2>3. ASSUME Quiet, ~locked
        PROVE  guesses.codes <= (MaxFailures - 1) * (guesses.passed + 1)
    <3>1. wrong <= MaxFailures - 1 /\ wrong \in Nat
      BY <2>1, <2>3, Bounds DEF Counted, LockOK, IInv, TypeOK
    <3>2. guesses.codes <= (MaxFailures - 1) * guesses.passed + wrong
      BY <2>1, <2>3 DEF Paid
    <3> QED
      BY <3>1, <3>2, OneMoreRow DEF IInv, TypeOK, Guesses
  <2> QED
    BY <2>2, <2>3 DEF GuessesCostPasswords
<1>2. ASSUME ~raced
      PROVE  CodesOK /\ StampsOK
  BY <1>2 DEF IInv, UpToDate
<1>3. CodesUsedOnce
  <2>1. ASSUME ~raced, NEW c \in Rows
        PROVE  consumed[c] <= 1
    BY <1>2, <2>1 DEF CodesOK
  <2>2. ASSUME ~raced, NEW c \in DOMAIN codes
        PROVE  codes[c].attempts <= MaxAttempts
    BY <1>2, <2>2, Lengths DEF CodesOK, IInv
  <2> QED
    BY <2>1, <2>2 DEF CodesUsedOnce
<1>4. accepted \in Seq(Acceptance) /\ DOMAIN accepted = 1..Len(accepted)
      /\ \A n \in 1..Len(accepted) : accepted[n] \in Acceptance
  <2>1. accepted \in Seq(Acceptance)
    BY DEF IInv, TypeOK
  <2> QED
    BY <2>1, LenProperties, ElementOfSeq
<1>5. TotpUsedOnce
  <2>1. ASSUME ~raced, NEW m \in 1..Len(accepted), NEW n \in 1..Len(accepted), m < n
        PROVE  /\ accepted[m].at < accepted[n].at
               /\ accepted[m].code = accepted[n].code =>
                    accepted[n].at - accepted[m].at <= 2 * Tolerance
    <3>1. /\ accepted[m].at < accepted[n].at
          /\ InReach(accepted[m].code, accepted[m].at) /\ InReach(accepted[n].code, accepted[n].at)
      BY <1>2, <2>1 DEF StampsOK
    <3>2. /\ accepted[m].at \in Nat /\ accepted[m].code \in Nat
          /\ accepted[n].at \in Nat /\ accepted[n].code \in Nat /\ Tolerance \in Nat
      BY <1>4, SignInAssumption DEF Acceptance
    <3> QED
      BY <3>1, <3>2 DEF InReach
  <2> QED
    BY <1>4, <2>1 DEF TotpUsedOnce
<1> QED
  BY <1>1, <1>3, <1>5 DEF SecretsAreLimited

-----------------------------------------------------------------------------
(* Rows. *)

\* A table of which some rows are rewritten.
LEMMA Rewritten ==
  ASSUME NEW T, NEW rows \in Seq(T), NEW f,
         f = [n \in DOMAIN rows |-> f[n]], \A n \in 1..Len(rows) : f[n] \in T
  PROVE  f \in Seq(T) /\ Len(f) = Len(rows) /\ DOMAIN f = 1..Len(rows)
<1>1. DOMAIN rows = 1..Len(rows) /\ Len(rows) \in Nat
  BY LenProperties
<1>2. f \in [1..Len(rows) -> T]
  BY <1>1
<1>3. f \in Seq(T)
  BY <1>1, <1>2, SeqDef
<1>4. DOMAIN f = 1..Len(f) /\ Len(f) \in Nat
  BY <1>3, LenProperties
<1> QED
  BY <1>1, <1>2, <1>3, <1>4

LEMMA RevokedRows ==
  ASSUME NEW T, NEW rows \in Seq(T), NEW which,
         \A x \in T : [x EXCEPT !.status = "REVOKED"] \in T
  PROVE  /\ Revoked(rows, which) \in Seq(T) /\ Len(Revoked(rows, which)) = Len(rows)
         /\ \A n \in 1..Len(rows) :
              Revoked(rows, which)[n] = IF n \in which /\ rows[n].status = "ACTIVE"
                                          THEN [rows[n] EXCEPT !.status = "REVOKED"] ELSE rows[n]
<1> DEFINE f == Revoked(rows, which)
<1>1. DOMAIN rows = 1..Len(rows) /\ Len(rows) \in Nat /\ \A n \in 1..Len(rows) : rows[n] \in T
  BY LenProperties, ElementOfSeq
<1>2. \A n \in 1..Len(rows) : f[n] = IF n \in which /\ rows[n].status = "ACTIVE"
                                       THEN [rows[n] EXCEPT !.status = "REVOKED"] ELSE rows[n]
  BY <1>1 DEF Revoked
<1>3. \A n \in 1..Len(rows) : f[n] \in T
  BY <1>1, <1>2
<1>4. f = [n \in DOMAIN rows |-> f[n]]
  BY DEF Revoked
<1> HIDE DEF f
<1>5. f \in Seq(T) /\ Len(f) = Len(rows)
  BY <1>3, <1>4, Rewritten
<1> QED
  BY <1>2, <1>5 DEF f

\* Sessions end, and none begins.
Fades ==
  /\ sessions' \in Seq(Session) /\ Len(sessions') = Len(sessions)
  /\ \A n \in 1..Len(sessions) :
       /\ sessions'[n].family = sessions[n].family
       /\ sessions'[n].status = "ACTIVE" => sessions[n].status = "ACTIVE"

SameAge == \A n \in 1..Len(sessions) : sessions'[n].opened = sessions[n].opened

LEMMA RevokedSessions ==
  ASSUME TypeOK, NEW which, sessions' = Revoked(sessions, which)
  PROVE  /\ Fades /\ SameAge
         /\ \A n \in 1..Len(sessions) : n \in which => sessions'[n].status = "REVOKED"
<1>1. \A x \in Session : [x EXCEPT !.status = "REVOKED"] \in Session
  BY DEF Session
<1>2. sessions \in Seq(Session) /\ \A n \in 1..Len(sessions) : sessions[n] \in Session
  BY Lengths DEF TypeOK
<1>3. /\ sessions' \in Seq(Session) /\ Len(sessions') = Len(sessions)
      /\ \A n \in 1..Len(sessions) :
           sessions'[n] = IF n \in which /\ sessions[n].status = "ACTIVE"
                            THEN [sessions[n] EXCEPT !.status = "REVOKED"] ELSE sessions[n]
  BY <1>1, <1>2, RevokedRows
<1>4. ASSUME NEW n \in 1..Len(sessions)
      PROVE  /\ sessions'[n].family = sessions[n].family /\ sessions'[n].opened = sessions[n].opened
             /\ sessions'[n].status = "ACTIVE" => sessions[n].status = "ACTIVE"
             /\ n \in which => sessions'[n].status = "REVOKED"
  BY <1>2, <1>3 DEF Session
<1> QED
  BY <1>3, <1>4 DEF Fades, SameAge

LEMMA FadesActive ==
  ASSUME TypeOK, Fades
  PROVE  /\ Active(sessions)' \subseteq Active(sessions) /\ Active(sessions) \subseteq 1..Len(sessions)
         /\ \A n \in Active(sessions)' : sessions'[n].family = sessions[n].family
<1>1. DOMAIN sessions' = 1..Len(sessions)
  BY LenProperties DEF Fades
<1> QED
  BY <1>1, Lengths DEF Fades, Active

LEMMA FamiliesFade ==
  ASSUME TypeOK, Fades, reused' = reused, Families
  PROVE  Families'
  BY FadesActive DEF Families

LEMMA CleanFade ==
  ASSUME TypeOK, Fades, SameAge, CleanSessions
  PROVE  CleanSessions'
  BY FadesActive DEF CleanSessions, SameAge

LEMMA RowsFade ==
  ASSUME TypeOK, Fades, reused' \subseteq 1..Len(sessions), Len(codes') = Len(codes), RowsOK
  PROVE  RowsOK'
  BY DEF RowsOK, Fades

-----------------------------------------------------------------------------
(* How a step keeps the invariant. *)

Persists ==
  /\ Len(sessions') >= Len(sessions) /\ Len(codes') >= Len(codes)
  /\ \A n \in 1..Len(sessions) : sessions'[n].family = sessions[n].family

LEMMA OthersOK ==
  ASSUME IInv, TypeOK', Persists, NEW v \in Workers, job'[v] = job[v]
  PROVE  JobOK(v)'
<1>1. JobOK(v) /\ Len(sessions) \in Nat /\ Len(codes) \in Nat
  BY Lengths DEF IInv, JobsOK
<1>2. Len(sessions') \in Nat /\ Len(codes') \in Nat
  BY LenProperties DEF TypeOK
<1>3. \A n : /\ n \in 1..Len(sessions) => n \in 1..Len(sessions')
             /\ n \in 1..Len(codes) => n \in 1..Len(codes')
  BY <1>1, <1>2 DEF Persists
<1> QED
  BY <1>1, <1>3 DEF JobOK, Persists

\* What holds of a request that has the account to itself.
Sure(w) == Families /\ CodesOK /\ StampsOK /\ StillTrue(w)
Lone(w) == LockOK /\ Careful(w) /\ Between(w)

LEMMA AloneFacts ==
  ASSUME IInv, ~raced, NEW w \in Workers, \A v \in Workers \ {w} : ~Busy(v)
  PROVE  Sure(w) /\ (~died => Lone(w))
  BY DEF IInv, UpToDate, Accounted, Sure, Lone, Between, Busy

LEMMA OthersIdle ==
  ASSUME IInv, ~raced, NEW w \in Workers, Busy(w)
  PROVE  \A v \in Workers \ {w} : ~Busy(v)
  BY DEF IInv, Alone

\* A step of one request.
LEMMA MovedIInv ==
  ASSUME IInv, TypeOK', RowsOK', Persists, NEW w \in Workers,
         \A v \in Workers \ {w} : job'[v] = job[v], JobOK(w)',
         raced => raced', ~raced' => \A v \in Workers \ {w} : ~Busy(v),
         ~raced' => Sure(w)', ~raced' /\ ~died' => Lone(w)'
  PROVE  IInv'
<1>1. JobsOK'
  <2>1. ASSUME NEW v \in Workers
        PROVE  JobOK(v)'
    BY OthersOK
  <2> QED
    BY <2>1 DEF JobsOK
<1>2. ASSUME ~raced'
      PROVE  \A v \in Workers \ {w} : job'[v].pc = "idle"
  BY <1>2 DEF Busy
<1>3. Alone'
  BY <1>2 DEF Alone, Busy
<1>4. ASSUME ~raced', NEW v \in Workers \ {w}
      PROVE  StillTrue(v)' /\ Careful(v)'
  <2>1. job'[v].pc = "idle"
    BY <1>2, <1>4
  <2> QED
    BY <2>1 DEF StillTrue, Careful
<1>5. UpToDate'
  <2>1. ASSUME ~raced'
        PROVE  Families' /\ CodesOK' /\ StampsOK' /\ \A v \in Workers : StillTrue(v)'
    BY <1>4, <2>1 DEF Sure
  <2>2. ASSUME ~raced', ~died'
        PROVE  LockOK' /\ Accounted' /\ \A v \in Workers : Careful(v)'
    BY <1>4, <2>2 DEF Lone, Between, Accounted
  <2> QED
    BY <2>1, <2>2 DEF UpToDate
<1> QED
  BY <1>1, <1>3, <1>5 DEF IInv

\* A statement of a request that is running.
LEMMA StatementIInv ==
  ASSUME IInv, TypeOK', RowsOK', Persists, NEW w \in Workers, Busy(w),
         UNCHANGED <<raced, died>>,
         \A v \in Workers \ {w} : job'[v] = job[v], JobOK(w)',
         ~raced /\ Sure(w) => Sure(w)',
         ~raced /\ ~died /\ Sure(w) /\ Lone(w) => Lone(w)'
  PROVE  IInv'
<1>1. raced => raced'
  BY Zenon
<1>2. (~raced' => ~raced) /\ (~died' => ~died)
  BY Zenon
<1>3. ~raced => Sure(w) /\ (~died => Lone(w))
  BY OthersIdle, AloneFacts
<1>4. ~raced' => \A v \in Workers \ {w} : ~Busy(v)
  BY <1>2, OthersIdle
<1> QED
  BY <1>1, <1>2, <1>3, <1>4, MovedIInv

LEMMA GotoFacts ==
  ASSUME TypeOK, NEW w \in Workers, NEW p \in Pcs, Goto(w, p)
  PROVE  /\ job' \in [Workers -> Job] /\ \A v \in Workers \ {w} : job'[v] = job[v]
         /\ job'[w].pc = p /\ job'[w].row = job[w].row /\ job'[w].read = job[w].read
         /\ job'[w].hard = job[w].hard /\ job'[w].family = job[w].family
         /\ job'[w].next = job[w].next /\ job'[w].doomed = job[w].doomed
<1>1. job \in [Workers -> Job] /\ job' = [job EXCEPT ![w].pc = p]
  BY DEF TypeOK, Goto
<1>2. job'[w] = [job[w] EXCEPT !.pc = p] /\ job[w] \in Job /\ \A v \in Workers \ {w} : job'[v] = job[v]
  BY <1>1
<1>3. job'[w] \in Job
  BY <1>2 DEF Job
<1>4. /\ job'[w].pc = p /\ job'[w].row = job[w].row /\ job'[w].read = job[w].read
      /\ job'[w].hard = job[w].hard /\ job'[w].family = job[w].family
      /\ job'[w].next = job[w].next /\ job'[w].doomed = job[w].doomed
  BY <1>2 DEF Job
<1>5. job' \in [Workers -> Job]
  BY <1>1, <1>2, <1>3
<1> QED
  BY <1>2, <1>4, <1>5

LEMMA BecomesFacts ==
  ASSUME TypeOK, NEW w \in Workers, NEW j \in Job, job' = [job EXCEPT ![w] = j]
  PROVE  /\ job' \in [Workers -> Job] /\ job'[w] = j /\ \A v \in Workers \ {w} : job'[v] = job[v]
  BY DEF TypeOK

LEMMA RequestFacts ==
  ASSUME NEW p \in Pcs, NEW r \in Nat, NEW n \in Nat
  PROVE  /\ Request(p, r, n) \in Job
         /\ Request(p, r, n).pc = p /\ Request(p, r, n).row = r /\ Request(p, r, n).read = n
         /\ Request(p, r, n).family = 0 /\ Request(p, r, n).next = "idle"
  BY DEF Request, Job, Pcs, Origins

LEMMA EndFacts ==
  ASSUME TypeOK, NEW w \in Workers, End(w)
  PROVE  /\ job' \in [Workers -> Job] /\ \A v \in Workers \ {w} : job'[v] = job[v]
         /\ job'[w].pc = "idle" /\ job'[w].family = 0 /\ job'[w].next = "idle"
<1>1. Idle \in Job /\ Idle.pc = "idle" /\ Idle.family = 0 /\ Idle.next = "idle"
  BY RequestFacts DEF Idle, Pcs
<1>2. job' = [job EXCEPT ![w] = Idle]
  BY DEF End
<1> QED
  BY <1>1, <1>2, BecomesFacts

LEMMA SpendOK ==
  ASSUME TypeOK, NEW k \in Kinds, Spend(k)
  PROVE  budget' \in [Kinds -> Nat]
  BY DEF Spend, TypeOK

LEMMA PcNames ==
  \A p \in {"idle", "bump", "expire", "fail", "clear", "unlock", "totp", "stamp", "issue",
            "limit", "trim", "trust", "settle", "rotate", "reuse", "family", "miss", "consume",
            "reset", "change", "ends", "forget"} : p \in Pcs
  BY DEF Pcs

\* A table that is not written stays what it is.
LEMMA SameSessions ==
  ASSUME TypeOK, UNCHANGED sessions
  PROVE  Fades /\ SameAge
  BY DEF TypeOK, Fades, SameAge

LEMMA PersistsFade ==
  ASSUME TypeOK, Fades, Len(codes') = Len(codes)
  PROVE  Persists
<1>1. Len(sessions) \in Nat /\ Len(codes) \in Nat
  BY Lengths
<1> QED
  BY <1>1 DEF Fades, Persists

-----------------------------------------------------------------------------
(* Statements about the lock. *)

LEMMA SameRows ==
  ASSUME IInv, UNCHANGED <<sessions, codes, reused>>
  PROVE  RowsOK' /\ Persists
<1>1. Len(sessions) \in Nat /\ Len(codes) \in Nat
  BY Lengths DEF IInv
<1> QED
  BY <1>1 DEF IInv, RowsOK, Persists

LEMMA SameTables ==
  ASSUME UNCHANGED <<sessions, codes, reused, consumed, accepted, lastUsed, devices>>
  PROVE  /\ (Families => Families') /\ (CodesOK => CodesOK') /\ (StampsOK => StampsOK')
         /\ (CleanSessions => CleanSessions') /\ (CleanDevices => CleanDevices')
         /\ Active(sessions)' = Active(sessions)
  BY DEF Families, CodesOK, StampsOK, CleanSessions, CleanDevices, Active

Plain == {"idle", "expire", "fail", "unlock", "stamp", "issue", "limit", "trim", "trust", "settle"}

LEMMA LockStatementIInv ==
  ASSUME IInv, NEW w \in Workers, Busy(w),
         UNCHANGED <<lastUsed, step, codes, devices, sessions, consumed, accepted, reused,
                     raced, died, budget>>,
         failed' \in Nat, locked' \in BOOLEAN, challenge' \subseteq Origins, wrong' \in Nat, guesses' \in Guesses,
         counter' \in [count : Nat, expires : BOOLEAN],
         job' \in [Workers -> Job], \A v \in Workers \ {w} : job'[v] = job[v],
         job[w].pc \notin {"ends", "forget"},
         job'[w].pc \in Plain, job'[w].family = 0, job'[w].next \in {"idle", "trust", "settle"},
         job'[w].pc = "stamp" => job'[w].row > lastUsed /\ InReach(job'[w].code, job'[w].row),
         ~raced /\ ~died /\ Sure(w) /\ Lone(w) =>
           /\ LockOK'
           /\ job'[w].pc = "unlock" => ~locked'
           /\ IF job'[w].pc \in {"expire", "fail"}
                THEN ~locked' /\ wrong' = job'[w].read + 1 ELSE Counted'
  PROVE  IInv'
<1>1. TypeOK'
  BY DEF IInv, TypeOK
<1>2. RowsOK' /\ Persists
  BY SameRows
<1>3. JobOK(w)'
  BY DEF JobOK, Plain
<1>4. Sure(w) => Sure(w)'
  BY SameTables DEF Sure, StillTrue, Plain
<1>5. ASSUME ~raced, ~died, Sure(w), Lone(w)
      PROVE  Lone(w)'
  <2>1. CleanSessions /\ CleanDevices
    BY <1>5 DEF Lone, Between
  <2>2. Careful(w)' /\ Between(w)'
    BY <1>5, <2>1, SameTables DEF Careful, Between, Plain
  <2> QED
    BY <1>5, <2>2 DEF Lone
<1> QED
  BY <1>1, <1>2, <1>3, <1>4, <1>5, StatementIInv

LEMMA NoFamily ==
  ASSUME IInv, NEW w \in Workers
  PROVE  /\ job[w].pc \notin {"rotate", "reuse", "family", "issue", "limit"} => job[w].family = 0
         /\ job[w].next \in {"idle", "trust", "settle"} /\ job[w] \in Job
  BY DEF IInv, JobsOK, JobOK, TypeOK

\* The tries stay paid for while no fewer secrets are wrong.
LEMMA StillPaid ==
  ASSUME Paid, guesses \in Guesses, wrong \in Nat, UNCHANGED guesses,
         locked => locked', wrong' \in Nat, wrong' >= wrong
  PROVE  Paid'
<1>1. CASE locked
  BY <1>1 DEF Paid
<1>2. CASE ~locked
  <2>1. MaxFailures - 1 \in Nat /\ guesses.codes \in Nat /\ guesses.passed \in Nat
    BY Bounds DEF Guesses
  <2> DEFINE paid == (MaxFailures - 1) * guesses.passed
  <2>2. paid \in Int
    BY <2>1
  <2>3. guesses.codes <= paid + wrong
    BY <1>2 DEF Paid
  <2> HIDE DEF paid
  <2>4. guesses'.codes <= paid + wrong'
    BY <2>1, <2>2, <2>3
  <2> QED
    BY <2>4 DEF Paid, paid
<1> QED
  BY <1>1, <1>2

LEMMA BumpIInv == ASSUME IInv, NEW w \in Workers, Bump(w) PROVE IInv'
<1> DEFINE n == counter.count + 1
           p == IF n = 1 THEN "expire" ELSE "fail"
           j == [[job[w] EXCEPT !.hard = Locks(n)] EXCEPT !.pc = p]
<1>1. /\ job[w].pc = "bump" /\ Busy(w) /\ counter' = [counter EXCEPT !.count = n] /\ wrong' = wrong + 1
      /\ UNCHANGED <<lastUsed, step, codes, devices, sessions, guesses, consumed, accepted, reused,
                     raced, died, budget, failed, locked, challenge>>
  BY DEF Bump, At, Busy
<1>2. job[w] \in Job /\ counter \in [count : Nat, expires : BOOLEAN] /\ wrong \in Nat
      /\ guesses \in Guesses
      /\ failed \in Nat /\ locked \in BOOLEAN /\ challenge \subseteq Origins /\ job \in [Workers -> Job]
  BY DEF IInv, TypeOK
<1>3. n \in Nat /\ p \in {"expire", "fail"} /\ p \in Pcs /\ counter' \in [count : Nat, expires : BOOLEAN]
  BY <1>1, <1>2, PcNames
<1>4. Locks(n) \in BOOLEAN
  BY DEF Locks
<1>5. job' = [job EXCEPT ![w].hard = Locks(n), ![w].pc = p]
  BY DEF Bump
<1> HIDE DEF n, p
<1>6. job' = [job EXCEPT ![w] = j]
  BY <1>2, <1>5
<1>7. /\ j \in Job /\ j.pc = p /\ j.read = job[w].read /\ j.family = job[w].family
      /\ j.next = job[w].next
  BY <1>2, <1>3, <1>4 DEF Job
<1> HIDE DEF j
<1>8. job' \in [Workers -> Job] /\ job'[w] = j /\ \A v \in Workers \ {w} : job'[v] = job[v]
  BY <1>6, <1>7, BecomesFacts DEF IInv
<1>9. ASSUME ~raced, ~died, Sure(w), Lone(w)
      PROVE  LockOK' /\ ~locked' /\ wrong' = job'[w].read + 1
  <2>1. ~locked /\ job[w].read = failed /\ LockOK /\ Counted
    BY <1>1, <1>9 DEF Lone, Careful, Between
  <2>2. Paid'
    BY <1>1, <1>2, <2>1, StillPaid DEF LockOK
  <2> QED
    BY <1>1, <1>7, <1>8, <2>1, <2>2 DEF LockOK, Counted
<1> QED
  BY <1>1, <1>2, <1>3, <1>7, <1>8, <1>9, NoFamily, LockStatementIInv DEF Plain

LEMMA ExpireCounterIInv == ASSUME IInv, NEW w \in Workers, ExpireCounter(w) PROVE IInv'
<1>1. /\ job[w].pc = "expire" /\ Busy(w) /\ Goto(w, "fail") /\ "fail" \in Pcs
      /\ UNCHANGED <<lastUsed, step, codes, devices, sessions, consumed, accepted, reused,
                     raced, died, budget, failed, locked, challenge, wrong, guesses>>
      /\ counter' = [counter EXCEPT !.expires = counter.count > 0]
  BY PcNames DEF ExpireCounter, At, Busy, history
<1>2. counter \in [count : Nat, expires : BOOLEAN] /\ wrong \in Nat
      /\ failed \in Nat /\ locked \in BOOLEAN /\ challenge \subseteq Origins
      /\ guesses \in Guesses
  BY DEF IInv, TypeOK
<1>3. counter' \in [count : Nat, expires : BOOLEAN]
  <2>1. (counter.count > 0) \in BOOLEAN
    OBVIOUS
  <2> QED
    BY <1>1, <1>2, <2>1
<1>4. /\ job' \in [Workers -> Job] /\ \A v \in Workers \ {w} : job'[v] = job[v]
      /\ job'[w].pc = "fail" /\ job'[w].read = job[w].read
      /\ job'[w].family = job[w].family /\ job'[w].next = job[w].next
  BY <1>1, GotoFacts DEF IInv
<1>5. ASSUME ~raced, ~died, Sure(w), Lone(w)
      PROVE  LockOK' /\ ~locked' /\ wrong' = job'[w].read + 1
  BY <1>1, <1>4, <1>5 DEF Lone, Careful, LockOK, Paid
<1> QED
  BY <1>1, <1>2, <1>3, <1>4, <1>5, NoFamily, LockStatementIInv DEF Plain

LEMMA FailIInv == ASSUME IInv, NEW w \in Workers, Fail(w) PROVE IInv'
<1> DEFINE n == job[w].read + 1
           locks == job[w].hard \/ Locks(n)
<1>1. /\ job[w].pc = "fail" /\ Busy(w) /\ End(w)
      /\ UNCHANGED <<lastUsed, step, codes, devices, sessions, consumed, accepted, reused,
                     raced, died, budget, counter, challenge, wrong, guesses>>
      /\ failed' = (IF locks THEN 0 ELSE n) /\ locked' = locks
  BY DEF Fail, At, Busy, history
<1>2. counter \in [count : Nat, expires : BOOLEAN] /\ wrong \in Nat /\ challenge \subseteq Origins
      /\ guesses \in Guesses /\ n \in Nat /\ locks \in BOOLEAN
  BY DEF IInv, TypeOK, Job, Locks
<1>3. /\ job' \in [Workers -> Job] /\ \A v \in Workers \ {w} : job'[v] = job[v]
      /\ job'[w].pc = "idle" /\ job'[w].family = 0 /\ job'[w].next = "idle"
  BY <1>1, EndFacts DEF IInv
<1>4. ~locks => n < MaxFailures
  BY <1>2, Bounds DEF Locks
<1> HIDE DEF n, locks
<1>5. failed' \in Nat /\ locked' \in BOOLEAN
  BY <1>1, <1>2
<1>6. ASSUME ~raced, ~died, Sure(w), Lone(w)
      PROVE  LockOK' /\ Counted'
  <2>1. wrong = n /\ ~locked
    BY <1>1, <1>6 DEF Lone, Careful, n
  <2>2. Paid'
    BY <1>1, <1>2, <1>6, <2>1, StillPaid DEF Lone, LockOK
  <2> QED
    BY <1>1, <1>2, <1>4, <2>1, <2>2, Bounds DEF LockOK, Counted
<1> QED
  BY <1>1, <1>2, <1>3, <1>5, <1>6, NoFamily, LockStatementIInv DEF Plain

LEMMA ClearCounterIInv == ASSUME IInv, NEW w \in Workers, ClearCounter(w) PROVE IInv'
<1>1. /\ job[w].pc = "clear" /\ Busy(w) /\ Goto(w, "unlock") /\ "unlock" \in Pcs
      /\ UNCHANGED <<lastUsed, step, codes, devices, sessions, consumed, accepted, reused,
                     raced, died, budget, failed, locked, challenge, wrong, guesses>>
      /\ counter' = [count |-> 0, expires |-> FALSE]
  BY PcNames DEF ClearCounter, At, Busy, history
<1>2. counter' \in [count : Nat, expires : BOOLEAN] /\ wrong \in Nat /\ guesses \in Guesses
      /\ failed \in Nat /\ locked \in BOOLEAN /\ challenge \subseteq Origins
  BY <1>1 DEF IInv, TypeOK
<1>3. /\ job' \in [Workers -> Job] /\ \A v \in Workers \ {w} : job'[v] = job[v]
      /\ job'[w].pc = "unlock" /\ job'[w].family = job[w].family /\ job'[w].next = job[w].next
  BY <1>1, GotoFacts DEF IInv
<1>4. ASSUME ~raced, ~died, Sure(w), Lone(w)
      PROVE  LockOK' /\ Counted' /\ ~locked'
  BY <1>1, <1>4 DEF Lone, Between, Careful, LockOK, Counted, Paid
<1> QED
  BY <1>1, <1>2, <1>3, <1>4, NoFamily, LockStatementIInv DEF Plain

\* The statements that forget the failures.
LEMMA Forgotten ==
  ASSUME failed' = 0, locked' = FALSE, wrong' = 0, guesses' = NoGuesses
  PROVE  /\ LockOK' /\ Counted' /\ failed' \in Nat /\ locked' \in BOOLEAN /\ wrong' \in Nat
         /\ guesses' \in Guesses
<1>1. (MaxFailures - 1) * 0 = 0 /\ NoGuesses.codes = 0 /\ NoGuesses.passed = 0
  BY Bounds DEF NoGuesses
<1>2. Paid'
  BY <1>1 DEF Paid
<1>3. LockOK'
  BY <1>2, Bounds DEF LockOK
<1>4. Counted'
  BY DEF Counted
<1> QED
  BY <1>3, <1>4 DEF NoGuesses, Guesses

LEMMA PasswordPassesIInv == ASSUME IInv, NEW w \in Workers, PasswordPasses(w) PROVE IInv'
<1>1. /\ job[w].pc = "unlock" /\ Busy(w) /\ failed' = 0 /\ locked' = FALSE /\ wrong' = 0
      /\ guesses' = [guesses EXCEPT !.passed = @ + 1]
      /\ UNCHANGED <<lastUsed, step, codes, devices, sessions, consumed, accepted, reused,
                     raced, died, budget, counter>>
      /\ \/ Goto(w, "issue") /\ challenge' = challenge
         \/ End(w) /\ challenge' = challenge \cup {"now"}
  BY DEF PasswordPasses, At, Busy
<1>2. /\ counter' \in [count : Nat, expires : BOOLEAN] /\ challenge' \subseteq Origins
      /\ guesses \in Guesses /\ wrong \in Nat
  BY <1>1 DEF IInv, TypeOK, Origins
<1>3. /\ job' \in [Workers -> Job] /\ \A v \in Workers \ {w} : job'[v] = job[v]
      /\ job'[w].pc \in {"issue", "idle"} /\ job'[w].family = 0
      /\ job'[w].next \in {"idle", "trust", "settle"}
  <2>1. CASE Goto(w, "issue")
    BY <1>1, <2>1, GotoFacts, NoFamily, PcNames DEF IInv
  <2>2. CASE End(w)
    BY <2>2, EndFacts DEF IInv
  <2> QED
    BY <1>1, <2>1, <2>2
<1>4. guesses' \in Guesses /\ guesses'.codes = guesses.codes /\ guesses'.passed = guesses.passed + 1
      /\ guesses.codes \in Nat /\ guesses.passed \in Nat
  BY <1>1, <1>2 DEF Guesses
<1>5. ASSUME ~raced, ~died, Sure(w), Lone(w)
      PROVE  LockOK' /\ Counted'
  <2>1. ~locked /\ Paid /\ wrong <= MaxFailures - 1
    BY <1>1, <1>5, Bounds DEF Lone, Careful, Between, Counted, LockOK, IInv, TypeOK
  <2>2. guesses.codes <= (MaxFailures - 1) * (guesses.passed + 1)
    BY <1>2, <1>4, <2>1, OneMoreRow DEF Paid
  <2>3. (MaxFailures - 1) * (guesses.passed + 1) + 0 = (MaxFailures - 1) * (guesses.passed + 1)
    BY <1>4, Bounds
  <2>4. Paid'
    BY <1>1, <1>4, <2>2, <2>3 DEF Paid
  <2> QED
    BY <1>1, <2>4, Bounds DEF LockOK, Counted
<1>6. failed' \in Nat /\ locked' \in BOOLEAN /\ wrong' \in Nat
  BY <1>1
<1> QED
  BY <1>1, <1>2, <1>3, <1>4, <1>5, <1>6, LockStatementIInv DEF Plain

LEMMA SettleIInv == ASSUME IInv, NEW w \in Workers, Settle(w) PROVE IInv'
<1>1. /\ job[w].pc = "settle" /\ Busy(w) /\ failed' = 0 /\ locked' = FALSE /\ wrong' = 0
      /\ guesses' = NoGuesses /\ End(w)
      /\ UNCHANGED <<lastUsed, step, codes, devices, sessions, consumed, accepted, reused,
                     raced, died, budget, counter, challenge>>
  BY DEF Settle, At, Busy
<1>2. counter' \in [count : Nat, expires : BOOLEAN] /\ challenge' \subseteq Origins
  BY <1>1 DEF IInv, TypeOK
<1>3. /\ job' \in [Workers -> Job] /\ \A v \in Workers \ {w} : job'[v] = job[v]
      /\ job'[w].pc = "idle" /\ job'[w].family = 0 /\ job'[w].next = "idle"
  BY <1>1, EndFacts DEF IInv
<1> QED
  BY <1>1, <1>2, <1>3, Forgotten, LockStatementIInv DEF Plain

LEMMA CheckStepIInv == ASSUME IInv, NEW w \in Workers, CheckStep(w) PROVE IInv'
<1> DEFINE passes == Near(job[w].code, step) /\ Newer(step)
           p == IF passes THEN "stamp" ELSE "fail"
           j == [[job[w] EXCEPT !.pc = p] EXCEPT !.row = step]
<1>1. /\ job[w].pc = "totp" /\ Busy(w)
      /\ UNCHANGED <<lastUsed, step, codes, devices, sessions, consumed, accepted, reused,
                     raced, died, budget, counter, challenge, failed, locked>>
  BY DEF CheckStep, At, Busy, lock
<1>2. /\ counter' \in [count : Nat, expires : BOOLEAN] /\ challenge' \subseteq Origins
      /\ failed' \in Nat /\ locked' \in BOOLEAN /\ wrong \in Nat /\ lastUsed \in Nat
      /\ step \in Nat /\ guesses \in Guesses /\ job[w] \in Job /\ job \in [Workers -> Job]
  BY <1>1 DEF IInv, TypeOK
<1>3. p \in {"stamp", "fail"} /\ p \in Pcs
  BY PcNames
<1>4. job' = [job EXCEPT ![w].pc = p, ![w].row = step]
  BY DEF CheckStep
<1>5. passes => step > lastUsed /\ InReach(job[w].code, step)
  BY <1>2 DEF Newer, Near, InReach
<1>6. IF passes THEN UNCHANGED <<wrong, guesses>>
                ELSE wrong' = wrong + 1 /\ guesses' = [guesses EXCEPT !.codes = @ + 1]
  BY DEF CheckStep
<1>7. p = "stamp" <=> passes
  OBVIOUS
<1> HIDE DEF passes, p
<1>8. job' = [job EXCEPT ![w] = j]
  BY <1>2, <1>4
<1>9. /\ j \in Job /\ j.pc = p /\ j.row = step /\ j.read = job[w].read /\ j.code = job[w].code
      /\ j.family = job[w].family /\ j.next = job[w].next
  BY <1>2, <1>3 DEF Job
<1> HIDE DEF j
<1>10. job' \in [Workers -> Job] /\ job'[w] = j /\ \A v \in Workers \ {w} : job'[v] = job[v]
  BY <1>8, <1>9, BecomesFacts DEF IInv
<1>11. wrong' \in Nat /\ guesses' \in Guesses
  BY <1>2, <1>6 DEF Guesses
<1>12. CASE passes
  <2>1. ASSUME ~raced, ~died, Sure(w), Lone(w)
        PROVE  LockOK' /\ Counted'
    BY <1>1, <1>6, <1>12, <2>1 DEF Lone, Between, LockOK, Counted, Paid
  <2>2. job'[w].pc = "stamp" /\ job'[w].row > lastUsed /\ InReach(job'[w].code, job'[w].row)
    BY <1>5, <1>7, <1>9, <1>10, <1>12
  <2> QED
    BY <1>1, <1>2, <1>9, <1>10, <1>11, <2>1, <2>2, NoFamily, LockStatementIInv DEF Plain
<1>13. CASE ~passes
  <2>1. p = "fail" /\ wrong' = wrong + 1 /\ guesses' = [guesses EXCEPT !.codes = @ + 1]
    BY <1>3, <1>6, <1>7, <1>13
  <2>2. ASSUME ~raced, ~died, Sure(w), Lone(w)
        PROVE  LockOK' /\ ~locked' /\ wrong' = job'[w].read + 1
    <3>1. ~locked /\ job[w].read = failed /\ Counted /\ LockOK
      BY <1>1, <2>2 DEF Lone, Between, Careful
    <3>2. Paid'
      <4> DEFINE paid == (MaxFailures - 1) * guesses.passed
      <4>1. guesses'.codes = guesses.codes + 1 /\ guesses'.passed = guesses.passed
            /\ guesses.codes \in Nat /\ guesses.passed \in Nat
        BY <1>2, <2>1 DEF Guesses
      <4>2. paid \in Int
        BY <4>1, Bounds
      <4>3. guesses.codes <= paid + wrong
        BY <3>1 DEF LockOK, Paid
      <4> HIDE DEF paid
      <4>4. guesses'.codes <= paid + wrong'
        BY <1>2, <2>1, <4>1, <4>2, <4>3
      <4> QED
        BY <4>1, <4>4 DEF Paid, paid
    <3> QED
      BY <1>1, <1>9, <1>10, <2>1, <3>1, <3>2 DEF LockOK, Counted
  <2> QED
    BY <1>1, <1>2, <1>9, <1>10, <1>11, <2>1, <2>2, NoFamily, LockStatementIInv DEF Plain
<1> QED
  BY <1>12, <1>13

LEMMA ListSessionsIInv == ASSUME IInv, NEW w \in Workers, ListSessions(w) PROVE IInv'
<1> DEFINE beyond == Active(sessions) \ Survivors(Active(sessions))
           p == IF beyond = {} THEN job[w].next ELSE "trim"
           j == [Request(p, 0, 0) EXCEPT !.next = job[w].next, !.origin = job[w].origin,
                                         !.doomed = beyond]
<1>1. /\ job[w].pc = "limit" /\ Busy(w)
      /\ UNCHANGED <<lastUsed, step, codes, devices, sessions, consumed, accepted, reused,
                     raced, died, budget, failed, locked, counter, challenge, wrong, guesses>>
  BY DEF ListSessions, At, Busy, lock, history
<1>2. counter' \in [count : Nat, expires : BOOLEAN] /\ challenge' \subseteq Origins
      /\ failed' \in Nat /\ locked' \in BOOLEAN /\ wrong' \in Nat
      /\ guesses' \in Guesses
  BY <1>1 DEF IInv, TypeOK
<1>3. beyond \subseteq Rows
  BY Lengths, Bounds DEF IInv, RowsOK, Active
<1>4. /\ p \in {"idle", "trust", "settle", "trim"} /\ p \in Pcs /\ job[w].next \in Pcs
      /\ job[w].origin \in Origins
  BY NoFamily, PcNames DEF Job
<1>5. job' = [job EXCEPT ![w] = j]
  BY DEF ListSessions, IInv, TypeOK
<1> HIDE DEF beyond, p
<1>6. j \in Job /\ j.pc = p /\ j.family = 0 /\ j.next = job[w].next
  BY <1>3, <1>4 DEF Request, Job
<1> HIDE DEF j
<1>7. job' \in [Workers -> Job] /\ job'[w] = j /\ \A v \in Workers \ {w} : job'[v] = job[v]
  BY <1>5, <1>6, BecomesFacts DEF IInv
<1>8. ASSUME ~raced, ~died, Sure(w), Lone(w)
      PROVE  LockOK' /\ Counted'
  BY <1>1, <1>8 DEF Lone, Between, LockOK, Counted, Paid
<1> QED
  BY <1>1, <1>2, <1>4, <1>6, <1>7, <1>8, NoFamily, LockStatementIInv DEF Plain

-----------------------------------------------------------------------------
(* Statements about the tables. *)

LEMMA TableStatementIInv ==
  ASSUME IInv, NEW w \in Workers, Busy(w),
         UNCHANGED <<counter, step, raced, died, budget>>, challenge' \subseteq Origins,
         \/ UNCHANGED <<failed, locked, wrong, guesses>>
         \/ failed' = 0 /\ locked' = FALSE /\ wrong' = 0 /\ guesses' = NoGuesses,
         lastUsed' \in Nat, codes' \in Seq(Code), devices' \in Seq(Device),
         sessions' \in Seq(Session), consumed' \in [Rows -> Nat],
         accepted' \in Seq(Acceptance), reused' \subseteq Rows,
         job' \in [Workers -> Job], \A v \in Workers \ {w} : job'[v] = job[v],
         RowsOK', Persists, JobOK(w)',
         job[w].pc \notin {"expire", "fail"}, job'[w].pc \notin {"expire", "fail", "bump", "totp", "clear", "unlock"},
         ~raced /\ Sure(w) => Sure(w)',
         ~raced /\ ~died /\ Sure(w) /\ Lone(w) =>
           /\ job'[w].pc = "issue" /\ job'[w].family # 0 => sessions'[job'[w].row].opened # "before"
           /\ job'[w].pc = "ends" \/ CleanSessions'
           /\ job'[w].pc \in {"ends", "forget"} \/ CleanDevices'
  PROVE  IInv'
<1>1. failed' \in Nat /\ locked' \in BOOLEAN /\ wrong' \in Nat /\ guesses' \in Guesses
  <2>1. CASE UNCHANGED <<failed, locked, wrong, guesses>>
    BY <2>1 DEF IInv, TypeOK
  <2>2. CASE failed' = 0 /\ locked' = FALSE /\ wrong' = 0 /\ guesses' = NoGuesses
    BY <2>2, Forgotten
  <2> QED
    BY <2>1, <2>2
<1>2. TypeOK'
  BY <1>1 DEF IInv, TypeOK
<1>3. ASSUME LockOK, Counted
      PROVE  LockOK' /\ Counted'
  <2>1. CASE UNCHANGED <<failed, locked, wrong, guesses>>
    BY <1>3, <2>1 DEF LockOK, Counted, Paid
  <2>2. CASE failed' = 0 /\ locked' = FALSE /\ wrong' = 0 /\ guesses' = NoGuesses
    BY <2>2, Forgotten
  <2> QED
    BY <2>1, <2>2
<1>4. ASSUME ~raced, ~died, Sure(w), Lone(w)
      PROVE  Lone(w)'
  <2>1. LockOK' /\ Counted'
    BY <1>3, <1>4 DEF Lone, Between
  <2>2. Careful(w)' /\ Between(w)'
    BY <1>4, <2>1 DEF Careful, Between
  <2> QED
    BY <2>1, <2>2 DEF Lone
<1> QED
  BY <1>2, <1>4, StatementIInv

\* The tables a statement may leave alone.
LEMMA SameTypes ==
  ASSUME IInv
  PROVE  /\ lastUsed \in Nat /\ codes \in Seq(Code) /\ devices \in Seq(Device)
         /\ sessions \in Seq(Session) /\ consumed \in [Rows -> Nat]
         /\ accepted \in Seq(Acceptance) /\ reused \subseteq Rows
         /\ challenge \subseteq Origins /\ guesses \in Guesses
  BY DEF IInv, TypeOK

LEMMA OneMore ==
  ASSUME NEW S, NEW f \in [S -> Nat], NEW x
  PROVE  [f EXCEPT ![x] = @ + 1] \in [S -> Nat]
<1>1. ASSUME NEW y \in S
      PROVE  [f EXCEPT ![x] = @ + 1][y] \in Nat
  <2>1. CASE y = x
    BY <2>1
  <2>2. CASE y # x
    BY <2>2
  <2> QED
    BY <2>1, <2>2
<1> QED
  BY <1>1

LEMMA StampStepIInv == ASSUME IInv, NEW w \in Workers, StampStep(w) PROVE IInv'
<1> DEFINE s == job[w].row
           a == [code |-> job[w].code, at |-> s]
<1>1. /\ job[w].pc = "stamp" /\ Busy(w) /\ lastUsed' = s /\ accepted' = Append(accepted, a)
      /\ UNCHANGED <<counter, challenge, step, raced, died, budget, failed, locked, wrong, guesses,
                     codes, devices, sessions, consumed, reused>>
  BY DEF StampStep, At, Busy, lock
<1>2. PICK next \in {"trust", "settle"} :
        job' = [job EXCEPT ![w] = [Request("issue", 0, 0) EXCEPT !.next = next,
                                                                 !.origin = job[w].origin]]
  BY DEF StampStep
<1> DEFINE j == [Request("issue", 0, 0) EXCEPT !.next = next, !.origin = job[w].origin]
<1>3. j \in Job /\ j.pc = "issue" /\ j.family = 0 /\ j.next = next
  <2>1. next \in Pcs /\ "issue" \in Pcs
    BY PcNames
  <2>2. job[w].origin \in Origins
    BY NoFamily DEF Job
  <2> QED
    BY <2>1, <2>2 DEF Request, Job
<1> HIDE DEF j
<1>4. job' \in [Workers -> Job] /\ job'[w] = j /\ \A v \in Workers \ {w} : job'[v] = job[v]
  BY <1>2, <1>3, BecomesFacts DEF IInv, j
<1>5. RowsOK' /\ Persists /\ JobOK(w)'
  BY <1>1, <1>3, <1>4, SameRows DEF JobOK
<1>6. s \in Nat /\ a \in Acceptance /\ a.code = job[w].code /\ a.at = s
  BY NoFamily DEF Job, Acceptance
<1> HIDE DEF a
<1>7. /\ accepted' \in Seq(Acceptance) /\ Len(accepted') = Len(accepted) + 1
      /\ accepted'[Len(accepted) + 1] = a
      /\ \A n \in 1..Len(accepted) : accepted'[n] = accepted[n]
      /\ Len(accepted) \in Nat /\ \A n \in 1..Len(accepted) : accepted[n] \in Acceptance
  BY <1>1, <1>6, SameTypes, AppendProperties, LenProperties, ElementOfSeq
<1> HIDE DEF s
<1>8. ASSUME ~raced, Sure(w)
      PROVE  Sure(w)'
  <2>1. StampsOK /\ s > lastUsed /\ InReach(a.code, a.at) /\ lastUsed \in Nat
    BY <1>1, <1>6, <1>8, SameTypes DEF Sure, StillTrue, s
  <2>2. ASSUME NEW n \in 1..(Len(accepted) + 1)
        PROVE  /\ accepted'[n].at <= lastUsed' /\ InReach(accepted'[n].code, accepted'[n].at)
               /\ n = Len(accepted) + 1 \/ (n \in 1..Len(accepted) /\ accepted'[n].at <= lastUsed)
    <3>1. CASE n \in 1..Len(accepted)
      <4>1. accepted[n].at <= lastUsed /\ InReach(accepted[n].code, accepted[n].at)
        BY <2>1, <3>1 DEF StampsOK
      <4>2. accepted[n].at \in Nat
        BY <1>7, <3>1 DEF Acceptance
      <4> QED
        BY <1>1, <1>6, <1>7, <2>1, <3>1, <4>1, <4>2
    <3>2. CASE n = Len(accepted) + 1
      BY <1>1, <1>6, <1>7, <2>1, <3>2
    <3> QED
      BY <1>7, <3>1, <3>2
  <2>3. ASSUME NEW m \in 1..(Len(accepted) + 1), NEW n \in 1..(Len(accepted) + 1), m < n
        PROVE  accepted'[m].at < accepted'[n].at
    <3>1. m \in 1..Len(accepted) /\ accepted'[m] = accepted[m]
      BY <1>7, <2>3
    <3>2. CASE n \in 1..Len(accepted)
      BY <1>7, <2>1, <2>3, <3>1, <3>2 DEF StampsOK
    <3>3. CASE n = Len(accepted) + 1
      <4>1. accepted[m].at <= lastUsed /\ accepted[m].at \in Nat
        BY <1>7, <2>1, <3>1 DEF StampsOK, Acceptance
      <4> QED
        BY <1>6, <1>7, <2>1, <3>1, <3>3, <4>1
    <3> QED
      BY <1>7, <3>2, <3>3
  <2>4. StampsOK'
    BY <1>7, <2>2, <2>3 DEF StampsOK
  <2>5. Families' /\ CodesOK'
    BY <1>1, <1>8 DEF Sure, Families, Active, CodesOK
  <2> QED
    BY <1>3, <1>4, <2>4, <2>5 DEF Sure, StillTrue
<1>9. ASSUME ~raced, ~died, Sure(w), Lone(w)
      PROVE  CleanSessions' /\ CleanDevices'
  BY <1>1, <1>9 DEF Lone, Between, CleanSessions, CleanDevices, Active
<1>10. lastUsed' \in Nat
  BY <1>1, <1>6
<1> QED
  BY <1>1, <1>3, <1>4, <1>5, <1>7, <1>8, <1>9, <1>10, SameTypes, TableStatementIInv

LEMMA TrustDeviceIInv == ASSUME IInv, NEW w \in Workers, TrustDevice(w) PROVE IInv'
<1> DEFINE d == [status |-> "ACTIVE", opened |-> job[w].origin]
<1>1. /\ job[w].pc = "trust" /\ Busy(w) /\ devices' = Append(devices, d) /\ Goto(w, "settle")
      /\ UNCHANGED <<counter, challenge, step, raced, died, budget, failed, locked, wrong, guesses,
                     lastUsed, accepted, codes, sessions, consumed, reused>>
  BY DEF TrustDevice, At, Busy, lock, history
<1>2. d \in Device /\ d.opened # "before"
  BY NoFamily DEF Device, Job, Origins, Ages
<1> HIDE DEF d
<1>3. /\ job' \in [Workers -> Job] /\ \A v \in Workers \ {w} : job'[v] = job[v]
      /\ job'[w].pc = "settle" /\ job'[w].family = job[w].family /\ job'[w].next = job[w].next
  BY <1>1, GotoFacts, PcNames DEF IInv
<1>4. RowsOK' /\ Persists /\ JobOK(w)'
  BY <1>1, <1>3, SameRows, NoFamily DEF JobOK
<1>5. Sure(w) => Sure(w)'
  BY <1>1, <1>3 DEF Sure, StillTrue, Families, Active, CodesOK, StampsOK
<1>6. /\ devices' \in Seq(Device) /\ Len(devices') = Len(devices) + 1
      /\ devices'[Len(devices) + 1] = d /\ \A n \in 1..Len(devices) : devices'[n] = devices[n]
  BY <1>1, <1>2, SameTypes, AppendProperties
<1>7. ASSUME CleanDevices
      PROVE  CleanDevices'
  <2>1. DOMAIN devices' = 1..(Len(devices) + 1) /\ DOMAIN devices = 1..Len(devices)
        /\ Len(devices) \in Nat
    BY <1>6, SameTypes, LenProperties
  <2>2. ASSUME NEW n \in 1..(Len(devices) + 1), devices'[n].status = "ACTIVE"
        PROVE  devices'[n].opened # "before"
    <3>1. CASE n \in 1..Len(devices)
      BY <1>6, <1>7, <2>1, <2>2, <3>1 DEF CleanDevices, Active
    <3>2. CASE n = Len(devices) + 1
      BY <1>2, <1>6, <3>2
    <3> QED
      BY <2>1, <3>1, <3>2
  <2> QED
    BY <2>1, <2>2 DEF CleanDevices, Active
<1>8. ASSUME ~raced, ~died, Sure(w), Lone(w)
      PROVE  CleanSessions' /\ CleanDevices'
  <2>1. CleanSessions /\ CleanDevices
    BY <1>1, <1>8 DEF Lone, Between
  <2> QED
    BY <1>1, <1>7, <2>1 DEF CleanSessions, Active
<1> QED
  BY <1>1, <1>3, <1>4, <1>5, <1>6, <1>8, SameTypes, TableStatementIInv

LEMMA MissCodeIInv == ASSUME IInv, NEW w \in Workers, MissCode(w) PROVE IInv'
<1> DEFINE c == job[w].row
           x == [codes[c] EXCEPT !.attempts = codes[c].attempts + 1]
<1>1. /\ job[w].pc = "miss" /\ Busy(w) /\ End(w)
      /\ UNCHANGED <<counter, challenge, step, raced, died, budget, failed, locked, wrong, guesses,
                     lastUsed, accepted, devices, sessions, consumed, reused>>
  BY DEF MissCode, At, Busy, lock, history
<1>2. c \in 1..Len(codes) /\ codes[c] \in Code
  BY <1>1, Lengths DEF IInv, JobsOK, JobOK
<1>3. x \in Code /\ x.attempts = codes[c].attempts + 1 /\ x.consumed = codes[c].consumed
  BY <1>2 DEF Code
<1>4. codes' = [codes EXCEPT ![c] = x]
  BY <1>2, SameTypes DEF MissCode
<1>5. /\ codes' \in Seq(Code) /\ Len(codes') = Len(codes)
      /\ \A n \in 1..Len(codes) : codes'[n] = IF n = c THEN x ELSE codes[n]
  BY <1>2, <1>3, <1>4, SameTypes, ExceptSeq
<1> HIDE DEF x
<1>6. /\ job' \in [Workers -> Job] /\ \A v \in Workers \ {w} : job'[v] = job[v]
      /\ job'[w].pc = "idle" /\ job'[w].family = 0 /\ job'[w].next = "idle"
  BY <1>1, EndFacts DEF IInv
<1>7. Persists /\ RowsOK' /\ JobOK(w)'
  <2>1. Fades
    BY <1>1, SameSessions DEF IInv
  <2> QED
    BY <1>1, <1>5, <1>6, <2>1, PersistsFade DEF IInv, RowsOK, JobOK
<1>8. ASSUME ~raced, Sure(w)
      PROVE  Sure(w)'
  <2>1. codes[c].attempts < MaxAttempts /\ codes[c].attempts \in Nat
    BY <1>1, <1>2, <1>8 DEF Sure, StillTrue, Code
  <2>2. ASSUME NEW n \in Rows
        PROVE  consumed'[n] = IF n \in 1..Len(codes') /\ codes'[n].consumed THEN 1 ELSE 0
    BY <1>1, <1>3, <1>5, <1>8 DEF Sure, CodesOK
  <2>3. ASSUME NEW n \in 1..Len(codes')
        PROVE  codes'[n].attempts <= MaxAttempts
    <3>1. CASE n = c
      BY <1>3, <1>5, <2>1, <2>3, <3>1, Bounds
    <3>2. CASE n # c
      BY <1>5, <1>8, <2>3, <3>2 DEF Sure, CodesOK
    <3> QED
      BY <3>1, <3>2
  <2>4. CodesOK'
    BY <2>2, <2>3 DEF CodesOK
  <2> QED
    BY <1>1, <1>6, <1>8, <2>4 DEF Sure, StillTrue, Families, Active, StampsOK
<1>9. ASSUME ~raced, ~died, Sure(w), Lone(w)
      PROVE  CleanSessions' /\ CleanDevices'
  BY <1>1, <1>9 DEF Lone, Between, CleanSessions, CleanDevices, Active
<1> QED
  BY <1>1, <1>5, <1>6, <1>7, <1>8, <1>9, SameTypes, TableStatementIInv

LEMMA ConsumeCodeIInv == ASSUME IInv, NEW w \in Workers, ConsumeCode(w) PROVE IInv'
<1> DEFINE c == job[w].row
           x == [codes[c] EXCEPT !.consumed = TRUE]
<1>1. /\ job[w].pc = "consume" /\ Busy(w) /\ Goto(w, "reset")
      /\ consumed' = [consumed EXCEPT ![c] = @ + 1]
      /\ UNCHANGED <<counter, challenge, step, raced, died, budget, failed, locked, wrong, guesses,
                     lastUsed, accepted, devices, sessions, reused>>
  BY DEF ConsumeCode, At, Busy, lock
<1>2. c \in 1..Len(codes) /\ codes[c] \in Code /\ Len(codes) \in Nat
  BY <1>1, Lengths DEF IInv, JobsOK, JobOK
<1>3. x \in Code /\ x.attempts = codes[c].attempts /\ x.consumed = TRUE
  BY <1>2 DEF Code
<1>4. codes' = [codes EXCEPT ![c] = x]
  BY <1>2, SameTypes DEF ConsumeCode
<1>5. /\ codes' \in Seq(Code) /\ Len(codes') = Len(codes)
      /\ \A n \in 1..Len(codes) : codes'[n] = IF n = c THEN x ELSE codes[n]
  BY <1>2, <1>3, <1>4, SameTypes, ExceptSeq
<1> HIDE DEF x
<1>6. /\ job' \in [Workers -> Job] /\ \A v \in Workers \ {w} : job'[v] = job[v]
      /\ job'[w].pc = "reset" /\ job'[w].family = job[w].family /\ job'[w].next = job[w].next
  BY <1>1, GotoFacts, PcNames DEF IInv
<1>7. Persists /\ RowsOK' /\ JobOK(w)'
  <2>1. Fades
    BY <1>1, SameSessions DEF IInv
  <2> QED
    BY <1>1, <1>5, <1>6, <2>1, PersistsFade, NoFamily DEF IInv, RowsOK, JobOK
<1>8. c \in Rows /\ consumed' \in [Rows -> Nat]
  <2>1. c \in Rows
    BY <1>2, Bounds DEF IInv, RowsOK
  <2> QED
    BY <1>1, <2>1, SameTypes, OneMore
<1>9. ASSUME ~raced, Sure(w)
      PROVE  Sure(w)'
  <2>1. ~codes[c].consumed
    BY <1>1, <1>9 DEF Sure, StillTrue
  <2>2. consumed[c] = 0
    BY <1>2, <1>8, <1>9, <2>1 DEF Sure, CodesOK
  <2>3. ASSUME NEW n \in Rows
        PROVE  consumed'[n] = IF n \in 1..Len(codes') /\ codes'[n].consumed THEN 1 ELSE 0
    <3>1. CASE n = c
      BY <1>1, <1>2, <1>3, <1>5, <1>8, <2>2, <3>1, SameTypes
    <3>2. CASE n # c
      BY <1>1, <1>5, <1>9, <3>2, SameTypes DEF Sure, CodesOK
    <3> QED
      BY <3>1, <3>2
  <2>4. CodesOK'
    BY <1>3, <1>5, <1>9, <2>3 DEF Sure, CodesOK
  <2> QED
    BY <1>1, <1>6, <1>9, <2>4 DEF Sure, StillTrue, Families, Active, StampsOK
<1>10. ASSUME ~raced, ~died, Sure(w), Lone(w)
       PROVE  CleanSessions' /\ CleanDevices'
  BY <1>1, <1>10 DEF Lone, Between, CleanSessions, CleanDevices, Active
<1> QED
  BY <1>1, <1>5, <1>6, <1>7, <1>8, <1>9, <1>10, SameTypes, TableStatementIInv

-----------------------------------------------------------------------------
(* Statements about the sessions. *)

LEMMA CreateSessionIInv == ASSUME IInv, NEW w \in Workers, CreateSession(w) PROVE IInv'
<1> DEFINE n == Len(sessions) + 1
           f == job[w].family
           r == job[w].row
           g == IF f = 0 THEN n ELSE f
           o == IF f = 0 THEN job[w].origin ELSE sessions[r].opened
           x == [family |-> g, status |-> NewStatus, fresh |-> TRUE, opened |-> o]
<1>1. /\ job[w].pc = "issue" /\ Busy(w) /\ n \in Rows /\ Goto(w, "limit")
      /\ sessions' = Append(sessions, x)
      /\ UNCHANGED <<counter, challenge, step, raced, died, budget, failed, locked, wrong, guesses,
                     lastUsed, accepted, codes, devices, consumed, reused>>
  BY DEF CreateSession, At, Busy, lock, history
<1>2. /\ Len(sessions) \in Nat /\ DOMAIN sessions = 1..Len(sessions)
      /\ \A k \in 1..Len(sessions) : sessions[k] \in Session
  BY Lengths DEF IInv
<1>3. /\ f # 0 => f \in Rows /\ r \in 1..Len(sessions) /\ sessions[r].family = f
      /\ job[w].next \in {"idle", "trust", "settle"}
  BY DEF IInv, JobsOK, JobOK, TypeOK, Job
<1>4. /\ \A k \in 1..Len(sessions) : sessions[k].family <= k
      /\ reused \subseteq 1..Len(sessions) /\ Len(codes) <= MaxRows
  BY DEF IInv, RowsOK
<1>5. /\ x \in Session /\ x.family = (IF f = 0 THEN n ELSE f) /\ x.family <= n
      /\ (x.opened = "before" => f # 0 /\ sessions[r].opened = "before")
  <2>1. f # 0 => sessions[r].opened \in Ages /\ f <= r /\ f \in Nat /\ r \in Nat
    BY <1>2, <1>3, <1>4, Bounds DEF Session
  <2>2. o \in Ages
    BY <2>1, NoFamily DEF Job, Ages
  <2>3. g \in Rows /\ g <= n
    BY <1>1, <1>2, <1>3, <2>1
  <2>4. g = (IF f = 0 THEN n ELSE f) /\ (o = "before" => f # 0 /\ sessions[r].opened = "before")
    BY NoFamily DEF Job, Origins
  <2> HIDE DEF g, o
  <2>5. x \in Session /\ x.family = g /\ x.opened = o
    BY <2>2, <2>3 DEF Session, NewStatus
  <2> QED
    BY <2>3, <2>4, <2>5
<1> HIDE DEF x
<1>6. /\ sessions' \in Seq(Session) /\ Len(sessions') = n /\ sessions'[n] = x
      /\ \A k \in 1..Len(sessions) : sessions'[k] = sessions[k]
  BY <1>1, <1>5, SameTypes, AppendProperties
<1>7. DOMAIN sessions' = 1..n
  BY <1>6, LenProperties
<1>8. /\ job' \in [Workers -> Job] /\ \A v \in Workers \ {w} : job'[v] = job[v]
      /\ job'[w].pc = "limit" /\ job'[w].family = f /\ job'[w].next = job[w].next
      /\ job'[w].row = r
  BY <1>1, GotoFacts, PcNames DEF IInv
<1>9. RowsOK'
  <2>1. \A k \in 1..n : sessions'[k].family <= k
    BY <1>2, <1>4, <1>5, <1>6
  <2>2. n <= MaxRows
    BY <1>1, Bounds
  <2> QED
    BY <1>1, <1>2, <1>4, <1>6, <2>1, <2>2 DEF RowsOK
<1>10. Persists
  <2>1. Len(codes) \in Nat
    BY Lengths DEF IInv
  <2> QED
    BY <1>1, <1>2, <1>6, <2>1 DEF Persists
<1>11. JobOK(w)'
  BY <1>2, <1>3, <1>6, <1>8 DEF JobOK
<1>12. Active(sessions)' \subseteq Active(sessions) \cup {n}
  BY <1>2, <1>6, <1>7 DEF Active
<1>13. \A k \in Active(sessions) : k \in 1..Len(sessions) /\ sessions'[k] = sessions[k] /\ k # n
  BY <1>2, <1>6 DEF Active
<1> HIDE DEF n, f, r
<1>14. ASSUME ~raced, Sure(w)
       PROVE  Sure(w)'
  <2>1. x.family \notin reused /\ \A k \in Active(sessions) : sessions[k].family # x.family
    <3>1. CASE f = 0
      <4>1. x.family = n
        BY <1>5, <3>1
      <4>2. n \notin 1..Len(sessions) /\ \A k \in 1..Len(sessions) : sessions[k].family # n
        BY <1>2, <1>4 DEF n, Session, Rows
      <4> QED
        BY <1>4, <1>13, <4>1, <4>2
    <3>2. CASE f # 0
      BY <1>1, <1>5, <1>14, <3>2 DEF Sure, StillTrue, f
    <3> QED
      BY <3>1, <3>2
  <2>2. Families'
    <3>1. \A k \in Active(sessions)' : sessions'[k].family \notin reused'
      BY <1>1, <1>6, <1>12, <1>13, <1>14, <2>1 DEF Sure, Families
    <3>2. ASSUME NEW a \in Active(sessions)', NEW b \in Active(sessions)',
                 sessions'[a].family = sessions'[b].family
          PROVE  a = b
      <4>1. (a \in Active(sessions) \/ a = n) /\ (b \in Active(sessions) \/ b = n)
        BY <1>12
      <4> QED
        BY <1>6, <1>13, <1>14, <2>1, <3>2, <4>1 DEF Sure, Families
    <3> QED
      BY <3>1, <3>2 DEF Families
  <2>3. CodesOK' /\ StampsOK'
    BY <1>1, <1>14 DEF Sure, CodesOK, StampsOK
  <2> QED
    BY <1>8, <2>2, <2>3 DEF Sure, StillTrue
<1>15. ASSUME ~raced, ~died, Sure(w), Lone(w)
       PROVE  CleanSessions' /\ CleanDevices'
  <2>1. CleanSessions /\ CleanDevices /\ (f # 0 => sessions[r].opened # "before")
    BY <1>1, <1>15 DEF Lone, Between, Careful, f, r
  <2>2. CleanSessions'
    BY <1>5, <1>6, <1>12, <1>13, <2>1 DEF CleanSessions
  <2> QED
    BY <1>1, <2>1, <2>2 DEF CleanDevices, Active
<1> QED
  BY <1>1, <1>6, <1>8, <1>9, <1>10, <1>11, <1>14, <1>15, SameTypes, TableStatementIInv

\* The statements after which fewer sessions are active, and no family's luck turns.
LEMMA FadeStatementIInv ==
  ASSUME IInv, NEW w \in Workers, Busy(w), Fades,
         UNCHANGED <<counter, challenge, step, raced, died, budget, failed, locked, wrong, guesses,
                     lastUsed, accepted, codes, consumed>>,
         devices' \in Seq(Device), reused' \subseteq 1..Len(sessions),
         job' \in [Workers -> Job], \A v \in Workers \ {w} : job'[v] = job[v],
         job[w].pc \notin {"expire", "fail"},
         job'[w].pc \in {"idle", "issue", "trust", "settle", "family", "ends", "forget"},
         JobOK(w)',
         ~raced /\ Sure(w) =>
           /\ Families'
           /\ job'[w].pc = "issue" /\ job'[w].family # 0 =>
                /\ \A n \in Active(sessions)' : sessions'[n].family # job'[w].family
                /\ job'[w].family \notin reused',
         ~raced /\ ~died /\ Sure(w) /\ Lone(w) =>
           /\ job'[w].pc = "issue" /\ job'[w].family # 0 => sessions'[job'[w].row].opened # "before"
           /\ job'[w].pc = "ends" \/ CleanSessions'
           /\ job'[w].pc \in {"ends", "forget"} \/ CleanDevices'
  PROVE  IInv'
<1>1. Persists
  BY PersistsFade DEF IInv
<1>2. RowsOK'
  BY RowsFade DEF IInv
<1>3. reused' \subseteq Rows
  BY Lengths, Bounds DEF IInv, RowsOK
<1>4. ASSUME ~raced, Sure(w)
      PROVE  Sure(w)'
  <2>1. CodesOK' /\ StampsOK'
    BY <1>4 DEF Sure, CodesOK, StampsOK
  <2> QED
    BY <1>4, <2>1 DEF Sure, StillTrue
<1> QED
  BY <1>1, <1>2, <1>3, <1>4, SameTypes, TableStatementIInv DEF Fades

LEMMA TrimSessionsIInv == ASSUME IInv, NEW w \in Workers, TrimSessions(w) PROVE IInv'
<1> DEFINE j == [Request(job[w].next, 0, 0) EXCEPT !.origin = job[w].origin]
<1>1. /\ job[w].pc = "trim" /\ Busy(w) /\ sessions' = Revoked(sessions, job[w].doomed)
      /\ UNCHANGED <<counter, challenge, step, raced, died, budget, failed, locked, wrong, guesses,
                     lastUsed, accepted, codes, devices, consumed, reused>>
  BY DEF TrimSessions, At, Busy, lock, history
<1>2. job' = [job EXCEPT ![w] = j]
  BY DEF TrimSessions, IInv, TypeOK
<1>3. /\ j \in Job /\ j.pc = job[w].next /\ j.family = 0 /\ j.next = "idle"
      /\ j.pc \in {"idle", "trust", "settle"}
  BY NoFamily, PcNames DEF Request, Job
<1> HIDE DEF j
<1>4. job' \in [Workers -> Job] /\ job'[w] = j /\ \A v \in Workers \ {w} : job'[v] = job[v]
  BY <1>2, <1>3, BecomesFacts DEF IInv
<1>5. Fades /\ SameAge /\ JobOK(w)'
  BY <1>1, <1>3, <1>4, RevokedSessions DEF IInv, JobOK
<1>6. Sure(w) => Families'
  BY <1>1, <1>5, FamiliesFade DEF Sure, IInv
<1>7. Lone(w) => CleanSessions' /\ CleanDevices'
  <2>1. Lone(w) => CleanSessions /\ CleanDevices
    BY <1>1 DEF Lone, Between
  <2>2. CleanSessions => CleanSessions'
    BY <1>5, CleanFade DEF IInv
  <2> QED
    BY <1>1, <2>1, <2>2 DEF CleanDevices, Active
<1>8. devices' \in Seq(Device) /\ reused' \subseteq 1..Len(sessions)
  BY <1>1, SameTypes DEF IInv, RowsOK
<1> QED
  BY <1>1, <1>3, <1>4, <1>5, <1>6, <1>7, <1>8, FadeStatementIInv

LEMMA RotateIInv == ASSUME IInv, NEW w \in Workers, Rotate(w) PROVE IInv'
<1> DEFINE r == job[w].row
           x == [sessions[r] EXCEPT !.status = "REVOKED"]
<1>1. /\ job[w].pc = "rotate" /\ Busy(w) /\ Goto(w, "issue")
      /\ UNCHANGED <<counter, challenge, step, raced, died, budget, failed, locked, wrong, guesses,
                     lastUsed, accepted, codes, devices, consumed, reused>>
  BY DEF Rotate, At, Busy, lock, history
<1>2. /\ r \in 1..Len(sessions) /\ sessions[r] \in Session /\ job[w].family # 0
      /\ sessions[r].family = job[w].family /\ job[w].next \in {"idle", "trust", "settle"}
      /\ DOMAIN sessions = 1..Len(sessions)
  BY <1>1, Lengths DEF IInv, JobsOK, JobOK
<1>3. /\ x \in Session /\ x.family = sessions[r].family /\ x.opened = sessions[r].opened
      /\ x.status = "REVOKED"
  BY <1>2 DEF Session
<1>4. sessions' = [sessions EXCEPT ![r] = x]
  BY <1>2, SameTypes DEF Rotate, AfterRotation
<1>5. /\ sessions' \in Seq(Session) /\ Len(sessions') = Len(sessions)
      /\ \A k \in 1..Len(sessions) : sessions'[k] = IF k = r THEN x ELSE sessions[k]
  BY <1>2, <1>3, <1>4, SameTypes, ExceptSeq
<1> HIDE DEF x
<1>6. Fades /\ SameAge
  BY <1>3, <1>5 DEF Fades, SameAge
<1>7. /\ job' \in [Workers -> Job] /\ \A v \in Workers \ {w} : job'[v] = job[v]
      /\ job'[w].pc = "issue" /\ job'[w].family = job[w].family /\ job'[w].next = job[w].next
      /\ job'[w].row = r
  BY <1>1, GotoFacts, PcNames DEF IInv
<1>8. JobOK(w)'
  BY <1>2, <1>3, <1>5, <1>7 DEF JobOK
<1> HIDE DEF r
<1>9. ASSUME ~raced, Sure(w)
      PROVE  /\ Families' /\ job'[w].family \notin reused'
             /\ \A n \in Active(sessions)' : sessions'[n].family # job'[w].family
  <2>1. sessions[r].status = "ACTIVE" /\ Families
    BY <1>1, <1>9 DEF Sure, StillTrue, r
  <2>2. r \in Active(sessions)
    BY <1>2, <2>1 DEF Active
  <2>3. Families'
    BY <1>1, <1>6, <2>1, FamiliesFade DEF IInv
  <2>4. ASSUME NEW n \in Active(sessions)'
        PROVE  sessions'[n].family # job'[w].family
    <3>1. n \in Active(sessions) /\ sessions'[n].family = sessions[n].family /\ n \in 1..Len(sessions)
      BY <1>6, FadesActive DEF IInv
    <3>2. n # r
      BY <1>3, <1>5, <3>1 DEF Active
    <3> QED
      BY <1>2, <1>7, <2>1, <2>2, <3>1, <3>2 DEF Families
  <2> QED
    BY <1>1, <1>2, <1>7, <2>1, <2>2, <2>3, <2>4 DEF Families
<1>10. ASSUME ~raced, ~died, Sure(w), Lone(w)
       PROVE  CleanSessions' /\ CleanDevices' /\ sessions'[job'[w].row].opened # "before"
  <2>1. CleanSessions /\ CleanDevices /\ sessions[r].status = "ACTIVE"
    BY <1>1, <1>10 DEF Lone, Between, Sure, StillTrue, r
  <2>2. sessions[r].opened # "before"
    BY <1>2, <2>1 DEF CleanSessions, Active
  <2>3. CleanSessions'
    BY <1>6, <2>1, CleanFade DEF IInv
  <2> QED
    BY <1>1, <1>2, <1>3, <1>5, <1>7, <2>1, <2>2, <2>3 DEF CleanDevices, Active
<1>11. devices' \in Seq(Device) /\ reused' \subseteq 1..Len(sessions)
  BY <1>1, SameTypes DEF IInv, RowsOK
<1> QED
  BY <1>1, <1>6, <1>7, <1>8, <1>9, <1>10, <1>11, FadeStatementIInv

LEMMA DetectReuseIInv == ASSUME IInv, NEW w \in Workers, DetectReuse(w) PROVE IInv'
<1>1. job[w].pc = "reuse" /\ Busy(w) /\ (Goto(w, "family") \/ End(w))
  BY DEF DetectReuse, At, Busy
<1>2. UNCHANGED <<counter, challenge, step, raced, died, budget, failed, locked, wrong, guesses,
                   lastUsed, accepted, codes, devices, sessions, consumed, reused>>
  BY DEF DetectReuse, lock, history
<1>3. /\ job' \in [Workers -> Job] /\ \A v \in Workers \ {w} : job'[v] = job[v]
      /\ job'[w].pc \in {"idle", "family"} /\ JobOK(w)'
  <2>1. CASE Goto(w, "family")
    BY <1>1, <1>2, <2>1, GotoFacts, PcNames DEF IInv, JobsOK, JobOK
  <2>2. CASE End(w)
    BY <2>2, EndFacts DEF IInv, JobOK
  <2> QED
    BY <1>1, <2>1, <2>2
<1>4. Fades /\ SameAge
  BY <1>2, SameSessions DEF IInv
<1>5. Sure(w) => Families'
  BY <1>2, SameTables DEF Sure
<1>6. Lone(w) => CleanSessions' /\ CleanDevices'
  BY <1>1, <1>2, SameTables DEF Lone, Between
<1>7. devices' \in Seq(Device) /\ reused' \subseteq 1..Len(sessions)
  BY <1>2, SameTypes DEF IInv, RowsOK
<1> QED
  BY <1>1, <1>2, <1>3, <1>4, <1>5, <1>6, <1>7, FadeStatementIInv

LEMMA RevokeFamilyIInv == ASSUME IInv, NEW w \in Workers, RevokeFamily(w) PROVE IInv'
<1> DEFINE r == job[w].row
           f == job[w].family
<1>1. /\ job[w].pc = "family" /\ Busy(w) /\ sessions' = Revoked(sessions, FamilyOf(r))
      /\ reused' = reused \cup {f} /\ End(w)
      /\ UNCHANGED <<counter, challenge, step, raced, died, budget, failed, locked, wrong, guesses,
                     lastUsed, accepted, codes, devices, consumed>>
  BY DEF RevokeFamily, At, Busy, lock
<1>2. /\ r \in 1..Len(sessions) /\ sessions[r].family = f /\ f # 0 /\ sessions[r] \in Session
      /\ DOMAIN sessions = 1..Len(sessions) /\ Len(sessions) \in Nat
  BY <1>1, Lengths DEF IInv, JobsOK, JobOK
<1>3. /\ Fades /\ SameAge
      /\ \A n \in 1..Len(sessions) : n \in FamilyOf(r) => sessions'[n].status = "REVOKED"
  BY <1>1, RevokedSessions DEF IInv
<1>4. f \in 1..Len(sessions)
  BY <1>2 DEF IInv, RowsOK, Session, Rows
<1>5. /\ job' \in [Workers -> Job] /\ \A v \in Workers \ {w} : job'[v] = job[v]
      /\ job'[w].pc = "idle" /\ JobOK(w)'
  BY <1>1, EndFacts DEF IInv, JobOK
<1> HIDE DEF r, f
<1>6. ASSUME Sure(w)
      PROVE  Families'
  <2>1. ASSUME NEW n \in Active(sessions)'
        PROVE  /\ n \in Active(sessions) /\ sessions'[n].family = sessions[n].family
               /\ sessions[n].family # f
    <3>1. n \in Active(sessions) /\ sessions'[n].family = sessions[n].family /\ n \in 1..Len(sessions)
      BY <1>3, FadesActive DEF IInv
    <3>2. sessions'[n].status = "ACTIVE"
      BY DEF Active
    <3>3. n \notin FamilyOf(r)
      BY <1>3, <3>1, <3>2
    <3> QED
      BY <1>2, <3>1, <3>3 DEF FamilyOf
  <2> QED
    BY <1>1, <1>6, <2>1 DEF Sure, Families
<1>7. Lone(w) => CleanSessions' /\ CleanDevices'
  <2>1. Lone(w) => CleanSessions /\ CleanDevices
    BY <1>1 DEF Lone, Between
  <2>2. CleanSessions => CleanSessions'
    BY <1>3, CleanFade DEF IInv
  <2> QED
    BY <1>1, <2>1, <2>2 DEF CleanDevices, Active
<1>8. devices' \in Seq(Device) /\ reused' \subseteq 1..Len(sessions)
  BY <1>1, <1>4, SameTypes DEF IInv, RowsOK
<1> QED
  BY <1>1, <1>3, <1>5, <1>6, <1>7, <1>8, FadeStatementIInv

LEMMA RevokeSessionsIInv == ASSUME IInv, NEW w \in Workers, RevokeSessions(w) PROVE IInv'
<1>1. /\ job[w].pc = "ends" /\ Busy(w) /\ sessions' = Revoked(sessions, DOMAIN sessions)
      /\ Goto(w, "forget")
      /\ UNCHANGED <<counter, challenge, step, raced, died, budget, failed, locked, wrong, guesses,
                     lastUsed, accepted, codes, devices, consumed, reused>>
  BY DEF RevokeSessions, At, Busy, lock, history
<1>2. /\ Fades /\ SameAge
      /\ \A n \in 1..Len(sessions) : sessions'[n].status = "REVOKED"
  BY <1>1, RevokedSessions, Lengths DEF IInv
<1>3. Active(sessions)' = {}
  BY <1>2, FadesActive DEF IInv, Active
<1>4. /\ job' \in [Workers -> Job] /\ \A v \in Workers \ {w} : job'[v] = job[v]
      /\ job'[w].pc = "forget" /\ job'[w].family = job[w].family /\ job'[w].next = job[w].next
  BY <1>1, GotoFacts, PcNames DEF IInv
<1>5. JobOK(w)'
  BY <1>1, <1>4, NoFamily DEF JobOK
<1>6. Families' /\ CleanSessions'
  BY <1>3 DEF Families, CleanSessions
<1>7. devices' \in Seq(Device) /\ reused' \subseteq 1..Len(sessions)
  BY <1>1, SameTypes DEF IInv, RowsOK
<1> QED
  BY <1>1, <1>2, <1>4, <1>5, <1>6, <1>7, FadeStatementIInv

LEMMA RevokeDevicesIInv == ASSUME IInv, NEW w \in Workers, RevokeDevices(w) PROVE IInv'
<1>1. /\ job[w].pc = "forget" /\ Busy(w) /\ devices' = Revoked(devices, DOMAIN devices) /\ End(w)
      /\ UNCHANGED <<counter, challenge, step, raced, died, budget, failed, locked, wrong, guesses,
                     lastUsed, accepted, codes, sessions, consumed, reused>>
  BY DEF RevokeDevices, NoDevices, At, Busy, lock, history
<1>2. \A x \in Device : [x EXCEPT !.status = "REVOKED"] \in Device
  BY DEF Device
<1>3. devices \in Seq(Device) /\ DOMAIN devices = 1..Len(devices)
      /\ \A n \in 1..Len(devices) : devices[n] \in Device
  BY SameTypes, Lengths DEF IInv
<1>4. /\ devices' \in Seq(Device) /\ Len(devices') = Len(devices)
      /\ \A n \in 1..Len(devices) :
           devices'[n] = IF n \in DOMAIN devices /\ devices[n].status = "ACTIVE"
                           THEN [devices[n] EXCEPT !.status = "REVOKED"] ELSE devices[n]
  BY <1>1, <1>2, <1>3, RevokedRows
<1>5. \A n \in 1..Len(devices) : devices'[n].status # "ACTIVE"
  BY <1>3, <1>4 DEF Device
<1>6. DOMAIN devices' = 1..Len(devices)
  BY <1>4, LenProperties
<1>7. CleanDevices'
  BY <1>5, <1>6 DEF CleanDevices, Active
<1>8. /\ job' \in [Workers -> Job] /\ \A v \in Workers \ {w} : job'[v] = job[v]
      /\ job'[w].pc = "idle" /\ JobOK(w)'
  BY <1>1, EndFacts DEF IInv, JobOK
<1>9. Fades /\ SameAge
  BY <1>1, SameSessions DEF IInv
<1>10. Sure(w) => Families'
  BY <1>1 DEF Sure, Families, Active
<1>11. Lone(w) => CleanSessions'
  BY <1>1 DEF Lone, Between, CleanSessions, Active
<1>12. reused' \subseteq 1..Len(sessions)
  BY <1>1 DEF IInv, RowsOK
<1> QED
  BY <1>1, <1>4, <1>7, <1>8, <1>9, <1>10, <1>11, <1>12, FadeStatementIInv

LEMMA OldRows ==
  ASSUME NEW T, NEW rows \in Seq(T), \A x \in T : [x EXCEPT !.opened = "before"] \in T
  PROVE  /\ Old(rows) \in Seq(T) /\ Len(Old(rows)) = Len(rows)
         /\ \A n \in 1..Len(rows) : Old(rows)[n] = [rows[n] EXCEPT !.opened = "before"]
<1> DEFINE f == Old(rows)
<1>1. DOMAIN rows = 1..Len(rows) /\ \A n \in 1..Len(rows) : rows[n] \in T
  BY LenProperties, ElementOfSeq
<1>2. \A n \in 1..Len(rows) : f[n] = [rows[n] EXCEPT !.opened = "before"]
  BY <1>1 DEF Old
<1>3. \A n \in 1..Len(rows) : f[n] \in T
  BY <1>1, <1>2
<1>4. f = [n \in DOMAIN rows |-> f[n]]
  BY DEF Old
<1> HIDE DEF f
<1>5. f \in Seq(T) /\ Len(f) = Len(rows)
  BY <1>3, <1>4, Rewritten
<1> QED
  BY <1>2, <1>5 DEF f

LEMMA WritePasswordIInv == ASSUME IInv, NEW w \in Workers, WritePassword(w) PROVE IInv'
<1>1. /\ job[w].pc \in {"change", "reset"} /\ Busy(w) /\ Goto(w, "ends")
      /\ sessions' = Old(sessions) /\ devices' = Old(devices)
  BY DEF WritePassword, At, Busy
<1>2. /\ UNCHANGED <<counter, step, raced, died, budget, lastUsed, accepted, codes, consumed, reused>>
      /\ challenge' \subseteq Origins
  BY DEF WritePassword, Origins
<1>3. \/ UNCHANGED <<failed, locked, wrong, guesses>>
      \/ failed' = 0 /\ locked' = FALSE /\ wrong' = 0 /\ guesses' = NoGuesses
  BY DEF WritePassword
<1>4. /\ \A x \in Session : [x EXCEPT !.opened = "before"] \in Session
      /\ \A x \in Device : [x EXCEPT !.opened = "before"] \in Device
  BY DEF Session, Device, Ages
<1>5. /\ sessions' \in Seq(Session) /\ Len(sessions') = Len(sessions)
      /\ \A n \in 1..Len(sessions) : sessions'[n] = [sessions[n] EXCEPT !.opened = "before"]
  BY <1>1, <1>4, SameTypes, OldRows
<1>6. devices' \in Seq(Device)
  BY <1>1, <1>4, SameTypes, OldRows
<1>7. Fades
  <2>1. \A n \in 1..Len(sessions) : sessions[n] \in Session
    BY Lengths DEF IInv
  <2> QED
    BY <1>5, <2>1 DEF Fades, Session
<1>8. /\ job' \in [Workers -> Job] /\ \A v \in Workers \ {w} : job'[v] = job[v]
      /\ job'[w].pc = "ends" /\ job'[w].family = job[w].family /\ job'[w].next = job[w].next
  BY <1>1, GotoFacts, PcNames DEF IInv
<1>9. JobOK(w)' /\ RowsOK' /\ Persists
  <2>1. JobOK(w)'
    BY <1>1, <1>8, NoFamily DEF JobOK
  <2>2. RowsOK'
    BY <1>2, <1>7, RowsFade DEF IInv, RowsOK
  <2>3. Persists
    BY <1>2, <1>7, PersistsFade DEF IInv
  <2> QED
    BY <2>1, <2>2, <2>3
<1>10. ASSUME Sure(w)
       PROVE  Sure(w)'
  <2>1. Families'
    BY <1>2, <1>7, <1>10, FamiliesFade DEF Sure, IInv
  <2> QED
    BY <1>2, <1>8, <1>10, <2>1 DEF Sure, StillTrue, CodesOK, StampsOK
<1> QED
  BY <1>1, <1>2, <1>3, <1>5, <1>6, <1>8, <1>9, <1>10, SameTypes, TableStatementIInv

-----------------------------------------------------------------------------
(* Requests that start, and requests that die. *)

LEMMA OverlapFacts ==
  ASSUME Overlap
  PROVE  /\ raced => raced'
         /\ ~raced' => \A v \in Workers : ~Busy(v)
         /\ raced' \in BOOLEAN
<1>1. raced' = (raced \/ \E v \in Workers : Busy(v))
  BY DEF Overlap, Busy, At
<1>2. raced => raced'
  BY <1>1, Zenon
<1>3. ~raced' => \A v \in Workers : ~Busy(v)
  BY <1>1, Zenon
<1>4. raced' \in BOOLEAN
  BY <1>1
<1> QED
  BY <1>2, <1>3, <1>4

LEMMA BeginIInv ==
  ASSUME IInv, NEW w \in Workers, NEW kind \in Kinds, NEW j \in Job, Begin(w, kind, j),
         UNCHANGED <<failed, locked, counter, challenge, lastUsed, step, codes, devices, sessions,
                     wrong, guesses, consumed, accepted, reused>>,
         job'[w] = j => JobOK(w)',
         Sure(w) /\ job'[w] = j => StillTrue(w)',
         Lone(w) /\ job[w].pc = "idle" /\ job'[w] = j => Careful(w)' /\ Between(w)'
  PROVE  IInv'
<1>1. job' = [job EXCEPT ![w] = j] /\ ~Busy(w) /\ Overlap /\ Spend(kind) /\ died' = died
      /\ job[w].pc = "idle"
  BY DEF Begin, At, Busy
<1>2. job' \in [Workers -> Job] /\ job'[w] = j /\ \A v \in Workers \ {w} : job'[v] = job[v]
  BY <1>1, BecomesFacts DEF IInv
<1>3. /\ raced => raced'
      /\ ~raced' => \A v \in Workers : ~Busy(v)
      /\ raced' \in BOOLEAN
  BY <1>1, OverlapFacts
<1>4. TypeOK'
  <2>1. budget' \in [Kinds -> Nat]
    BY <1>1, SpendOK DEF IInv
  <2> QED
    BY <1>1, <1>2, <1>3, <2>1 DEF IInv, TypeOK
<1>5. RowsOK' /\ Persists
  BY SameRows
<1>6. ASSUME ~raced'
      PROVE  Sure(w)' /\ (~died' => Lone(w)')
  <2>1. ~raced
    BY <1>3, <1>6, Zenon
  <2>2. Sure(w) /\ (~died => Lone(w))
    BY <1>3, <1>6, <2>1, AloneFacts
  <2>3. Families' /\ CodesOK' /\ StampsOK'
    BY <2>2 DEF Sure, Families, Active, CodesOK, StampsOK
  <2>4. Sure(w)'
    BY <1>2, <2>2, <2>3 DEF Sure
  <2>5. ASSUME ~died'
        PROVE  Lone(w)'
    <3>1. Lone(w)
      BY <1>1, <2>2, <2>5, Zenon
    <3>2. LockOK'
      BY <3>1 DEF Lone, LockOK, Paid
    <3> QED
      BY <1>1, <1>2, <3>1, <3>2 DEF Lone
  <2> QED
    BY <2>4, <2>5
<1> QED
  BY <1>2, <1>3, <1>4, <1>5, <1>6, MovedIInv

LEMMA Same == 
  ASSUME UNCHANGED <<lock, challenge, lastUsed, step, codes, devices, sessions, history>>
  PROVE  UNCHANGED <<failed, locked, counter, challenge, lastUsed, step, codes, devices, sessions,
                     wrong, guesses, consumed, accepted, reused>>
  BY DEF lock, history

LEMMA Naturals ==
  ASSUME IInv
  PROVE  failed \in Nat /\ wrong \in Nat /\ guesses \in Guesses /\ step \in Nat /\ 0 \in Nat
  BY DEF IInv, TypeOK

\* A running request that has read nothing the invariant is about.
LEMMA Unread ==
  ASSUME NEW w, job'[w].family = 0,
         job'[w].pc \notin {"rotate", "reuse", "family", "consume", "miss", "stamp"}
  PROVE  StillTrue(w)' /\ (job'[w].next = "idle" => JobOK(w)')
  BY DEF StillTrue, JobOK

LEMMA StillBetween ==
  ASSUME NEW w \in Workers, Lone(w), job[w].pc = "idle",
         UNCHANGED <<failed, locked, wrong, guesses, sessions, devices>>
  PROVE  Between(w)'
  BY DEF Lone, Between, CleanSessions, CleanDevices, Counted, Active

LEMMA TryPasswordIInv ==
  ASSUME IInv, NEW w \in Workers, NEW right \in BOOLEAN, TryPassword(w, right)
  PROVE  IInv'
<1> DEFINE p == IF right THEN "clear" ELSE "bump"
           j == Request(p, 0, failed)
<1>1. /\ ~locked /\ Begin(w, "password", j)
      /\ UNCHANGED <<lock, challenge, lastUsed, step, codes, devices, sessions, history>>
  BY DEF TryPassword
<1>2. p \in {"clear", "bump"} /\ p \in Pcs
  BY PcNames
<1> HIDE DEF p
<1>3. j \in Job /\ j.pc = p /\ j.read = failed /\ j.family = 0 /\ j.next = "idle"
  BY <1>2, Naturals, RequestFacts
<1> HIDE DEF j
<1>4. ASSUME job'[w] = j
      PROVE  JobOK(w)' /\ StillTrue(w)'
  BY <1>2, <1>3, <1>4, Unread
<1>5. ASSUME Lone(w), job[w].pc = "idle", job'[w] = j
      PROVE  Careful(w)' /\ Between(w)'
  <2>1. Between(w)'
    BY <1>1, <1>5, Same, StillBetween
  <2>2. Careful(w)'
    BY <1>1, <1>2, <1>3, <1>5, Same DEF Careful
  <2> QED
    BY <2>1, <2>2
<1> QED
  BY <1>1, <1>3, <1>4, <1>5, Same, Naturals, BeginIInv DEF Kinds

LEMMA TryTotpIInv ==
  ASSUME IInv, NEW w \in Workers, NEW token \in Origins, NEW code \in Codes \cup {0},
         TryTotp(w, token, code)
  PROVE  IInv'
<1> DEFINE j == [Request("totp", 0, failed) EXCEPT !.code = code, !.origin = token]
<1>1. /\ ~locked /\ Begin(w, "totp", j)
      /\ UNCHANGED <<lock, challenge, lastUsed, step, codes, devices, sessions, history>>
  BY DEF TryTotp
<1>2. code \in Nat
  BY Bounds DEF Codes
<1>3. j \in Job /\ j.pc = "totp" /\ j.read = failed /\ j.family = 0 /\ j.next = "idle"
  BY <1>2, Naturals, PcNames DEF Request, Job
<1> HIDE DEF j
<1>4. ASSUME job'[w] = j
      PROVE  JobOK(w)' /\ StillTrue(w)'
  BY <1>3, <1>4, Unread
<1>5. ASSUME Lone(w), job[w].pc = "idle", job'[w] = j
      PROVE  Careful(w)' /\ Between(w)'
  <2>1. Between(w)'
    BY <1>1, <1>5, Same, StillBetween
  <2>2. Careful(w)'
    BY <1>1, <1>3, <1>5, Same DEF Careful
  <2> QED
    BY <2>1, <2>2
<1> QED
  BY <1>1, <1>3, <1>4, <1>5, Same, Naturals, BeginIInv DEF Kinds

LEMMA TryCodeIInv ==
  ASSUME IInv, NEW w \in Workers, NEW right \in BOOLEAN, TryCode(w, right)
  PROVE  IInv'
<1> DEFINE p == IF right THEN "consume" ELSE "miss"
<1>1. PICK c \in Newest(Unconsumed, 1) :
        /\ ~Exhausted(codes[c].attempts)
        /\ Begin(w, "code", Request(p, c, 0))
        /\ UNCHANGED <<lock, challenge, lastUsed, step, codes, devices, sessions, history>>
  BY DEF TryCode
<1> DEFINE j == Request(p, c, 0)
<1>2. p \in {"consume", "miss"} /\ p \in Pcs
  BY PcNames
<1> HIDE DEF p
<1>3. c \in 1..Len(codes) /\ ~codes[c].consumed /\ codes[c] \in Code /\ c \in Nat
  BY Lengths DEF IInv, Newest, Unconsumed
<1>4. codes[c].attempts < MaxAttempts
  BY <1>1, <1>3, Bounds DEF Exhausted, Code
<1>5. j \in Job /\ j.pc = p /\ j.row = c /\ j.family = 0 /\ j.next = "idle"
  BY <1>2, <1>3, Naturals, RequestFacts
<1>6. Begin(w, "code", j)
  BY <1>1
<1> HIDE DEF j
<1>7. ASSUME job'[w] = j
      PROVE  JobOK(w)' /\ StillTrue(w)'
  BY <1>1, <1>2, <1>3, <1>4, <1>5, <1>7, Same DEF JobOK, StillTrue
<1>8. ASSUME Lone(w), job[w].pc = "idle", job'[w] = j
      PROVE  Careful(w)' /\ Between(w)'
  <2>1. Between(w)'
    BY <1>1, <1>8, Same, StillBetween
  <2>2. Careful(w)'
    BY <1>2, <1>5, <1>8 DEF Careful
  <2> QED
    BY <2>1, <2>2
<1> QED
  BY <1>1, <1>5, <1>6, <1>7, <1>8, Same, Naturals, BeginIInv DEF Kinds

LEMMA RefreshIInv ==
  ASSUME IInv, NEW w \in Workers, NEW s \in Rows, Refresh(w, s)
  PROVE  IInv'
<1> DEFINE p == IF sessions[s].status = "ACTIVE" /\ sessions[s].fresh THEN "rotate" ELSE "reuse"
           i == Request(p, s, 0)
           j == [i EXCEPT !.family = sessions[s].family]
<1>1. /\ s \in DOMAIN sessions /\ Begin(w, "refresh", j)
      /\ UNCHANGED <<lock, challenge, lastUsed, step, codes, devices, sessions, history>>
  BY DEF Refresh
<1>2. p \in {"rotate", "reuse"} /\ p \in Pcs /\ (p = "rotate" => sessions[s].status = "ACTIVE")
  BY PcNames
<1>3. s \in 1..Len(sessions) /\ s \in Nat /\ sessions[s].family \in Rows /\ 0 \notin Rows
  BY <1>1, Lengths, Bounds DEF IInv, Session
<1> HIDE DEF p
<1>4. i \in Job /\ i.pc = p /\ i.row = s /\ i.next = "idle"
  BY <1>2, <1>3, RequestFacts
<1> HIDE DEF i
<1>5. j \in Job /\ j.pc = p /\ j.row = s /\ j.family = sessions[s].family /\ j.next = "idle"
  BY <1>3, <1>4 DEF Job
<1> HIDE DEF j
<1>6. ASSUME job'[w] = j
      PROVE  JobOK(w)' /\ StillTrue(w)'
  BY <1>1, <1>2, <1>3, <1>5, <1>6, Same DEF JobOK, StillTrue
<1>7. ASSUME Lone(w), job[w].pc = "idle", job'[w] = j
      PROVE  Careful(w)' /\ Between(w)'
  <2>1. Between(w)'
    BY <1>1, <1>7, Same, StillBetween
  <2>2. Careful(w)'
    BY <1>2, <1>5, <1>7 DEF Careful
  <2> QED
    BY <2>1, <2>2
<1> QED
  BY <1>1, <1>5, <1>6, <1>7, Same, Naturals, BeginIInv DEF Kinds

LEMMA EndRequestIInv ==
  ASSUME IInv, NEW w \in Workers, LogoutAll(w) \/ ChangePassword(w)
  PROVE  IInv'
<1>1. PICK p \in {"ends", "change"} :
        /\ Begin(w, "end", Request(p, 0, 0))
        /\ UNCHANGED <<lock, challenge, lastUsed, step, codes, devices, sessions, history>>
  BY DEF LogoutAll, ChangePassword
<1> DEFINE j == Request(p, 0, 0)
<1>2. j \in Job /\ j.pc = p /\ j.family = 0 /\ j.next = "idle"
  BY PcNames, Naturals, RequestFacts
<1>3. Begin(w, "end", j)
  BY <1>1
<1> HIDE DEF j
<1>4. ASSUME job'[w] = j
      PROVE  JobOK(w)' /\ StillTrue(w)'
  BY <1>2, <1>4, Unread
<1>5. ASSUME Lone(w), job[w].pc = "idle", job'[w] = j
      PROVE  Careful(w)' /\ Between(w)'
  <2>1. Between(w)'
    BY <1>1, <1>5, Same, StillBetween
  <2>2. Careful(w)'
    BY <1>2, <1>5 DEF Careful
  <2> QED
    BY <2>1, <2>2
<1> QED
  BY <1>1, <1>2, <1>3, <1>4, <1>5, Same, Naturals, BeginIInv DEF Kinds

LEMMA AbortIInv == ASSUME IInv, NEW w \in Workers, Abort(w) PROVE IInv'
<1>1. /\ Busy(w) /\ Spend("death") /\ End(w) /\ died' = TRUE
      /\ UNCHANGED <<failed, locked, counter, wrong, guesses, challenge, lastUsed, step, codes, devices,
                     sessions, consumed, accepted, reused, raced>>
  BY DEF Abort, Busy, At, lock, history
<1>2. /\ job' \in [Workers -> Job] /\ \A v \in Workers \ {w} : job'[v] = job[v]
      /\ job'[w].pc = "idle" /\ job'[w].family = 0 /\ job'[w].next = "idle"
  BY <1>1, EndFacts DEF IInv
<1>3. TypeOK'
  <2>1. budget' \in [Kinds -> Nat]
    BY <1>1, SpendOK DEF IInv, Kinds
  <2> QED
    BY <1>1, <1>2, <2>1 DEF IInv, TypeOK
<1>4. RowsOK' /\ Persists
  BY <1>1, SameRows
<1>5. JobOK(w)' /\ StillTrue(w)'
  BY <1>2, Unread
<1>6. raced => raced'
  BY <1>1, Zenon
<1>7. ~raced' => ~raced
  BY <1>1, Zenon
<1>8. ~raced' => Sure(w) /\ \A v \in Workers \ {w} : ~Busy(v)
  BY <1>1, <1>7, OthersIdle, AloneFacts
<1>9. ~raced' => Sure(w)'
  <2>1. Sure(w) => Families' /\ CodesOK' /\ StampsOK'
    BY <1>1 DEF Sure, Families, Active, CodesOK, StampsOK
  <2> QED
    BY <1>5, <1>8, <2>1 DEF Sure
<1>10. ~(~died')
  BY <1>1
<1> QED
  BY <1>2, <1>3, <1>4, <1>5, <1>6, <1>8, <1>9, <1>10, MovedIInv

-----------------------------------------------------------------------------
(* Requests that are answered at once, and time. *)

LEMMA WorldIInv ==
  ASSUME IInv, TypeOK', RowsOK', Persists, job' = job, raced => raced', UpToDate'
  PROVE  IInv'
<1>1. JobsOK'
  <2>1. ASSUME NEW v \in Workers
        PROVE  JobOK(v)'
    BY OthersOK
  <2> QED
    BY <2>1 DEF JobsOK
<1>2. Alone'
  BY DEF IInv, Alone, Busy
<1> QED
  BY <1>1, <1>2 DEF IInv

LEMMA AtOnceIInv ==
  ASSUME IInv, TypeOK', RowsOK', Persists, UNCHANGED <<job, died, failed, locked, wrong, guesses, devices>>,
         raced => raced', ~raced' => \A v \in Workers : ~Busy(v),
         Families => Families', CodesOK => CodesOK', StampsOK => StampsOK',
         CleanSessions => CleanSessions'
  PROVE  IInv'
<1>1. \A v \in Workers : ~Busy(v) => StillTrue(v)' /\ Careful(v)'
  BY DEF Busy, StillTrue, Careful
<1>2. ~raced' => ~raced
  BY Zenon
<1>3. ~died' => ~died
  BY Zenon
<1>4. ASSUME ~raced'
      PROVE  Families' /\ CodesOK' /\ StampsOK' /\ \A v \in Workers : StillTrue(v)'
  BY <1>1, <1>2, <1>4 DEF IInv, UpToDate
<1>5. ASSUME ~raced', ~died'
      PROVE  LockOK' /\ Accounted' /\ \A v \in Workers : Careful(v)'
  <2>1. LockOK /\ CleanSessions /\ CleanDevices /\ Counted
    BY <1>2, <1>3, <1>5 DEF IInv, UpToDate, Accounted, Busy
  <2> QED
    BY <1>1, <1>5, <2>1 DEF LockOK, Paid, Accounted, CleanDevices, Counted, Active
<1>6. UpToDate'
  BY <1>4, <1>5 DEF UpToDate
<1> QED
  BY <1>6, WorldIInv

LEMMA LogoutIInv == ASSUME IInv, NEW s \in Rows, Logout(s) PROVE IInv'
<1>1. /\ sessions' = Revoked(sessions, {s}) /\ Overlap /\ Spend("end")
      /\ UNCHANGED <<failed, locked, counter, wrong, guesses, challenge, lastUsed, step, codes, devices,
                     job, consumed, accepted, reused, died>>
  BY DEF Logout, lock, history
<1>2. Fades /\ SameAge
  BY <1>1, RevokedSessions DEF IInv
<1>3. /\ raced => raced'
      /\ ~raced' => \A v \in Workers : ~Busy(v)
      /\ raced' \in BOOLEAN
  BY <1>1, OverlapFacts
<1>4. TypeOK'
  <2>1. budget' \in [Kinds -> Nat]
    BY <1>1, SpendOK DEF IInv, Kinds
  <2> QED
    BY <1>1, <1>2, <1>3, <2>1 DEF IInv, TypeOK, Fades
<1>5. RowsOK' /\ Persists
  BY <1>1, <1>2, RowsFade, PersistsFade DEF IInv, RowsOK
<1>6. /\ Families => Families'
      /\ CleanSessions => CleanSessions'
  BY <1>1, <1>2, FamiliesFade, CleanFade DEF IInv
<1>7. (CodesOK => CodesOK') /\ (StampsOK => StampsOK')
  BY <1>1 DEF CodesOK, StampsOK
<1> QED
  BY <1>1, <1>3, <1>4, <1>5, <1>6, <1>7, AtOnceIInv

LEMMA RequestCodeIInv == ASSUME IInv, RequestCode PROVE IInv'
<1> DEFINE x == [attempts |-> 0, consumed |-> FALSE, fresh |-> TRUE]
<1>1. /\ Len(codes) < MaxRows /\ codes' = Append(codes, x) /\ Overlap /\ Spend("code")
      /\ UNCHANGED <<failed, locked, counter, wrong, guesses, challenge, lastUsed, step, sessions, devices,
                     job, consumed, accepted, reused, died>>
  BY DEF RequestCode, lock, history
<1>2. x \in Code /\ x.attempts = 0 /\ x.consumed = FALSE
  BY DEF Code
<1> HIDE DEF x
<1>3. /\ codes' \in Seq(Code) /\ Len(codes') = Len(codes) + 1 /\ codes'[Len(codes) + 1] = x
      /\ \A c \in 1..Len(codes) : codes'[c] = codes[c]
  BY <1>1, <1>2, SameTypes, AppendProperties
<1>4. Len(codes) \in Nat /\ Len(sessions) \in Nat
  BY Lengths DEF IInv
<1>5. /\ raced => raced'
      /\ ~raced' => \A v \in Workers : ~Busy(v)
      /\ raced' \in BOOLEAN
  BY <1>1, OverlapFacts
<1>6. TypeOK'
  <2>1. budget' \in [Kinds -> Nat]
    BY <1>1, SpendOK DEF IInv, Kinds
  <2> QED
    BY <1>1, <1>3, <1>5, <2>1 DEF IInv, TypeOK
<1>7. RowsOK' /\ Persists
  <2>1. Len(codes') <= MaxRows
    BY <1>1, <1>3, <1>4, Bounds
  <2> QED
    BY <1>1, <1>3, <1>4, <2>1 DEF IInv, RowsOK, Persists
<1>8. (Families => Families') /\ (CleanSessions => CleanSessions') /\ (StampsOK => StampsOK')
  BY <1>1 DEF Families, CleanSessions, Active, StampsOK
<1>9. CodesOK => CodesOK'
  <2>1. SUFFICES ASSUME CodesOK
                 PROVE  CodesOK'
    OBVIOUS
  <2>2. ASSUME NEW c \in Rows
        PROVE  consumed'[c] = IF c \in 1..Len(codes') /\ codes'[c].consumed THEN 1 ELSE 0
    <3>1. CASE c \in 1..Len(codes)
      BY <1>1, <1>3, <1>4, <2>1, <3>1 DEF CodesOK
    <3>2. CASE c = Len(codes) + 1
      BY <1>1, <1>2, <1>3, <1>4, <2>1, <3>2 DEF CodesOK
    <3>3. CASE c \notin 1..(Len(codes) + 1)
      BY <1>1, <1>3, <1>4, <2>1, <3>3 DEF CodesOK
    <3> QED
      BY <1>4, <3>1, <3>2, <3>3, Bounds
  <2>3. ASSUME NEW c \in 1..Len(codes')
        PROVE  codes'[c].attempts <= MaxAttempts
    <3>1. CASE c \in 1..Len(codes)
      BY <1>3, <2>1, <3>1 DEF CodesOK
    <3>2. CASE c = Len(codes) + 1
      BY <1>2, <1>3, <3>2, Bounds
    <3> QED
      BY <1>3, <1>4, <2>3, <3>1, <3>2
  <2> QED
    BY <2>2, <2>3 DEF CodesOK
<1> QED
  BY <1>1, <1>5, <1>6, <1>7, <1>8, <1>9, AtOnceIInv

\* What time does: it makes rows stale, and it lifts the lock.
LEMMA TimeIInv ==
  ASSUME IInv, TypeOK', Fades, SameAge,
         \A n \in 1..Len(sessions) : sessions'[n].status = sessions[n].status,
         Len(codes') = Len(codes),
         \A c \in 1..Len(codes) : codes'[c].attempts = codes[c].attempts
                                  /\ codes'[c].consumed = codes[c].consumed,
         UNCHANGED <<lastUsed, devices, job, consumed, accepted, reused, raced, died, failed>>,
         \/ UNCHANGED <<locked, wrong, guesses>>
         \/ locked /\ locked' = FALSE /\ wrong' = 0 /\ guesses' = NoGuesses
  PROVE  IInv'
<1>1. RowsOK' /\ Persists
  BY RowsFade, PersistsFade DEF IInv, RowsOK
<1>2. /\ Families => Families'
      /\ CleanSessions => CleanSessions'
      /\ CleanDevices => CleanDevices'
  BY FamiliesFade, CleanFade DEF IInv, CleanDevices, Active
<1>3. (CodesOK => CodesOK') /\ (StampsOK => StampsOK')
  BY DEF CodesOK, StampsOK
<1>4. /\ raced => raced'
      /\ ~raced' => ~raced
      /\ ~died' => ~died
  BY Zenon
<1>5. ASSUME ~raced', NEW w \in Workers
      PROVE  StillTrue(w)'
  <2>1. StillTrue(w) /\ JobOK(w)
    BY <1>4, <1>5 DEF IInv, UpToDate, JobsOK
  <2>2. /\ Active(sessions)' \subseteq Active(sessions)
        /\ \A n \in Active(sessions)' : sessions'[n].family = sessions[n].family
    BY FadesActive DEF IInv
  <2>3. job[w].pc = "rotate" => job[w].row \in 1..Len(sessions)
    BY <2>1 DEF JobOK
  <2>4. job[w].pc \in {"miss", "consume"} => job[w].row \in 1..Len(codes)
    BY <2>1 DEF JobOK
  <2> QED
    BY <2>1, <2>2, <2>3, <2>4 DEF StillTrue
<1>6. ASSUME ~raced', ~died'
      PROVE  LockOK' /\ Accounted' /\ \A w \in Workers : Careful(w)'
  <2>1. LockOK /\ Accounted /\ \A w \in Workers : Careful(w) /\ JobOK(w)
    BY <1>4, <1>6 DEF IInv, UpToDate, JobsOK
  <2>2. LockOK' /\ (Counted => Counted')
    <3>1. CASE UNCHANGED <<locked, wrong, guesses>>
      BY <2>1, <3>1 DEF LockOK, Counted, Paid
    <3>2. CASE locked /\ locked' = FALSE /\ wrong' = 0 /\ guesses' = NoGuesses
      <4>1. failed' = 0
        BY <2>1, <3>2 DEF LockOK
      <4> QED
        BY <3>2, <4>1, Forgotten
    <3> QED
      BY <3>1, <3>2
  <2>3. Accounted'
    BY <1>2, <2>1, <2>2 DEF Accounted
  <2>4. ASSUME NEW w \in Workers
        PROVE  Careful(w)'
    <3>1. job[w].family # 0 => job[w].row \in 1..Len(sessions)
      BY <2>1 DEF JobOK
    <3> QED
      BY <2>1, <3>1 DEF Careful, SameAge
  <2> QED
    BY <2>2, <2>3, <2>4
<1>7. UpToDate'
  BY <1>2, <1>3, <1>4, <1>5, <1>6 DEF IInv, UpToDate
<1> QED
  BY <1>1, <1>4, <1>7, WorldIInv

LEMMA TimePassesIInv == ASSUME IInv, TimePasses PROVE IInv'
<1>1. /\ budget' \in [Kinds -> Nat]
      /\ UNCHANGED <<lastUsed, devices, job, consumed, accepted, reused, raced, died>>
  BY SpendOK DEF TimePasses, IInv, Kinds
<1>2. /\ \A n \in 1..Len(sessions) : sessions[n] \in Session
      /\ \A c \in 1..Len(codes) : codes[c] \in Code
      /\ DOMAIN sessions = 1..Len(sessions) /\ DOMAIN codes = 1..Len(codes)
  BY Lengths DEF IInv
<1>3. CASE UNCHANGED <<codes, sessions, failed>> /\ step' \in Nat /\ challenge' \subseteq Origins
           /\ counter' \in [count : Nat, expires : BOOLEAN]
           /\ (UNCHANGED <<locked, wrong, guesses>> \/ (locked /\ locked' = FALSE /\ wrong' = 0 /\ guesses' = NoGuesses))
  <2>1. locked' \in BOOLEAN /\ wrong' \in Nat /\ guesses' \in Guesses
    <3>1. CASE UNCHANGED <<locked, wrong, guesses>>
      BY <3>1 DEF IInv, TypeOK
    <3>2. CASE locked' = FALSE /\ wrong' = 0 /\ guesses' = NoGuesses
      BY <3>2 DEF NoGuesses, Guesses
    <3> QED
      BY <1>3, <3>1, <3>2
  <2>2. TypeOK'
    BY <1>1, <1>3, <2>1 DEF IInv, TypeOK
  <2>3. Fades /\ SameAge
    BY <1>3, SameSessions DEF IInv
  <2> QED
    BY <1>1, <1>3, <2>2, <2>3, TimeIInv
<1>4. CASE \E c \in DOMAIN codes :
             /\ codes' = [codes EXCEPT ![c].fresh = FALSE]
             /\ UNCHANGED <<failed, locked, counter, wrong, guesses, challenge, step, sessions>>
  <2>1. PICK c \in 1..Len(codes) :
          /\ codes' = [codes EXCEPT ![c].fresh = FALSE]
          /\ UNCHANGED <<failed, locked, counter, wrong, guesses, challenge, step, sessions>>
    BY <1>2, <1>4
  <2> DEFINE x == [codes[c] EXCEPT !.fresh = FALSE]
  <2>2. x \in Code /\ x.attempts = codes[c].attempts /\ x.consumed = codes[c].consumed
    BY <1>2 DEF Code
  <2>3. codes' = [codes EXCEPT ![c] = x]
    BY <2>1, SameTypes
  <2>4. /\ codes' \in Seq(Code) /\ Len(codes') = Len(codes)
        /\ \A n \in 1..Len(codes) : codes'[n] = IF n = c THEN x ELSE codes[n]
    BY <2>2, <2>3, SameTypes, ExceptSeq
  <2> HIDE DEF x
  <2>5. \A n \in 1..Len(codes) : codes'[n].attempts = codes[n].attempts
                                 /\ codes'[n].consumed = codes[n].consumed
    BY <2>2, <2>4
  <2>6. TypeOK'
    BY <1>1, <2>1, <2>4 DEF IInv, TypeOK
  <2>7. Fades /\ SameAge
    BY <2>1, SameSessions DEF IInv
  <2> QED
    BY <1>1, <2>1, <2>4, <2>5, <2>6, <2>7, TimeIInv
<1>5. CASE \E s \in DOMAIN sessions :
             /\ sessions' = [sessions EXCEPT ![s].fresh = FALSE]
             /\ UNCHANGED <<failed, locked, counter, wrong, guesses, challenge, step, codes>>
  <2>1. PICK s \in 1..Len(sessions) :
          /\ sessions' = [sessions EXCEPT ![s].fresh = FALSE]
          /\ UNCHANGED <<failed, locked, counter, wrong, guesses, challenge, step, codes>>
    BY <1>2, <1>5
  <2> DEFINE x == [sessions[s] EXCEPT !.fresh = FALSE]
  <2>2. x \in Session /\ x.family = sessions[s].family /\ x.opened = sessions[s].opened
        /\ x.status = sessions[s].status
    BY <1>2 DEF Session
  <2>3. sessions' = [sessions EXCEPT ![s] = x]
    BY <2>1, SameTypes
  <2>4. /\ sessions' \in Seq(Session) /\ Len(sessions') = Len(sessions)
        /\ \A n \in 1..Len(sessions) : sessions'[n] = IF n = s THEN x ELSE sessions[n]
    BY <2>2, <2>3, SameTypes, ExceptSeq
  <2> HIDE DEF x
  <2>5. \A n \in 1..Len(sessions) :
          /\ sessions'[n].family = sessions[n].family /\ sessions'[n].opened = sessions[n].opened
          /\ sessions'[n].status = sessions[n].status
    BY <2>2, <2>4
  <2>6. TypeOK'
    BY <1>1, <2>1, <2>4 DEF IInv, TypeOK
  <2>7. Fades /\ SameAge
    BY <2>4, <2>5 DEF Fades, SameAge
  <2> QED
    BY <1>1, <2>1, <2>5, <2>6, <2>7, TimeIInv
<1>6. step \in Nat /\ challenge \subseteq Origins /\ counter \in [count : Nat, expires : BOOLEAN]
  BY DEF IInv, TypeOK
<1>7. CASE step' = step + 1 /\ UNCHANGED <<lock, wrong, guesses, challenge, codes, sessions>>
  BY <1>3, <1>6, <1>7 DEF lock
<1>8. CASE /\ counter' = [count |-> 0, expires |-> FALSE]
           /\ UNCHANGED <<failed, locked, wrong, guesses, challenge, step, codes, sessions>>
  BY <1>3, <1>6, <1>8
<1>9. CASE /\ locked /\ locked' = FALSE /\ wrong' = 0 /\ guesses' = NoGuesses
           /\ UNCHANGED <<failed, counter, challenge, step, codes, sessions>>
  BY <1>3, <1>6, <1>9
<1>10. CASE \E token \in challenge : /\ challenge' = challenge \ {token}
                                     /\ UNCHANGED <<lock, wrong, guesses, step, codes, sessions>>
  BY <1>3, <1>6, <1>10 DEF lock
<1>11. CASE \E c \in DOMAIN codes :
              /\ codes' = [codes EXCEPT ![c].fresh = FALSE]
              /\ UNCHANGED <<lock, wrong, guesses, challenge, step, sessions>>
  BY <1>4, <1>11 DEF lock
<1>12. CASE \E s \in DOMAIN sessions :
              /\ sessions' = [sessions EXCEPT ![s].fresh = FALSE]
              /\ UNCHANGED <<lock, wrong, guesses, challenge, step, codes>>
  BY <1>5, <1>12 DEF lock
<1> QED
  BY <1>7, <1>8, <1>9, <1>10, <1>11, <1>12 DEF TimePasses

-----------------------------------------------------------------------------
(* The invariant and what follows from it. *)

LEMMA InitIInv == Init => IInv
<1> SUFFICES ASSUME Init
             PROVE  IInv
  OBVIOUS
<1> DEFINE d == [status |-> "ACTIVE", opened |-> "now"]
           x == [family |-> 1, status |-> "ACTIVE", fresh |-> TRUE, opened |-> "now"]
<1>1. devices = <<d>> /\ sessions = <<x>> /\ codes = <<>>
  BY DEF Init
<1>2. d \in Device /\ d.opened = "now" /\ x \in Session /\ x.opened = "now" /\ x.family = 1
  BY Bounds DEF Device, Session, Ages, Origins
<1> HIDE DEF d, x
<1>3. /\ devices \in Seq(Device) /\ Len(devices) = 1 /\ devices[1] = d
      /\ sessions \in Seq(Session) /\ Len(sessions) = 1 /\ sessions[1] = x
      /\ codes \in Seq(Code) /\ Len(codes) = 0
  <2>1. <<d>> \in Seq(Device) /\ Len(<<d>>) = 1 /\ <<d>>[1] = d
    BY <1>2
  <2>2. <<x>> \in Seq(Session) /\ Len(<<x>>) = 1 /\ <<x>>[1] = x
    BY <1>2
  <2>3. <<>> \in Seq(Code) /\ Len(<<>>) = 0
    BY EmptySeq
  <2> QED
    BY <1>1, <2>1, <2>2, <2>3
<1>4. Idle \in Job /\ Idle.pc = "idle" /\ Idle.family = 0 /\ Idle.next = "idle"
  BY RequestFacts, PcNames DEF Idle
<1>5. TypeOK
  <2>1. job \in [Workers -> Job]
    BY <1>4 DEF Init
  <2>2. /\ consumed \in [Rows -> Nat] /\ accepted \in Seq(Acceptance) /\ guesses \in Guesses
        /\ budget \in [Kinds -> Nat] /\ counter \in [count : Nat, expires : BOOLEAN]
    BY SignInAssumption, EmptySeq DEF Init, NoGuesses, Guesses
  <2>3. /\ failed \in Nat /\ locked \in BOOLEAN /\ challenge \subseteq Origins /\ lastUsed \in Nat
        /\ step \in Nat /\ wrong \in Nat /\ reused \subseteq Rows
        /\ raced \in BOOLEAN /\ died \in BOOLEAN
    BY DEF Init
  <2> QED
    BY <1>3, <2>1, <2>2, <2>3 DEF TypeOK
<1>6. \A w \in Workers : job[w].pc = "idle" /\ job[w].family = 0 /\ job[w].next = "idle"
  BY <1>4 DEF Init
<1>7. RowsOK
  BY <1>2, <1>3, Bounds DEF RowsOK, Init
<1>8. JobsOK /\ Alone
  BY <1>6 DEF JobsOK, JobOK, Alone, Busy
<1>9. \A w \in Workers : StillTrue(w) /\ Careful(w)
  BY <1>6 DEF StillTrue, Careful
<1>10. DOMAIN sessions = 1..1 /\ DOMAIN devices = 1..1
  BY <1>3, LenProperties
<1>11. CleanSessions /\ CleanDevices /\ Counted /\ LockOK
  <2>1. (MaxFailures - 1) * 0 = 0 /\ guesses.codes = 0 /\ guesses.passed = 0 /\ wrong = 0
    BY Bounds DEF Init, NoGuesses
  <2>2. Paid
    BY <2>1 DEF Paid
  <2> QED
    BY <1>2, <1>3, <1>10, <2>2, Bounds DEF CleanSessions, CleanDevices, Active, Counted, LockOK, Init
<1>12. Families
  BY <1>10 DEF Families, Active, Init
<1>13. CodesOK /\ StampsOK
  <2>1. accepted = <<>>
    BY DEF Init
  <2>2. Len(accepted) = 0
    BY <2>1, EmptySeq
  <2> QED
    BY <1>3, <2>2 DEF CodesOK, StampsOK, Init
<1> QED
  BY <1>5, <1>7, <1>8, <1>9, <1>11, <1>12, <1>13 DEF IInv, UpToDate, Accounted

LEMMA StutterIInv == ASSUME IInv, UNCHANGED vars PROVE IInv'
<1>1. UNCHANGED <<failed, locked, counter, challenge, lastUsed, step, codes, devices, sessions,
                  job, wrong, guesses, consumed, accepted, reused, raced, died, budget>>
  BY DEF vars, lock, history
<1>2. TypeOK'
  BY <1>1 DEF IInv, TypeOK
<1>3. Fades /\ SameAge
  BY <1>1, SameSessions DEF IInv
<1> QED
  BY <1>1, <1>2, <1>3, TimeIInv

LEMMA NextIInv == ASSUME IInv, [Next]_vars PROVE IInv'
<1>1. ASSUME NEW w \in Workers, Start(w)
      PROVE  IInv'
  BY <1>1, TryPasswordIInv, TryTotpIInv, TryCodeIInv, RefreshIInv, EndRequestIInv DEF Start
<1>2. ASSUME NEW w \in Workers, Step(w)
      PROVE  IInv'
  BY <1>2, BumpIInv, ExpireCounterIInv, FailIInv, ClearCounterIInv, PasswordPassesIInv,
     CheckStepIInv, StampStepIInv, TrustDeviceIInv, SettleIInv, CreateSessionIInv,
     ListSessionsIInv, TrimSessionsIInv, RotateIInv, DetectReuseIInv, RevokeFamilyIInv,
     WritePasswordIInv, RevokeSessionsIInv, RevokeDevicesIInv, MissCodeIInv, ConsumeCodeIInv
     DEF Step
<1>3. ASSUME NEW w \in Workers, Abort(w)
      PROVE  IInv'
  BY <1>3, AbortIInv
<1>4. ASSUME NEW s \in Rows, Logout(s)
      PROVE  IInv'
  BY <1>4, LogoutIInv
<1>5. CASE RequestCode
  BY <1>5, RequestCodeIInv
<1>6. CASE TimePasses
  BY <1>6, TimePassesIInv
<1>7. CASE UNCHANGED vars
  BY <1>7, StutterIInv
<1> QED
  BY <1>1, <1>2, <1>3, <1>4, <1>5, <1>6, <1>7 DEF Next

THEOREM InvariantHolds == Spec => []IInv
<1>1. Init => IInv
  BY InitIInv
<1>2. IInv /\ [Next]_vars => IInv'
  BY NextIInv
<1> QED
  BY <1>1, <1>2, PTL DEF Spec

\* Every table and every request keeps its type, for any limits.
THEOREM SignInTypeCorrect == Spec => []TypeOK
<1>1. IInv => TypeOK
  BY DEF IInv
<1> QED
  BY <1>1, InvariantHolds, PTL

\* A family of refresh tokens has one that works or none, and once a token of
\* it was used twice it has none for good (rotate, handlePotentialReuse), for
\* any number of sessions, as long as requests do not overlap.
THEOREM TokenFamiliesHolds == Spec => []TokenFamilies
<1>1. IInv => TokenFamilies
  BY IInvImpliesFamilies
<1> QED
  BY <1>1, InvariantHolds, PTL

\* After changePassword or passwordReset nothing works that was opened before it,
\* rotated sessions and trusted devices included, as long as requests neither
\* overlap nor die.  What an mfaToken of the former password opens afterwards is
\* not "before", and lives on (staffMfaVerify).
THEOREM NewPasswordEndsAccessHolds == Spec => []NewPasswordEndsAccess
<1>1. IInv => NewPasswordEndsAccess
  BY IInvImpliesAccess
<1> QED
  BY <1>1, InvariantHolds, PTL

\* MaxFailures wrong secrets in a row lock the account, where a right password
\* starts the row again; so whoever has the password may try MaxFailures - 1 codes
\* for each time it is given, and no more (staffLogin, staffMfaVerify).  A one-time
\* code is good for one use, and one authenticator code is accepted per time step,
\* while the clock is within its tolerance (otp.verify, mfa.verify); for any limits.
THEOREM SecretsAreLimitedHolds == Spec => []SecretsAreLimited
<1>1. IInv => SecretsAreLimited
  BY IInvImpliesSecrets
<1> QED
  BY <1>1, InvariantHolds, PTL

-----------------------------------------------------------------------------
(* The limit on sessions. *)

\* A nonempty set of numbers has a least element.
LEMMA LeastElement ==
  ASSUME NEW S \in SUBSET Nat, S # {}
  PROVE  \E m \in S : \A n \in S : m <= n
<1>1. PICK m \in S : \A n \in S : ~ (<<n, m>> \in OpToRel(<, Nat))
  BY NatLessThanWellFounded, WFMin
<1>2. ASSUME NEW n \in S
      PROVE  m <= n
  <2>1. ~ (n < m)
    BY <1>1 DEF OpToRel
  <2>2. n \in Nat /\ m \in Nat
    OBVIOUS
  <2> QED
    BY <2>1, <2>2
<1> QED
  BY <1>2

LEMMA NewestBound ==
  ASSUME NEW n \in Nat, NEW rows \in SUBSET (1..n), NEW k \in Nat \ {0}
  PROVE  Cardinality(Newest(rows, k)) <= k /\ IsFiniteSet(Newest(rows, k))
<1> DEFINE S == Newest(rows, k)
<1>1. IsFiniteSet(rows)
  <2>1. IsFiniteSet(1..n)
    BY FS_Interval
  <2> QED
    BY <2>1, FS_Subset
<1>2. IsFiniteSet(S) /\ S \in SUBSET Nat
  <2>1. S \in SUBSET rows
    BY DEF Newest
  <2>2. IsFiniteSet(S)
    BY <1>1, <2>1, FS_Subset
  <2>3. rows \in SUBSET Nat
    OBVIOUS
  <2> HIDE DEF S
  <2> QED
    BY <2>1, <2>2, <2>3
<1>3. CASE S = {}
  <2>1. Cardinality(S) = 0
    BY <1>3, FS_EmptySet
  <2> QED
    BY <1>2, <2>1
<1>4. CASE S # {}
  <2>1. PICK m \in S : \A x \in S : m <= x
    BY <1>2, <1>4, LeastElement
  <2> DEFINE above == {x \in rows : x > m}
  <2>2. m \in Nat /\ Cardinality(above) < k
    BY <2>1 DEF Newest
  <2>3. above \in SUBSET rows /\ m \notin above
    BY <2>2
  <2>4. IsFiniteSet(above)
    BY <1>1, <2>3, FS_Subset
  <2>5. Cardinality(above) \in Nat
    BY <2>4, FS_CardinalityType
  <2>6. S \subseteq above \cup {m}
    BY <1>2, <2>1 DEF Newest
  <2>7. IsFiniteSet(above \cup {m}) /\ Cardinality(above \cup {m}) = Cardinality(above) + 1
    BY <2>3, <2>4, FS_AddElement
  <2>8. Cardinality(S) <= Cardinality(above \cup {m})
    BY <2>6, <2>7, FS_Subset
  <2>9. Cardinality(S) \in Nat
    BY <1>2, FS_CardinalityType
  <2> HIDE DEF S, above
  <2> QED
    BY <1>2, <2>2, <2>5, <2>7, <2>8, <2>9 DEF S
<1> QED
  BY <1>3, <1>4

\* The highest number is among them.
LEMMA HighestIsNewest ==
  ASSUME NEW n \in Nat, NEW rows \in SUBSET (1..n), n \in rows, NEW k \in Nat \ {0}
  PROVE  n \in Newest(rows, k)
<1>1. {m \in rows : m > n} = {}
  <2>1. \A m \in rows : ~ (m > n)
    OBVIOUS
  <2> QED
    BY <2>1
<1>2. Cardinality({m \in rows : m > n}) = 0
  BY <1>1, FS_EmptySet
<1> QED
  BY <1>2 DEF Newest

LEMMA ActiveBounds ==
  ASSUME NEW rows \in Seq(Session)
  PROVE  /\ Active(rows) \in SUBSET (1..Len(rows)) /\ IsFiniteSet(Active(rows))
         /\ Cardinality(Active(rows)) \in Nat /\ Len(rows) \in Nat
<1>1. Active(rows) \in SUBSET (1..Len(rows)) /\ Len(rows) \in Nat
  BY LenProperties DEF Active
<1>2. IsFiniteSet(1..Len(rows))
  BY <1>1, FS_Interval
<1>3. IsFiniteSet(Active(rows))
  BY <1>1, <1>2, FS_Subset
<1> QED
  BY <1>1, <1>3, FS_CardinalityType

Trimming(w) == job[w].pc \in {"limit", "trim"}
Beyond == Active(sessions) \ Survivors(Active(sessions))
Within == Cardinality(Active(sessions)) <= Limit

\* Until requests overlap the session just opened is the newest row and works
\* until the limit is enforced, and what is about to be revoked is still beyond
\* the limit; ...
Newly(w) ==
  /\ Trimming(w) => Len(sessions) \in Active(sessions)
  /\ job[w].pc = "trim" => job[w].doomed = Beyond

\* ... and the limit holds except while a request enforces it.
LimitInv ==
  /\ ~raced => \A w \in Workers : Newly(w)
  /\ ~raced /\ ~died => (\E w \in Workers : Trimming(w)) \/ Within

LEMMA LimitBounds == Limit \in Nat \ {0}
  BY SignInAssumption

LEMMA FewerActive ==
  ASSUME TypeOK, Fades
  PROVE  Within => Within'
<1>1. Active(sessions)' \subseteq Active(sessions)
  BY FadesActive
<1>2. IsFiniteSet(Active(sessions)) /\ Cardinality(Active(sessions)) \in Nat
  BY ActiveBounds DEF TypeOK
<1>3. Cardinality(Active(sessions')) \in Nat
  BY ActiveBounds DEF Fades
<1>4. Cardinality(Active(sessions')) <= Cardinality(Active(sessions))
  BY <1>1, <1>2, FS_Subset
<1> QED
  BY <1>2, <1>3, <1>4, LimitBounds DEF Within

\* Sessions only end and nobody is enforcing the limit.
LEMMA CalmLimit ==
  ASSUME TypeOK, LimitInv, Fades, raced => raced', died => died',
         ~raced' => \A v \in Workers : ~Trimming(v)',
         ~raced' /\ ~died' => \A v \in Workers : ~Trimming(v)
  PROVE  LimitInv'
<1>1. ~raced' => \A v \in Workers : Newly(v)'
  BY DEF Newly, Trimming
<1>2. ASSUME ~raced', ~died'
      PROVE  Within'
  <2>1. Within
    BY <1>2 DEF LimitInv
  <2> QED
    BY <2>1, FewerActive
<1> QED
  BY <1>1, <1>2 DEF LimitInv

\* A statement of a running request that neither enforces the limit nor is
\* followed by its enforcement.
Passing(w) ==
  /\ Busy(w) /\ ~Trimming(w) /\ ~Trimming(w)' /\ Fades
  /\ \A v \in Workers \ {w} : job'[v] = job[v]
  /\ UNCHANGED <<raced, died>>

LEMMA PassingLimit ==
  ASSUME IInv, LimitInv, NEW w \in Workers, Passing(w)
  PROVE  LimitInv'
<1>1. /\ raced => raced'
      /\ ~raced' => ~raced
      /\ died => died'
  BY Zenon DEF Passing
<1>2. ASSUME ~raced', NEW v \in Workers
      PROVE  ~Trimming(v) /\ ~Trimming(v)'
  <2>1. CASE v = w
    BY <2>1 DEF Passing
  <2>2. CASE v # w
    <3>1. ~Busy(v)
      BY <1>1, <1>2, <2>2, OthersIdle DEF Passing
    <3> QED
      BY <2>2, <3>1 DEF Passing, Busy, Trimming
  <2> QED
    BY <2>1, <2>2
<1> QED
  BY <1>1, <1>2, CalmLimit DEF IInv, Passing

LEMMA PassingSteps ==
  ASSUME IInv, NEW w \in Workers,
         \/ Bump(w) \/ ExpireCounter(w) \/ Fail(w) \/ ClearCounter(w) \/ PasswordPasses(w)
         \/ CheckStep(w) \/ StampStep(w) \/ TrustDevice(w) \/ Settle(w) \/ DetectReuse(w)
         \/ RevokeDevices(w) \/ MissCode(w) \/ ConsumeCode(w)
  PROVE  Passing(w)
<1>1. /\ UNCHANGED <<sessions, raced, died>>
      /\ job[w].pc \notin {"idle", "limit", "trim"}
  <2>1. CASE Bump(w) \/ ExpireCounter(w) \/ Fail(w) \/ ClearCounter(w) \/ PasswordPasses(w)
    BY <2>1 DEF Bump, ExpireCounter, Fail, ClearCounter, PasswordPasses, At
  <2>2. CASE CheckStep(w) \/ StampStep(w) \/ TrustDevice(w) \/ Settle(w) \/ DetectReuse(w)
    BY <2>2 DEF CheckStep, StampStep, TrustDevice, Settle, DetectReuse, At
  <2>3. CASE RevokeDevices(w) \/ MissCode(w) \/ ConsumeCode(w)
    BY <2>3 DEF RevokeDevices, MissCode, ConsumeCode, At
  <2> QED
    BY <2>1, <2>2, <2>3
<1>2. Fades
  BY <1>1, SameSessions DEF IInv
<1> DEFINE Moves(p) == (\A v \in Workers \ {w} : job'[v] = job[v]) /\ job'[w].pc = p
<1>3. \A p \in Pcs : Goto(w, p) => Moves(p)
  BY GotoFacts DEF IInv
<1>4. End(w) => Moves("idle")
  BY EndFacts DEF IInv
<1> DEFINE Leads == \E p \in Pcs \ {"limit", "trim"} : Moves(p)
<1> HIDE DEF Moves
<1>5. /\ \A p \in {"fail", "unlock", "issue", "stamp", "settle", "family", "reset"} : Goto(w, p) => Leads
      /\ End(w) => Leads
  BY <1>3, <1>4, PcNames
<1>6. ASSUME Bump(w)
      PROVE  Leads
  <2> DEFINE n == counter.count + 1
             p == IF n = 1 THEN "expire" ELSE "fail"
             k == [job[w] EXCEPT !.hard = Locks(n)]
             j == [k EXCEPT !.pc = p]
  <2>1. job \in [Workers -> Job] /\ job[w] \in Job
    BY DEF IInv, TypeOK
  <2>2. p \in {"expire", "fail"} /\ p \in Pcs /\ Locks(n) \in BOOLEAN
    BY PcNames DEF Locks
  <2>3. job' = [job EXCEPT ![w].hard = Locks(n), ![w].pc = p]
    BY <1>6 DEF Bump
  <2> HIDE DEF n, p
  <2>4. job' = [job EXCEPT ![w] = j]
    BY <2>1, <2>3
  <2>5. k \in Job
    BY <2>1, <2>2 DEF Job
  <2> HIDE DEF k
  <2>6. j \in Job /\ j.pc = p
    BY <2>2, <2>5 DEF Job
  <2> HIDE DEF j
  <2>7. Moves(p)
    BY <2>4, <2>6, BecomesFacts DEF IInv, Moves
  <2> QED
    BY <2>2, <2>7
<1>7. ASSUME StampStep(w)
      PROVE  Leads
  <2>1. PICK next \in {"trust", "settle"} :
          job' = [job EXCEPT ![w] = [Request("issue", 0, 0) EXCEPT !.next = next,
                                                                   !.origin = job[w].origin]]
    BY <1>7 DEF StampStep
  <2> DEFINE j == [Request("issue", 0, 0) EXCEPT !.next = next, !.origin = job[w].origin]
  <2>2. next \in Pcs /\ "issue" \in Pcs
    BY PcNames
  <2>3. j \in Job /\ j.pc = "issue"
    BY <2>2, NoFamily DEF Request, Job
  <2> HIDE DEF j
  <2>4. Moves("issue")
    BY <2>1, <2>3, BecomesFacts DEF IInv, Moves, j
  <2> QED
    BY <2>2, <2>4
<1>8. ASSUME CheckStep(w)
      PROVE  Leads
  <2> DEFINE p == IF Near(job[w].code, step) /\ Newer(step) THEN "stamp" ELSE "fail"
             k == [job[w] EXCEPT !.pc = p]
             j == [k EXCEPT !.row = step]
  <2>1. job \in [Workers -> Job] /\ job[w] \in Job /\ step \in Nat
    BY DEF IInv, TypeOK
  <2>2. p \in {"stamp", "fail"} /\ p \in Pcs
    BY PcNames
  <2>3. job' = [job EXCEPT ![w].pc = p, ![w].row = step]
    BY <1>8 DEF CheckStep
  <2> HIDE DEF p
  <2>4. job' = [job EXCEPT ![w] = j]
    BY <2>1, <2>3
  <2>5. j \in Job /\ j.pc = p
    BY <2>1, <2>2 DEF Job
  <2> HIDE DEF j
  <2>6. Moves(p)
    BY <2>4, <2>5, BecomesFacts DEF IInv, Moves
  <2> QED
    BY <2>2, <2>6
<1>9. Leads
  <2>1. CASE ExpireCounter(w) \/ Fail(w) \/ ClearCounter(w) \/ PasswordPasses(w)
    BY <1>5, <2>1 DEF ExpireCounter, Fail, ClearCounter, PasswordPasses
  <2>2. CASE TrustDevice(w) \/ Settle(w) \/ DetectReuse(w)
    BY <1>5, <2>2 DEF TrustDevice, Settle, DetectReuse
  <2>3. CASE RevokeDevices(w) \/ MissCode(w) \/ ConsumeCode(w)
    BY <1>5, <2>3 DEF RevokeDevices, MissCode, ConsumeCode
  <2> HIDE DEF Leads
  <2> QED
    BY <1>6, <1>7, <1>8, <2>1, <2>2, <2>3
<1> QED
  BY <1>1, <1>2, <1>9 DEF Passing, Moves, Busy, Trimming

LEMMA FadingSteps ==
  ASSUME IInv, NEW w \in Workers,
         Rotate(w) \/ RevokeFamily(w) \/ WritePassword(w) \/ RevokeSessions(w)
  PROVE  Passing(w)
<1> DEFINE Moves(p) == (\A v \in Workers \ {w} : job'[v] = job[v]) /\ job'[w].pc = p
<1>1. \A p \in Pcs : Goto(w, p) => Moves(p)
  BY GotoFacts DEF IInv
<1>2. End(w) => Moves("idle")
  BY EndFacts DEF IInv
<1> HIDE DEF Moves
<1>3. /\ \A p \in {"issue", "ends", "forget"} : Goto(w, p) => Moves(p)
      /\ \A rows : sessions' = Revoked(sessions, rows) => Fades
  BY <1>1, PcNames, RevokedSessions DEF IInv
<1>4. CASE Rotate(w)
  <2> DEFINE r == job[w].row
             x == [sessions[r] EXCEPT !.status = "REVOKED"]
  <2>1. job[w].pc = "rotate" /\ Goto(w, "issue") /\ UNCHANGED <<raced, died>>
    BY <1>4 DEF Rotate, At
  <2>2. r \in 1..Len(sessions) /\ sessions[r] \in Session
    BY <2>1, Lengths DEF IInv, JobsOK, JobOK
  <2>3. x \in Session /\ x.family = sessions[r].family /\ x.status = "REVOKED"
    BY <2>2 DEF Session
  <2>4. sessions' = [sessions EXCEPT ![r] = x]
    BY <1>4, <2>2, SameTypes DEF Rotate, AfterRotation
  <2>5. /\ sessions' \in Seq(Session) /\ Len(sessions') = Len(sessions)
        /\ \A k \in 1..Len(sessions) : sessions'[k] = IF k = r THEN x ELSE sessions[k]
    BY <2>2, <2>3, <2>4, SameTypes, ExceptSeq
  <2> HIDE DEF x
  <2>6. Fades
    BY <2>3, <2>5 DEF Fades
  <2> QED
    BY <1>3, <2>1, <2>6 DEF Passing, Moves, Busy, Trimming
<1>5. CASE RevokeFamily(w)
  BY <1>2, <1>3, <1>5 DEF RevokeFamily, At, Passing, Moves, Busy, Trimming
<1>6. CASE RevokeSessions(w)
  BY <1>3, <1>6 DEF RevokeSessions, At, Passing, Moves, Busy, Trimming
<1>7. CASE WritePassword(w)
  <2>1. /\ job[w].pc \in {"change", "reset"} /\ Goto(w, "ends") /\ UNCHANGED <<raced, died>>
        /\ sessions' = Old(sessions)
    BY <1>7 DEF WritePassword, At
  <2>2. \A x \in Session : [x EXCEPT !.opened = "before"] \in Session
    BY DEF Session, Ages
  <2>3. /\ sessions' \in Seq(Session) /\ Len(sessions') = Len(sessions)
        /\ \A n \in 1..Len(sessions) : sessions'[n] = [sessions[n] EXCEPT !.opened = "before"]
    BY <2>1, <2>2, SameTypes, OldRows
  <2>4. \A n \in 1..Len(sessions) : sessions[n] \in Session
    BY Lengths DEF IInv
  <2>5. Fades
    BY <2>3, <2>4 DEF Fades, Session
  <2> QED
    BY <1>3, <2>1, <2>5 DEF Passing, Moves, Busy, Trimming
<1> QED
  BY <1>4, <1>5, <1>6, <1>7

\* A statement that has to do with the limit.
LEMMA LimitStatement ==
  ASSUME IInv, LimitInv, NEW w \in Workers, Busy(w), UNCHANGED <<raced, died>>,
         \A v \in Workers \ {w} : job'[v] = job[v],
         ~raced => Newly(w)',
         ~raced /\ ~died => Trimming(w)' \/ Within'
  PROVE  LimitInv'
<1>1. (~raced' => ~raced) /\ (~died' => ~died)
  BY Zenon
<1>2. ASSUME ~raced', NEW v \in Workers
      PROVE  Newly(v)'
  <2>1. CASE v = w
    BY <1>1, <1>2, <2>1
  <2>2. CASE v # w
    <3>1. job'[v].pc = "idle"
      BY <1>1, <1>2, <2>2, OthersIdle DEF Busy
    <3> QED
      BY <3>1 DEF Newly, Trimming
  <2> QED
    BY <2>1, <2>2
<1> QED
  BY <1>1, <1>2 DEF LimitInv

LEMMA CreateSessionLimit == ASSUME IInv, LimitInv, NEW w \in Workers, CreateSession(w) PROVE LimitInv'
<1> DEFINE n == Len(sessions) + 1
           f == IF job[w].family = 0 THEN n ELSE job[w].family
           x == [family |-> f, status |-> "ACTIVE", fresh |-> TRUE,
                 opened |-> IF job[w].family = 0 THEN job[w].origin ELSE sessions[job[w].row].opened]
<1>1. /\ job[w].pc = "issue" /\ n \in Rows /\ sessions' = Append(sessions, x) /\ Goto(w, "limit")
      /\ UNCHANGED <<raced, died>>
  BY DEF CreateSession, NewStatus, At
<1>2. f \in Rows
  <2>1. job[w].family \in Rows \cup {0}
    BY DEF IInv, TypeOK, Job
  <2> QED
    BY <1>1, <2>1
<1>3. x \in Session /\ x.status = "ACTIVE"
  <2>1. job[w].family # 0 => sessions[job[w].row] \in Session
    BY Lengths DEF IInv, JobsOK, JobOK
  <2>2. (IF job[w].family = 0 THEN job[w].origin ELSE sessions[job[w].row].opened) \in Ages
    BY <2>1, NoFamily DEF Session, Job, Ages
  <2> HIDE DEF f
  <2> QED
    BY <1>2, <2>2 DEF Session
<1> HIDE DEF x
<1>4. /\ Len(sessions') = n /\ sessions'[n] = x /\ sessions' \in Seq(Session)
  BY <1>1, <1>3, SameTypes, AppendProperties
<1>5. n \in Nat /\ n \in 1..n
  BY Lengths DEF IInv
<1>6. Len(sessions') \in Active(sessions')
  BY <1>3, <1>4, <1>5, LenProperties DEF Active
<1>7. /\ \A v \in Workers \ {w} : job'[v] = job[v]
      /\ job'[w].pc = "limit"
  BY <1>1, GotoFacts, PcNames DEF IInv
<1>8. Newly(w)' /\ Trimming(w)'
  BY <1>6, <1>7 DEF Newly, Trimming
<1> QED
  BY <1>1, <1>7, <1>8, LimitStatement DEF Busy

LEMMA ListSessionsLimit == ASSUME IInv, LimitInv, NEW w \in Workers, ListSessions(w) PROVE LimitInv'
<1> DEFINE p == IF Beyond = {} THEN job[w].next ELSE "trim"
           j == [Request(p, 0, 0) EXCEPT !.next = job[w].next, !.origin = job[w].origin,
                                         !.doomed = Beyond]
<1>1. job[w].pc = "limit" /\ UNCHANGED <<sessions, raced, died>>
  BY DEF ListSessions, At
<1>2. Beyond \subseteq Rows
  BY Lengths, Bounds DEF IInv, RowsOK, Active, Beyond
<1>3. /\ p \in {"idle", "trust", "settle", "trim"} /\ p \in Pcs /\ job[w].next \in Pcs
      /\ job[w].origin \in Origins
  BY NoFamily, PcNames DEF Job
<1>4. job' = [job EXCEPT ![w] = j]
  BY DEF ListSessions, Beyond, IInv, TypeOK
<1>5. p # "trim" => Beyond = {}
  OBVIOUS
<1> HIDE DEF p
<1>6. j \in Job /\ j.pc = p /\ j.doomed = Beyond
  BY <1>2, <1>3 DEF Request, Job
<1> HIDE DEF j
<1>7. job'[w] = j /\ \A v \in Workers \ {w} : job'[v] = job[v]
  BY <1>4, <1>6, BecomesFacts DEF IInv
<1>8. ASSUME ~raced
      PROVE  Newly(w)'
  <2>1. Len(sessions) \in Active(sessions)
    BY <1>1, <1>8 DEF LimitInv, Newly, Trimming
  <2> QED
    BY <1>1, <1>6, <1>7, <2>1 DEF Newly, Beyond
<1>9. Trimming(w)' \/ Within'
  <2>1. CASE p = "trim"
    BY <1>6, <1>7, <2>1 DEF Trimming
  <2>2. CASE p # "trim"
    <3>1. Active(sessions) \subseteq Newest(Active(sessions), Limit)
      BY <1>5, <2>2 DEF Beyond, Survivors
    <3>2. Active(sessions) = Newest(Active(sessions), Limit)
      BY <3>1 DEF Newest
    <3>3. Len(sessions) \in Nat /\ Active(sessions) \in SUBSET (1..Len(sessions))
      BY ActiveBounds, SameTypes
    <3>4. Cardinality(Newest(Active(sessions), Limit)) <= Limit
      BY <3>3, LimitBounds, NewestBound
    <3>5. Within
      BY <3>2, <3>4 DEF Within
    <3> QED
      BY <1>1, <3>5 DEF Within
  <2> QED
    BY <2>1, <2>2
<1> QED
  BY <1>1, <1>7, <1>8, <1>9, LimitStatement DEF Busy

\* What is left are the newest.
LEMMA Trimmed ==
  ASSUME IInv, sessions' = Revoked(sessions, Beyond)
  PROVE  Active(sessions') = Survivors(Active(sessions)) /\ Len(sessions') = Len(sessions)
<1>1. \A x \in Session : [x EXCEPT !.status = "REVOKED"] \in Session
  BY DEF Session
<1>2. sessions \in Seq(Session) /\ DOMAIN sessions = 1..Len(sessions)
      /\ \A n \in 1..Len(sessions) : sessions[n] \in Session
  BY Lengths, SameTypes DEF IInv
<1>3. /\ sessions' \in Seq(Session) /\ Len(sessions') = Len(sessions)
      /\ \A n \in 1..Len(sessions) :
           sessions'[n] = IF n \in Beyond /\ sessions[n].status = "ACTIVE"
                            THEN [sessions[n] EXCEPT !.status = "REVOKED"] ELSE sessions[n]
  BY <1>1, <1>2, RevokedRows
<1>4. DOMAIN sessions' = 1..Len(sessions)
  BY <1>3, LenProperties
<1>5. \A n \in 1..Len(sessions) :
        sessions'[n].status = "ACTIVE" <=> sessions[n].status = "ACTIVE" /\ n \notin Beyond
  BY <1>2, <1>3 DEF Session
<1>6. Active(sessions') = Active(sessions) \ Beyond
  BY <1>2, <1>4, <1>5 DEF Active
<1>7. Survivors(Active(sessions)) \subseteq Active(sessions)
  BY DEF Survivors, Newest
<1> QED
  BY <1>3, <1>6, <1>7 DEF Beyond

LEMMA TrimSessionsLimit == ASSUME IInv, LimitInv, NEW w \in Workers, TrimSessions(w) PROVE LimitInv'
<1> DEFINE j == [Request(job[w].next, 0, 0) EXCEPT !.origin = job[w].origin]
<1>1. /\ job[w].pc = "trim" /\ sessions' = Revoked(sessions, job[w].doomed)
      /\ UNCHANGED <<raced, died>>
  BY DEF TrimSessions, At
<1>2. job[w].next \in {"idle", "trust", "settle"} /\ job[w].next \in Pcs
  BY NoFamily, PcNames
<1>3. job' = [job EXCEPT ![w] = j]
  BY DEF TrimSessions, IInv, TypeOK
<1>4. j \in Job /\ j.pc = job[w].next
  BY <1>2, NoFamily, PcNames DEF Request, Job
<1> HIDE DEF j
<1>5. job'[w] = j /\ \A v \in Workers \ {w} : job'[v] = job[v]
  BY <1>3, <1>4, BecomesFacts DEF IInv
<1>6. Newly(w)'
  BY <1>2, <1>4, <1>5 DEF Newly, Trimming
<1>7. ASSUME ~raced
      PROVE  Within'
  <2>1. job[w].doomed = Beyond
    BY <1>1, <1>7 DEF LimitInv, Newly
  <2>2. Active(sessions') = Newest(Active(sessions), Limit)
    BY <1>1, <2>1, Trimmed DEF Survivors
  <2>3. Len(sessions) \in Nat /\ Active(sessions) \in SUBSET (1..Len(sessions))
    BY ActiveBounds, SameTypes
  <2>4. Cardinality(Newest(Active(sessions), Limit)) <= Limit
    BY <2>3, LimitBounds, NewestBound
  <2> QED
    BY <2>2, <2>4 DEF Within
<1> QED
  BY <1>1, <1>5, <1>6, <1>7, LimitStatement DEF Busy

\* Requests that start, end one session or ask for a code: nobody is running.
LEMMA StartLimit ==
  ASSUME IInv, LimitInv, Overlap, died' = died, Fades,
         \A v \in Workers : job'[v] = job[v] \/ job'[v].pc \notin {"limit", "trim"}
  PROVE  LimitInv'
<1>1. /\ raced => raced'
      /\ ~raced' => \A v \in Workers : ~Busy(v)
      /\ died => died'
  BY OverlapFacts, Zenon
<1>2. ASSUME ~raced', NEW v \in Workers
      PROVE  ~Trimming(v) /\ ~Trimming(v)'
  BY <1>1, <1>2 DEF Busy, Trimming
<1> QED
  BY <1>1, <1>2, CalmLimit DEF IInv

LEMMA BeginLimit ==
  ASSUME IInv, LimitInv, NEW w \in Workers, NEW kind, NEW j \in Job, Begin(w, kind, j),
         j.pc \notin {"limit", "trim"}, UNCHANGED sessions
  PROVE  LimitInv'
<1>1. job' = [job EXCEPT ![w] = j] /\ Overlap /\ died' = died
  BY DEF Begin
<1>2. job'[w] = j /\ \A v \in Workers \ {w} : job'[v] = job[v]
  BY <1>1, BecomesFacts DEF IInv
<1>3. Fades
  BY SameSessions DEF IInv
<1> QED
  BY <1>1, <1>2, <1>3, StartLimit

LEMMA StartsLimit == ASSUME IInv, LimitInv, NEW w \in Workers, Start(w) PROVE LimitInv'
<1>1. \A p \in {"clear", "bump", "totp", "fail", "consume", "miss", "ends", "change"} :
        \A r, n \in Nat : Request(p, r, n) \in Job /\ Request(p, r, n).pc = p
  BY PcNames, RequestFacts
<1>2. failed \in Nat /\ step \in Nat /\ 0 \in Nat
  BY Naturals
<1>3. ASSUME NEW right \in BOOLEAN, TryPassword(w, right)
      PROVE  LimitInv'
  <2> DEFINE j == Request(IF right THEN "clear" ELSE "bump", 0, failed)
  <2>1. Begin(w, "password", j) /\ UNCHANGED sessions
    BY <1>3 DEF TryPassword
  <2>2. j \in Job /\ j.pc \in {"clear", "bump"}
    BY <1>1, <1>2
  <2> HIDE DEF j
  <2> QED
    BY <2>1, <2>2, BeginLimit
<1>4. ASSUME NEW token \in Origins, NEW code \in Codes \cup {0}, TryTotp(w, token, code)
      PROVE  LimitInv'
  <2> DEFINE j == [Request("totp", 0, failed) EXCEPT !.code = code, !.origin = token]
  <2>1. Begin(w, "totp", j) /\ UNCHANGED sessions
    BY <1>4 DEF TryTotp
  <2>2. code \in Nat
    BY Bounds DEF Codes
  <2>3. j \in Job /\ j.pc = "totp"
    BY <1>2, <2>2, PcNames DEF Request, Job
  <2> HIDE DEF j
  <2> QED
    BY <2>1, <2>3, BeginLimit
<1>5. ASSUME NEW right \in BOOLEAN, TryCode(w, right)
      PROVE  LimitInv'
  <2>1. PICK c \in Newest(Unconsumed, 1) :
          /\ Begin(w, "code", Request(IF right THEN "consume" ELSE "miss", c, 0))
          /\ UNCHANGED sessions
    BY <1>5 DEF TryCode
  <2> DEFINE j == Request(IF right THEN "consume" ELSE "miss", c, 0)
  <2>2. c \in Nat
    BY Lengths DEF IInv, Newest, Unconsumed
  <2>3. j \in Job /\ j.pc \in {"consume", "miss"}
    BY <1>1, <1>2, <2>2
  <2>4. Begin(w, "code", j)
    BY <2>1
  <2> HIDE DEF j
  <2> QED
    BY <2>1, <2>3, <2>4, BeginLimit
<1>6. ASSUME NEW s \in Rows, Refresh(w, s)
      PROVE  LimitInv'
  <2> DEFINE p == IF sessions[s].status = "ACTIVE" /\ sessions[s].fresh THEN "rotate" ELSE "reuse"
             i == Request(p, s, 0)
             j == [i EXCEPT !.family = sessions[s].family]
  <2>1. s \in DOMAIN sessions /\ Begin(w, "refresh", j) /\ UNCHANGED sessions
    BY <1>6 DEF Refresh
  <2>2. p \in {"rotate", "reuse"} /\ p \in Pcs
    BY PcNames
  <2>3. s \in Nat /\ sessions[s].family \in Rows
    BY <2>1, Lengths, Bounds DEF IInv, Session
  <2> HIDE DEF p
  <2>4. i \in Job /\ i.pc = p
    BY <2>2, <2>3, RequestFacts
  <2> HIDE DEF i
  <2>5. j \in Job /\ j.pc = p
    BY <2>3, <2>4 DEF Job
  <2> HIDE DEF j
  <2> QED
    BY <2>1, <2>2, <2>5, BeginLimit
<1>7. ASSUME LogoutAll(w) \/ ChangePassword(w)
      PROVE  LimitInv'
  <2>1. PICK p \in {"ends", "change"} : Begin(w, "end", Request(p, 0, 0)) /\ UNCHANGED sessions
    BY <1>7 DEF LogoutAll, ChangePassword
  <2>2. Request(p, 0, 0) \in Job /\ Request(p, 0, 0).pc = p
    BY <1>1, <1>2
  <2> QED
    BY <2>1, <2>2, BeginLimit
<1> QED
  BY <1>3, <1>4, <1>5, <1>6, <1>7 DEF Start

\* What changes no session's status and no request.
LEMMA StillLimit ==
  ASSUME TypeOK, LimitInv, sessions' \in Seq(Session), Len(sessions') = Len(sessions),
         \A n \in 1..Len(sessions) : sessions'[n].status = sessions[n].status,
         UNCHANGED <<job, raced, died>>
  PROVE  LimitInv'
<1>1. DOMAIN sessions' = 1..Len(sessions) /\ DOMAIN sessions = 1..Len(sessions)
  BY Lengths, LenProperties
<1>2. Active(sessions') = Active(sessions)
  BY <1>1 DEF Active
<1>3. /\ Beyond' = Beyond /\ (Within' <=> Within)
      /\ \A w \in Workers : (Trimming(w)' <=> Trimming(w))
  BY <1>2 DEF Beyond, Within, Trimming
<1>4. \A w \in Workers : Newly(w) => Newly(w)'
  BY <1>2, <1>3 DEF Newly
<1>5. (~raced' => ~raced) /\ (~died' => ~died)
  BY Zenon
<1> QED
  BY <1>3, <1>4, <1>5 DEF LimitInv

LEMMA TimePassesLimit == ASSUME IInv, LimitInv, TimePasses PROVE LimitInv'
<1>1. UNCHANGED <<job, raced, died>>
  BY DEF TimePasses
<1>2. CASE UNCHANGED sessions
  BY <1>1, <1>2, SameTypes, StillLimit DEF IInv
<1>3. CASE \E s \in DOMAIN sessions : sessions' = [sessions EXCEPT ![s].fresh = FALSE]
  <2>1. PICK s \in 1..Len(sessions) : sessions' = [sessions EXCEPT ![s].fresh = FALSE]
    BY <1>3, Lengths DEF IInv
  <2> DEFINE x == [sessions[s] EXCEPT !.fresh = FALSE]
  <2>2. x \in Session /\ x.status = sessions[s].status
    BY Lengths DEF IInv, Session
  <2>3. sessions' = [sessions EXCEPT ![s] = x]
    BY <2>1, SameTypes
  <2>4. /\ sessions' \in Seq(Session) /\ Len(sessions') = Len(sessions)
        /\ \A n \in 1..Len(sessions) : sessions'[n] = IF n = s THEN x ELSE sessions[n]
    BY <2>2, <2>3, SameTypes, ExceptSeq
  <2> HIDE DEF x
  <2> QED
    BY <1>1, <2>2, <2>4, StillLimit DEF IInv
<1> QED
  BY <1>2, <1>3 DEF TimePasses

LEMMA AbortLimit == ASSUME IInv, LimitInv, NEW w \in Workers, Abort(w) PROVE LimitInv'
<1>1. Busy(w) /\ End(w) /\ died' = TRUE /\ UNCHANGED <<sessions, raced>>
  BY DEF Abort, Busy, At
<1>2. (\A v \in Workers \ {w} : job'[v] = job[v]) /\ job'[w].pc = "idle"
  BY <1>1, EndFacts DEF IInv
<1>3. (raced => raced') /\ (~raced' => ~raced)
  BY <1>1, Zenon
<1>4. ASSUME ~raced', NEW v \in Workers
      PROVE  ~Trimming(v)'
  BY <1>1, <1>2, <1>3, <1>4, OthersIdle DEF Busy, Trimming
<1>5. Fades
  BY <1>1, SameSessions DEF IInv
<1> QED
  BY <1>1, <1>3, <1>4, <1>5, CalmLimit DEF IInv

LEMMA NextLimit == ASSUME IInv, LimitInv, [Next]_vars PROVE LimitInv'
<1>1. ASSUME NEW w \in Workers, Step(w)
      PROVE  LimitInv'
  BY <1>1, PassingSteps, FadingSteps, PassingLimit, CreateSessionLimit, ListSessionsLimit,
     TrimSessionsLimit DEF Step
<1>2. ASSUME NEW s \in Rows, Logout(s)
      PROVE  LimitInv'
  <2>1. sessions' = Revoked(sessions, {s}) /\ Overlap /\ UNCHANGED <<job, died>>
    BY <1>2 DEF Logout
  <2>2. Fades
    BY <2>1, RevokedSessions DEF IInv
  <2> QED
    BY <2>1, <2>2, StartLimit
<1>3. CASE RequestCode
  <2>1. UNCHANGED sessions /\ Overlap /\ UNCHANGED <<job, died>>
    BY <1>3 DEF RequestCode
  <2>2. Fades
    BY <2>1, SameSessions DEF IInv
  <2> QED
    BY <2>1, <2>2, StartLimit
<1>4. CASE UNCHANGED vars
  BY <1>4, SameTypes, StillLimit DEF vars, IInv
<1> QED
  BY <1>1, <1>2, <1>3, <1>4, StartsLimit, TimePassesLimit, AbortLimit DEF Next

LEMMA InitLimit == Init => LimitInv
<1> SUFFICES ASSUME Init
             PROVE  LimitInv
  OBVIOUS
<1>1. Idle.pc = "idle"
  BY RequestFacts, PcNames DEF Idle
<1>2. \A w \in Workers : job[w].pc = "idle"
  BY <1>1 DEF Init
<1>3. sessions \in Seq(Session)
  BY InitIInv DEF IInv, TypeOK
<1>4. Len(sessions) = 1
  BY DEF Init
<1>5. Active(sessions) \subseteq {1}
  BY <1>3, <1>4, LenProperties DEF Active
<1>6. IsFiniteSet({1}) /\ Cardinality({1}) = 1
  BY FS_Singleton
<1>7. Cardinality(Active(sessions)) <= 1 /\ Cardinality(Active(sessions)) \in Nat
  BY <1>3, <1>5, <1>6, FS_Subset, ActiveBounds
<1> QED
  BY <1>2, <1>7, LimitBounds DEF LimitInv, Newly, Trimming, Within

LEMMA StepKeepsNewest ==
  ASSUME IInv, LimitInv, [Next]_vars, ~raced', \E w \in Workers : At(w, "trim"),
         vars' # vars
  PROVE  Len(sessions) \in Active(sessions')
<1>1. PICK w \in Workers : job[w].pc = "trim"
  BY DEF At
<1>2. Busy(w)
  BY <1>1 DEF Busy
<1>3. ASSUME Overlap
      PROVE  FALSE
  BY <1>2, <1>3, OverlapFacts
<1>4. raced => raced'
  <2>1. \A v \in Workers : Step(v) \/ Abort(v) => raced' = raced
    BY DEF Step, Abort, Bump, ExpireCounter, Fail, ClearCounter, PasswordPasses, CheckStep,
       StampStep, TrustDevice, Settle, CreateSession, ListSessions, TrimSessions, Rotate,
       DetectReuse, RevokeFamily, WritePassword, RevokeSessions, RevokeDevices, MissCode,
       ConsumeCode
  <2>2. \A v \in Workers : Start(v) => Overlap
    BY DEF Start, TryPassword, TryTotp, TryCode, Refresh, LogoutAll, ChangePassword, Begin
  <2>3. TimePasses => raced' = raced
    BY DEF TimePasses
  <2>4. RequestCode \/ (\E s \in Rows : Logout(s)) => Overlap
    BY DEF RequestCode, Logout
  <2> QED
    BY <1>3, <2>1, <2>2, <2>3, <2>4 DEF Next, vars
<1>5. ~raced
  BY <1>4, Zenon
<1>6. Len(sessions) \in Active(sessions) /\ job[w].doomed = Beyond
  BY <1>1, <1>5 DEF LimitInv, Newly, Trimming
<1>7. \A v \in Workers : v # w => job[v].pc = "idle"
  BY <1>2, <1>5, OthersIdle DEF Busy
<1>8. CASE UNCHANGED sessions
  BY <1>6, <1>8
<1>9. CASE TrimSessions(w)
  <2>1. Active(sessions') = Newest(Active(sessions), Limit)
    BY <1>6, <1>9, Trimmed DEF TrimSessions, Survivors
  <2>2. Len(sessions) \in Nat /\ Active(sessions) \in SUBSET (1..Len(sessions))
    BY ActiveBounds, SameTypes
  <2> QED
    BY <1>6, <2>1, <2>2, LimitBounds, HighestIsNewest
<1>10. CASE TimePasses
  <2>1. LimitInv' /\ IInv' /\ UNCHANGED <<job, raced>>
    BY <1>10, TimePassesLimit, TimePassesIInv DEF TimePasses
  <2>2. Len(sessions') \in Active(sessions')
    BY <1>1, <1>5, <2>1 DEF LimitInv, Newly, Trimming
  <2>3. Len(sessions') = Len(sessions)
    <3>1. CASE UNCHANGED sessions
      BY <3>1
    <3>2. CASE \E s \in DOMAIN sessions : sessions' = [sessions EXCEPT ![s].fresh = FALSE]
      BY <2>1, <3>2, SameTypes, LenProperties, ExceptSeq
    <3> QED
      BY <1>10, <3>1, <3>2 DEF TimePasses
  <2> QED
    BY <2>2, <2>3
<1>11. ASSUME NEW v \in Workers, Step(v)
       PROVE  v = w /\ TrimSessions(v)
  <2>1. v = w
    BY <1>7, <1>11 DEF Step, At, Bump, ExpireCounter, Fail, ClearCounter, PasswordPasses,
       CheckStep, StampStep, TrustDevice, Settle, CreateSession, ListSessions, TrimSessions,
       Rotate, DetectReuse, RevokeFamily, WritePassword, RevokeSessions, RevokeDevices,
       MissCode, ConsumeCode
  <2> QED
    BY <1>1, <1>11, <2>1 DEF Step, At, Bump, ExpireCounter, Fail, ClearCounter, PasswordPasses,
       CheckStep, StampStep, TrustDevice, Settle, CreateSession, ListSessions,
       Rotate, DetectReuse, RevokeFamily, WritePassword, RevokeSessions, RevokeDevices,
       MissCode, ConsumeCode
<1>12. ASSUME NEW v \in Workers, Start(v)
       PROVE  Overlap
  BY <1>12 DEF Start, TryPassword, TryTotp, TryCode, Refresh, LogoutAll, ChangePassword, Begin
<1>13. ASSUME NEW v \in Workers, Abort(v)
       PROVE  UNCHANGED sessions
  BY <1>13 DEF Abort
<1>14. RequestCode \/ (\E s \in Rows : Logout(s)) => Overlap
  BY DEF RequestCode, Logout
<1> QED
  BY <1>3, <1>8, <1>9, <1>10, <1>11, <1>12, <1>13, <1>14 DEF Next

\* At most Limit sessions of an account work once its requests have ended, and
\* the session just opened is not among those that are revoked
\* (enforceConcurrentSessionLimit), for any limit and any number of sessions, as
\* long as requests do not overlap.
THEOREM SessionsWithinLimitHolds == Spec => SessionsWithinLimit
<1>1. Init => LimitInv
  BY InitLimit
<1>2. IInv /\ LimitInv /\ [Next]_vars => LimitInv'
  BY NextLimit
<1>3. IInv /\ LimitInv /\ [Next]_vars =>
        [~raced' /\ (\E w \in Workers : At(w, "trim")) => Len(sessions) \in Active(sessions')]_vars
  BY StepKeepsNewest
<1>4. LimitInv => SessionLimitHolds
  BY DEF LimitInv, Trimming, Within, SessionLimitHolds, Quiet, At
<1> QED
  BY <1>1, <1>2, <1>3, <1>4, InvariantHolds, PTL DEF Spec, SessionsWithinLimit, NewestSurvives
=============================================================================
