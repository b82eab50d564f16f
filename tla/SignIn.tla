------------------------------- MODULE SignIn -------------------------------
(***************************************************************************)
(* One staff account with a second factor: password sign-in with its       *)
(* lockout, authenticator codes, trusted devices, one-time reset codes,    *)
(* and the sessions these open, with refresh-token rotation, reuse         *)
(* detection and the limit on concurrent sessions.  A student's sign-in is *)
(* the same without the second factor.                                     *)
(*                                                                         *)
(* Source: apps/api/src/auth/{auth,session,otp,mfa,trusted-device}         *)
(* .service.ts.                                                            *)
(***************************************************************************)
EXTENDS Integers, Sequences, FiniteSets

CONSTANTS
  MaxFailures,     \* LOGIN_MAX_FAILURES
  MaxAttempts,     \* OTP_MAX_ATTEMPTS
  Limit,           \* MAX_CONCURRENT_SESSIONS
  MaxRows,         \* bound: sessions, and one-time codes, ever created
  Tolerance,       \* how many time steps a code may be off the clock (otplib's window)
  LastStep,        \* bound: the last time step of the authenticator considered
  Workers,         \* concurrent request slots of the API
  Budgets          \* bound: how many requests of each kind, how much time and
                   \* how many deaths of requests occur in one run

Kinds == {"password", "totp", "code", "refresh", "end", "time", "death"}

ASSUME SignInAssumption ==
  /\ MaxFailures \in Nat \ {0} /\ MaxAttempts \in Nat \ {0} /\ Limit \in Nat \ {0}
  /\ MaxRows \in Nat \ {0}
  /\ Tolerance \in Nat /\ LastStep \in Nat
  /\ Budgets \subseteq [Kinds -> Nat]

VARIABLES
  failed,     \* users.failedLogins
  locked,     \* users.lockedUntil lies in the future
  counter,    \* the failure counter of the address in Redis, and whether it expires
  challenge,  \* the mfaTokens at hand: got with the password of now, or a former one
  lastUsed,   \* mfa_factors.lastUsedStep (0: never)
  step,       \* the authenticator's current time step
  codes,      \* otp_challenges for a password reset, oldest first
  devices,    \* trusted_devices, oldest first
  sessions,   \* login_sessions, oldest first; the refresh token is the row's
  job,        \* the request running in each slot
  wrong,      \* history: wrong secrets in a row since the last right one or lock
  guesses,    \* history: since the last sign-in, lock or reset, how many authenticator
              \* codes were wrong and how often the password was right
  consumed,   \* history: how often each one-time code was accepted
  accepted,   \* history: the authenticator codes accepted, and in which step each
  reused,     \* history: families in which reuse of a token was detected
  raced,      \* history: two requests have overlapped
  died,       \* history: a request has died
  budget      \* what is left of the budget

lock == <<failed, locked, counter>>
history == <<wrong, guesses, consumed, accepted, reused>>
vars == <<lock, challenge, lastUsed, step, codes, devices, sessions, job, history,
          raced, died, budget>>

Rows == 1..MaxRows
Codes == 1..LastStep    \* the authenticator's codes, named after the step each belongs to

\* opened (a history) tells how a session or a device came to be: under the
\* password of now, before it was set, or after it was set by an mfaToken that was
\* got with a former one.
Origins == {"now", "late"}
Ages == Origins \cup {"before"}
Session == [family : Rows, status : {"ACTIVE", "REVOKED"}, fresh : BOOLEAN, opened : Ages]
Device == [status : {"ACTIVE", "REVOKED"}, opened : Ages]
Code == [attempts : Nat, consumed : BOOLEAN, fresh : BOOLEAN]
Acceptance == [code : Nat, at : Nat]
Guesses == [codes : Nat, passed : Nat]
Pcs == {"idle", "bump", "expire", "fail", "clear", "unlock", "totp", "stamp", "issue",
        "limit", "trim", "trust", "settle", "rotate", "reuse", "family", "miss", "consume",
        "reset", "change", "ends", "forget"}

\* row: the session, code or step a request is about; read: failedLogins as
\* read; hard: the counter says lock; family: of the session to open (0: a new
\* one); next: what follows the session; doomed: sessions beyond the limit;
\* code: the authenticator code presented (0: none there is); origin: of its mfaToken.
Job == [pc : Pcs, row : Nat, read : Nat, hard : BOOLEAN, family : Rows \cup {0},
        next : Pcs, doomed : SUBSET Rows, code : Nat, origin : Origins]

Request(p, row, read) ==
  [pc |-> p, row |-> row, read |-> read, hard |-> FALSE, family |-> 0, next |-> "idle",
   doomed |-> {}, code |-> 0, origin |-> "now"]
Idle == Request("idle", 0, 0)
NoGuesses == [codes |-> 0, passed |-> 0]

TypeOK ==
  /\ failed \in Nat /\ locked \in BOOLEAN
  /\ counter \in [count : Nat, expires : BOOLEAN]
  /\ challenge \subseteq Origins
  /\ lastUsed \in Nat /\ step \in Nat
  /\ codes \in Seq(Code) /\ devices \in Seq(Device) /\ sessions \in Seq(Session)
  /\ job \in [Workers -> Job]
  /\ wrong \in Nat /\ guesses \in Guesses
  /\ consumed \in [Rows -> Nat] /\ accepted \in Seq(Acceptance)
  /\ reused \subseteq Rows
  /\ raced \in BOOLEAN /\ died \in BOOLEAN
  /\ budget \in [Kinds -> Nat]

\* The account is signed in on one device, which is trusted.
Init ==
  /\ failed = 0 /\ locked = FALSE /\ counter = [count |-> 0, expires |-> FALSE]
  /\ challenge = {} /\ lastUsed = 0 /\ step = 1
  /\ codes = <<>>
  /\ devices = <<[status |-> "ACTIVE", opened |-> "now"]>>
  /\ sessions = <<[family |-> 1, status |-> "ACTIVE", fresh |-> TRUE, opened |-> "now"]>>
  /\ job = [w \in Workers |-> Idle]
  /\ wrong = 0 /\ guesses = NoGuesses
  /\ consumed = [c \in Rows |-> 0] /\ accepted = <<>>
  /\ reused = {}
  /\ raced = FALSE /\ died = FALSE
  /\ budget \in Budgets

-----------------------------------------------------------------------------
At(w, p) == job[w].pc = p
Goto(w, p) == job' = [job EXCEPT ![w].pc = p]
End(w) == job' = [job EXCEPT ![w] = Idle]
Spend(k) == budget[k] > 0 /\ budget' = [budget EXCEPT ![k] = @ - 1]
Overlap == raced' = (raced \/ \E v \in Workers : ~At(v, "idle"))

Begin(w, kind, request) ==
  /\ At(w, "idle")
  /\ job' = [job EXCEPT ![w] = request]
  /\ Overlap /\ Spend(kind)
  /\ UNCHANGED died

Active(rows) == {n \in DOMAIN rows : rows[n].status = "ACTIVE"}
Revoked(rows, which) ==
  [n \in DOMAIN rows |-> IF n \in which /\ rows[n].status = "ACTIVE"
                           THEN [rows[n] EXCEPT !.status = "REVOKED"] ELSE rows[n]]
Newest(rows, k) == {n \in rows : Cardinality({m \in rows : m > n}) < k}

(* Mutated forms: bugs this code could have had, each caught by a property. *)
EveryCode == DOMAIN codes
SameTokenOnly(s) == {s}
OldestSurvive(rows) == {n \in rows : Cardinality({m \in rows : m < n}) < Limit}
KeepDevices == devices

-----------------------------------------------------------------------------
(* Password and lockout. *)

Locks(n) == n >= MaxFailures

\* staffLogin: the row is read and the password compared with what was read.
TryPassword(w, right) ==
  /\ ~locked
  /\ Begin(w, "password", Request(IF right THEN "clear" ELSE "bump", 0, failed))
  /\ UNCHANGED <<lock, challenge, lastUsed, step, codes, devices, sessions, history>>

\* bumpDestinationFailure: INCR, then EXPIRE the first time.
Bump(w) ==
  LET n == counter.count + 1 IN
  /\ At(w, "bump")
  /\ counter' = [counter EXCEPT !.count = n]
  /\ job' = [job EXCEPT ![w].hard = Locks(n), ![w].pc = IF n = 1 THEN "expire" ELSE "fail"]
  /\ wrong' = wrong + 1
  /\ UNCHANGED <<raced, died, budget>>
  /\ UNCHANGED <<failed, locked, challenge, lastUsed, step, codes, devices, sessions,
                 guesses, consumed, accepted, reused>>

ExpireCounter(w) ==
  /\ At(w, "expire")
  /\ counter' = [counter EXCEPT !.expires = counter.count > 0]
  /\ Goto(w, "fail")
  /\ UNCHANGED <<raced, died, budget>>
  /\ UNCHANGED <<failed, locked, challenge, lastUsed, step, codes, devices, sessions, history>>

\* The write after a wrong password or a wrong authenticator code.
Fail(w) ==
  LET n == job[w].read + 1
      locks == job[w].hard \/ Locks(n)
  IN
  /\ At(w, "fail")
  /\ failed' = IF locks THEN 0 ELSE n
  /\ locked' = locks
  /\ End(w)
  /\ UNCHANGED <<raced, died, budget>>
  /\ UNCHANGED <<counter, challenge, lastUsed, step, codes, devices, sessions, history>>

\* clearDestinationFailures.
ClearCounter(w) ==
  /\ At(w, "clear")
  /\ counter' = [count |-> 0, expires |-> FALSE]
  /\ Goto(w, "unlock")
  /\ UNCHANGED <<raced, died, budget>>
  /\ UNCHANGED <<failed, locked, challenge, lastUsed, step, codes, devices, sessions, history>>

\* staffLogin: the failures are forgotten; a trusted device opens a session, any
\* other gets an mfaToken.
PasswordPasses(w) ==
  /\ At(w, "unlock")
  /\ failed' = 0 /\ locked' = FALSE /\ wrong' = 0
  /\ guesses' = [guesses EXCEPT !.passed = @ + 1]
  /\ \/ Active(devices) # {} /\ Goto(w, "issue") /\ UNCHANGED challenge
     \/ End(w) /\ challenge' = challenge \cup {"now"}
  /\ UNCHANGED <<raced, died, budget>>
  /\ UNCHANGED <<counter, lastUsed, step, codes, devices, sessions, consumed, accepted, reused>>

-----------------------------------------------------------------------------
(* The second factor. *)

\* staffMfaVerify: an mfaToken is good as often as it is presented; the row is
\* read, with failedLogins.
TryTotp(w, token, code) ==
  /\ token \in challenge /\ ~locked
  /\ Begin(w, "totp", [Request("totp", 0, failed) EXCEPT !.code = code, !.origin = token])
  /\ UNCHANGED <<lock, challenge, lastUsed, step, codes, devices, sessions, history>>

Near(code, s) == code # 0 /\ code - s <= Tolerance /\ s - code <= Tolerance
Newer(s) == lastUsed < s

\* mfa.verify: the factor is read and the code compared; it is the step of the
\* clock, not that of the code, that has to be newer than the last.
CheckStep(w) ==
  LET passes == Near(job[w].code, step) /\ Newer(step) IN
  /\ At(w, "totp")
  /\ job' = [job EXCEPT ![w].pc = IF passes THEN "stamp" ELSE "fail", ![w].row = step]
  /\ IF passes THEN UNCHANGED <<wrong, guesses>>
               ELSE wrong' = wrong + 1 /\ guesses' = [guesses EXCEPT !.codes = @ + 1]
  /\ UNCHANGED <<raced, died, budget>>
  /\ UNCHANGED <<lock, challenge, lastUsed, step, codes, devices, sessions,
                 consumed, accepted, reused>>

\* mfa.verify: the step is written; the sign-in goes on, with or without
\* "trust this device".
StampStep(w) ==
  /\ At(w, "stamp")
  /\ lastUsed' = job[w].row
  /\ accepted' = Append(accepted, [code |-> job[w].code, at |-> job[w].row])
  /\ \E next \in {"trust", "settle"} :
       job' = [job EXCEPT ![w] = [Request("issue", 0, 0) EXCEPT !.next = next, !.origin = job[w].origin]]
  /\ UNCHANGED <<raced, died, budget>>
  /\ UNCHANGED <<lock, challenge, step, codes, devices, sessions, wrong, guesses, consumed, reused>>

\* trustedDevices.create.
TrustDevice(w) ==
  /\ At(w, "trust")
  /\ devices' = Append(devices, [status |-> "ACTIVE", opened |-> job[w].origin])
  /\ Goto(w, "settle")
  /\ UNCHANGED <<raced, died, budget>>
  /\ UNCHANGED <<lock, challenge, lastUsed, step, codes, sessions, history>>

\* staffMfaVerify: the failures are forgotten.
Settle(w) ==
  /\ At(w, "settle")
  /\ failed' = 0 /\ locked' = FALSE /\ wrong' = 0 /\ guesses' = NoGuesses
  /\ End(w)
  /\ UNCHANGED <<raced, died, budget>>
  /\ UNCHANGED <<counter, challenge, lastUsed, step, codes, devices, sessions,
                 consumed, accepted, reused>>

-----------------------------------------------------------------------------
(* Sessions. *)

NewStatus == "ACTIVE"

\* sessions.create: a row of a new family, or of the rotated session's.
CreateSession(w) ==
  LET n == Len(sessions) + 1
      family == job[w].family
  IN
  /\ At(w, "issue") /\ n \in Rows
  /\ sessions' = Append(sessions, [family |-> IF family = 0 THEN n ELSE family,
                                   status |-> NewStatus, fresh |-> TRUE,
                                   opened |-> IF family = 0 THEN job[w].origin
                                                                ELSE sessions[job[w].row].opened])
  /\ Goto(w, "limit")
  /\ UNCHANGED <<lock, challenge, lastUsed, step, codes, devices, history, raced, died, budget>>

Survivors(rows) == Newest(rows, Limit)

\* enforceConcurrentSessionLimit: the active sessions are listed, ...
ListSessions(w) ==
  LET beyond == Active(sessions) \ Survivors(Active(sessions)) IN
  /\ At(w, "limit")
  /\ job' = [job EXCEPT ![w] = [Request(IF beyond = {} THEN @.next ELSE "trim", 0, 0)
                                  EXCEPT !.next = job[w].next, !.origin = job[w].origin,
                                         !.doomed = beyond]]
  /\ UNCHANGED <<lock, challenge, lastUsed, step, codes, devices, sessions, history,
                 raced, died, budget>>

\* ... and those beyond the limit revoked.
TrimSessions(w) ==
  /\ At(w, "trim")
  /\ sessions' = Revoked(sessions, job[w].doomed)
  /\ job' = [job EXCEPT ![w] = [Request(@.next, 0, 0) EXCEPT !.origin = job[w].origin]]
  /\ UNCHANGED <<lock, challenge, lastUsed, step, codes, devices, history, raced, died, budget>>

\* refresh with the token of session s: rotate, or handlePotentialReuse.
Refresh(w, s) ==
  LET usable == sessions[s].status = "ACTIVE" /\ sessions[s].fresh IN
  /\ s \in DOMAIN sessions
  /\ Begin(w, "refresh", [Request(IF usable THEN "rotate" ELSE "reuse", s, 0)
                            EXCEPT !.family = sessions[s].family])
  /\ UNCHANGED <<lock, challenge, lastUsed, step, codes, devices, sessions, history>>

AfterRotation(s) == [sessions EXCEPT ![s].status = "REVOKED"]

\* rotate: the row is revoked, and a successor created in its family.
Rotate(w) ==
  /\ At(w, "rotate")
  /\ sessions' = AfterRotation(job[w].row)
  /\ Goto(w, "issue")
  /\ UNCHANGED <<lock, challenge, lastUsed, step, codes, devices, history, raced, died, budget>>

\* handlePotentialReuse: only a revoked token tells of reuse.
DetectReuse(w) ==
  /\ At(w, "reuse")
  /\ IF sessions[job[w].row].status = "REVOKED" THEN Goto(w, "family") ELSE End(w)
  /\ UNCHANGED <<lock, challenge, lastUsed, step, codes, devices, sessions, history,
                 raced, died, budget>>

FamilyOf(s) == {n \in DOMAIN sessions : sessions[n].family = sessions[s].family}

RevokeFamily(w) ==
  LET s == job[w].row IN
  /\ At(w, "family")
  /\ sessions' = Revoked(sessions, FamilyOf(s))
  /\ reused' = reused \cup {job[w].family}
  /\ End(w)
  /\ UNCHANGED <<lock, challenge, lastUsed, step, codes, devices, wrong, guesses, consumed, accepted,
                 raced, died, budget>>

\* logout, and ending one session from the list.
Logout(s) ==
  /\ s \in Active(sessions)
  /\ sessions' = Revoked(sessions, {s})
  /\ Overlap /\ Spend("end")
  /\ UNCHANGED <<lock, challenge, lastUsed, step, codes, devices, job, history, died>>

-----------------------------------------------------------------------------
(* Ending everything: logoutAll, changePassword, passwordReset. *)

LogoutAll(w) ==
  /\ Begin(w, "end", Request("ends", 0, 0))
  /\ UNCHANGED <<lock, challenge, lastUsed, step, codes, devices, sessions, history>>

\* changePassword, past the check of the current one; it leaves the lockout alone.
ChangePassword(w) ==
  /\ Begin(w, "end", Request("change", 0, 0))
  /\ UNCHANGED <<lock, challenge, lastUsed, step, codes, devices, sessions, history>>

Old(rows) == [n \in DOMAIN rows |-> [rows[n] EXCEPT !.opened = "before"]]

\* The new password hash; nothing is done about the mfaTokens at hand.
WritePassword(w) ==
  /\ At(w, "change") \/ At(w, "reset")
  /\ IF At(w, "reset")
       THEN failed' = 0 /\ locked' = FALSE /\ wrong' = 0 /\ guesses' = NoGuesses
       ELSE UNCHANGED <<failed, locked, wrong, guesses>>
  /\ sessions' = Old(sessions) /\ devices' = Old(devices)
  /\ challenge' = {"late" : token \in challenge}
  /\ Goto(w, "ends")
  /\ UNCHANGED <<counter, lastUsed, step, codes, consumed, accepted, reused,
                 raced, died, budget>>

\* sessions.revokeAll.
RevokeSessions(w) ==
  /\ At(w, "ends")
  /\ sessions' = Revoked(sessions, DOMAIN sessions)
  /\ Goto(w, "forget")
  /\ UNCHANGED <<lock, challenge, lastUsed, step, codes, devices, history, raced, died, budget>>

NoDevices == Revoked(devices, DOMAIN devices)

\* trustedDevices.revokeAll.
RevokeDevices(w) ==
  /\ At(w, "forget")
  /\ devices' = NoDevices
  /\ End(w)
  /\ UNCHANGED <<lock, challenge, lastUsed, step, codes, sessions, history, raced, died, budget>>

-----------------------------------------------------------------------------
(* One-time codes. *)

\* otp.request.
RequestCode ==
  /\ Len(codes) < MaxRows
  /\ codes' = Append(codes, [attempts |-> 0, consumed |-> FALSE, fresh |-> TRUE])
  /\ Overlap /\ Spend("code")
  /\ UNCHANGED <<lock, challenge, lastUsed, step, devices, sessions, job, history, died>>

Unconsumed == {c \in DOMAIN codes : ~codes[c].consumed}
Exhausted(n) == n >= MaxAttempts

\* otp.verify: the newest unconsumed code is read and compared.
TryCode(w, right) ==
  \E c \in Newest(Unconsumed, 1) :
    /\ codes[c].fresh /\ ~Exhausted(codes[c].attempts)
    /\ Begin(w, "code", Request(IF right THEN "consume" ELSE "miss", c, 0))
    /\ UNCHANGED <<lock, challenge, lastUsed, step, codes, devices, sessions, history>>

\* otp.verify: a wrong code costs an attempt.
MissCode(w) ==
  /\ At(w, "miss")
  /\ codes' = [codes EXCEPT ![job[w].row].attempts = @ + 1]
  /\ End(w)
  /\ UNCHANGED <<lock, challenge, lastUsed, step, devices, sessions, history, raced, died, budget>>

\* otp.verify: the right one is consumed, whoever else is consuming it.
ConsumeCode(w) ==
  LET c == job[w].row IN
  /\ At(w, "consume")
  /\ codes' = [codes EXCEPT ![c].consumed = TRUE]
  /\ consumed' = [consumed EXCEPT ![c] = @ + 1]
  /\ Goto(w, "reset")
  /\ UNCHANGED <<lock, challenge, lastUsed, step, devices, sessions, wrong, guesses, accepted, reused,
                 raced, died, budget>>

-----------------------------------------------------------------------------
(* Time and faults. *)

\* The counter was started before the lock was set: it runs out first.
TimePasses ==
  /\ \/ step < LastStep /\ step' = step + 1
        /\ UNCHANGED <<lock, wrong, guesses, challenge, codes, sessions>>
     \/ counter.expires /\ counter' = [count |-> 0, expires |-> FALSE]
        /\ UNCHANGED <<failed, locked, wrong, guesses, challenge, step, codes, sessions>>
     \/ locked /\ ~counter.expires /\ locked' = FALSE /\ wrong' = 0 /\ guesses' = NoGuesses
        /\ UNCHANGED <<failed, counter, challenge, step, codes, sessions>>
     \/ \E token \in challenge : challenge' = challenge \ {token}
        /\ UNCHANGED <<lock, wrong, guesses, step, codes, sessions>>
     \/ \E c \in DOMAIN codes :
          codes[c].fresh /\ codes' = [codes EXCEPT ![c].fresh = FALSE]
          /\ UNCHANGED <<lock, wrong, guesses, challenge, step, sessions>>
     \/ \E s \in DOMAIN sessions :
          sessions[s].fresh /\ sessions' = [sessions EXCEPT ![s].fresh = FALSE]
          /\ UNCHANGED <<lock, wrong, guesses, challenge, step, codes>>
  /\ Spend("time")
  /\ UNCHANGED <<lastUsed, devices, job, consumed, accepted, reused, raced, died>>

Abort(w) ==
  /\ ~At(w, "idle") /\ Spend("death")
  /\ End(w) /\ died' = TRUE
  /\ UNCHANGED <<lock, challenge, lastUsed, step, codes, devices, sessions, history, raced>>

Step(w) ==
  \/ Bump(w) \/ ExpireCounter(w) \/ Fail(w) \/ ClearCounter(w) \/ PasswordPasses(w)
  \/ CheckStep(w) \/ StampStep(w) \/ TrustDevice(w) \/ Settle(w)
  \/ CreateSession(w) \/ ListSessions(w) \/ TrimSessions(w)
  \/ Rotate(w) \/ DetectReuse(w) \/ RevokeFamily(w)
  \/ WritePassword(w) \/ RevokeSessions(w) \/ RevokeDevices(w)
  \/ MissCode(w) \/ ConsumeCode(w)

Start(w) ==
  \/ \E right \in BOOLEAN : TryPassword(w, right) \/ TryCode(w, right)
  \/ \E token \in Origins, code \in Codes \cup {0} : TryTotp(w, token, code)
  \/ \E s \in Rows : Refresh(w, s)
  \/ LogoutAll(w) \/ ChangePassword(w)

Next ==
  \/ RequestCode \/ TimePasses
  \/ \E s \in Rows : Logout(s)
  \/ \E w \in Workers : Start(w) \/ Step(w) \/ Abort(w)

Spec == Init /\ [][Next]_vars
-----------------------------------------------------------------------------
(* Properties.  Quiet: no request has overlapped another, none has died and
   none is running. *)

Quiet == ~raced /\ ~died /\ \A w \in Workers : At(w, "idle")

\* When refreshes do not overlap, a family has one token that works, whatever
\* was rotated, reused or ended in it before.
OneTokenPerFamily ==
  ~raced => \A m, n \in Active(sessions) : sessions[m].family = sessions[n].family => m = n

\* When requests do not overlap, a family in which a token was used twice is
\* dead for good: nothing opens a session in it again.
ReuseEndsFamily == ~raced => \A n \in Active(sessions) : sessions[n].family \notin reused

\* Whatever was opened, rotated or ended before, at most Limit sessions work.
SessionLimitHolds == Quiet => Cardinality(Active(sessions)) <= Limit

\* It is the newest session that survives the limit: nobody is thrown out by
\* their own sign-in or refresh.
NewestSurvives ==
  [][~raced' /\ (\E w \in Workers : At(w, "trim")) => Len(sessions) \in Active(sessions')]_vars

\* A new password ends everything that was opened before it, under any password:
\* sessions, what was rotated from them, and trusted devices.  It does not end
\* the mfaTokens that were got with the old one: for the five minutes they last,
\* each still opens sessions and trusts devices ("late"), which then live on until
\* the next new password.
NewPasswordEndsAccess ==
  Quiet => /\ \A n \in Active(sessions) : sessions[n].opened # "before"
           /\ \A n \in Active(devices) : devices[n].opened # "before"

\* MaxFailures wrong secrets in a row, passwords and authenticator codes mixed,
\* lock the account; a right password starts the row again, ...
WrongSecretsLock == Quiet => wrong < MaxFailures \/ locked

\* ... so it is not codes alone that are limited: every right password buys
\* MaxFailures - 1 more of them.
GuessesCostPasswords ==
  Quiet => locked \/ guesses.codes <= (MaxFailures - 1) * (guesses.passed + 1)

\* A one-time code is accepted once and refused after MaxAttempts wrong tries,
\* also when an older code becomes the newest unconsumed one again.
CodesUsedOnce ==
  ~raced => /\ \A c \in Rows : consumed[c] <= 1
            /\ \A c \in DOMAIN codes : codes[c].attempts <= MaxAttempts

\* In each time step one authenticator code is accepted, and none any more once the
\* clock is out of its reach: never twice where no deviation is tolerated.
TotpUsedOnce ==
  ~raced => \A m, n \in DOMAIN accepted : m < n =>
    /\ accepted[m].at < accepted[n].at
    /\ accepted[m].code = accepted[n].code => accepted[n].at - accepted[m].at <= 2 * Tolerance

\* Without overlap, rotation and reuse detection leave a family one token or none.
TokenFamilies == OneTokenPerFamily /\ ReuseEndsFamily

\* The limit on sessions holds, and it is the oldest that give way.
SessionsWithinLimit == []SessionLimitHolds /\ NewestSurvives

\* A secret is good for one use and a few guesses.
SecretsAreLimited ==
  WrongSecretsLock /\ GuessesCostPasswords /\ CodesUsedOnce /\ TotpUsedOnce
=============================================================================
