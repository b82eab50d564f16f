---------------------------- MODULE Institution ----------------------------
(***************************************************************************)
(* The people of one institution: staff invitations from creation to their *)
(* last answer, the accounts they turn into, the institution's head, and   *)
(* the student roster, both under the seat caps of the plan.  What makes   *)
(* the subscription usable is module Billing; here it only changes.        *)
(*                                                                         *)
(* Source: apps/api/src/invitations/invitations.service.ts,                *)
(* students/students.service.ts, student/student.service.ts (join, leave), *)
(* staff-admin/staff-admin.service.ts (patchStatus), auth/auth.service.ts  *)
(* (sign-up), common/assert-student-seat.util.ts.                          *)
(***************************************************************************)
EXTENDS Integers, FiniteSets

CONSTANTS
  Invites,         \* staff_invitations rows
  People,          \* staff to be, each with one e-mail and one phone
  Students,        \* students, each with one phone
  StaffSeats,      \* plan.maxStaffSeats
  StudentSeats,    \* plan.maxActiveStudents
  Workers,         \* concurrent request slots of the API
  Budgets,         \* bound: how many requests about staff and about students, and
                   \* deaths of requests, occur in one run
  None             \* SQL NULL

Kinds == {"staff", "student", "death"}

ASSUME InstitutionAssumption ==
  /\ StaffSeats \in Nat \ {0} /\ StudentSeats \in Nat \ {0}
  /\ IsFiniteSet(Invites) /\ IsFiniteSet(People) /\ IsFiniteSet(Students)
  /\ Budgets \subseteq [Kinds -> Nat]
  /\ None \notin Invites \cup People \cup Students

VARIABLES
  inv,        \* staff_invitations
  staff,      \* the staff account of each person
  chief,      \* organizations.headUserId
  sub,        \* the institution's subscription, as the seat gates see it
  students,   \* student accounts and whether they belong here
  job,        \* the request running in each slot
  raced,      \* history: two requests have overlapped
  unchecked,  \* history: the ways around a gate that were taken: a team or a roster
              \* that grew without one, a lapsed invitation sent again
  budget      \* what is left of the budget

ghosts == <<raced, unchecked, budget>>
vars == <<inv, staff, chief, sub, students, job, ghosts>>

Roles == {"HEAD", "STAFF"}
InviteStatuses == {"NONE", "PENDING", "ACCEPTED", "EXPIRED", "REVOKED"}
AccountStatuses == {"NONE", "ACTIVE", "DISABLED", "DELETED"}
Pcs == {"idle", "pending", "seats", "insert", "accept", "lapse", "renew", "revoke",
        "room", "place", "join", "enrol"}

Invitation == [status : InviteStatuses, who : People \cup {None}, role : Roles, fresh : BOOLEAN]
Account == [status : AccountStatuses, member : BOOLEAN]
Job == [pc : Pcs, inv : Invites \cup {None}, who : People \cup Students \cup {None},
        role : Roles, known : BOOLEAN]

Request(p, i, x, r) == [pc |-> p, inv |-> i, who |-> x, role |-> r, known |-> TRUE]
Idle == Request("idle", None, None, "STAFF")

TypeOK ==
  /\ inv \in [Invites -> Invitation]
  /\ staff \in [People -> {"NONE", "ACTIVE", "DISABLED"}]
  /\ chief \in People \cup {None}
  /\ sub \in {"NONE", "USABLE", "UNUSABLE"}
  /\ students \in [Students -> Account]
  /\ job \in [Workers -> Job]
  /\ raced \in BOOLEAN
  /\ unchecked \subseteq {"staff", "student", "resent"}
  /\ budget \in [Kinds -> Nat]

Init ==
  /\ inv = [i \in Invites |-> [status |-> "NONE", who |-> None, role |-> "STAFF", fresh |-> FALSE]]
  /\ staff = [p \in People |-> "NONE"]
  /\ chief = None
  /\ sub = "NONE"
  /\ students = [s \in Students |-> [status |-> "NONE", member |-> FALSE]]
  /\ job = [w \in Workers |-> Idle]
  /\ raced = FALSE /\ unchecked = {}
  /\ budget \in Budgets

-----------------------------------------------------------------------------
At(w, p) == job[w].pc = p
Goto(w, p) == job' = [job EXCEPT ![w].pc = p]
End(w) == job' = [job EXCEPT ![w] = Idle]
Spend(k) == budget[k] > 0 /\ budget' = [budget EXCEPT ![k] = @ - 1]
Overlap == raced' = (raced \/ \E v \in Workers : ~At(v, "idle"))
Note(kinds, cond) == unchecked' = IF cond THEN unchecked \cup kinds ELSE unchecked

Begin(w, request) ==
  /\ At(w, "idle")
  /\ job' = [job EXCEPT ![w] = request]
  /\ Overlap

Live(x) == x.status = "PENDING" /\ x.fresh
Outstanding == {i \in Invites : Live(inv[i])}
Team == {p \in People \ {chief} : staff[p] = "ACTIVE"}
StaffUsed == Cardinality(Team) + Cardinality(Outstanding)
Roster == {s \in Students : students[s].member /\ students[s].status = "ACTIVE"}

(* Mutated forms: bugs this code could have had, each caught by a property. *)
NeverLapsed(x) == FALSE
NobodyInvited(p) == FALSE
AnyUnaccepted == InviteStatuses \ {"NONE", "ACCEPTED"}
NewAccountsOnly(s) == students[s].status = "NONE"

-----------------------------------------------------------------------------
(* Inviting. *)

\* create: nobody on the staff has the address.
Invite(w, p, r) ==
  /\ staff[p] = "NONE"
  /\ Begin(w, Request("pending", None, p, r))
  /\ Spend("staff")
  /\ UNCHANGED <<inv, staff, chief, sub, students, unchecked>>

InvitedAlready(p) == \E i \in Outstanding : inv[i].who = p

\* create: nor a live invitation.
CheckPending(w) ==
  /\ At(w, "pending")
  /\ IF InvitedAlready(job[w].who) THEN End(w) ELSE Goto(w, "seats")
  /\ UNCHANGED <<inv, staff, chief, sub, students, ghosts>>

FirstInvite == sub = "NONE" /\ chief = None

\* create: before there is a head only heads are invited, and no seat is asked
\* for; every later invitation needs a usable subscription and a free seat.
StaffGate(r) ==
  IF FirstInvite THEN r = "HEAD" ELSE sub = "USABLE" /\ StaffUsed < StaffSeats

CheckSeats(w) ==
  /\ At(w, "seats")
  /\ IF StaffGate(job[w].role) THEN Goto(w, "insert") ELSE End(w)
  /\ Note({"staff"}, FirstInvite /\ StaffUsed > 0)
  /\ UNCHANGED <<inv, staff, chief, sub, students, raced, budget>>

Insert(w) ==
  /\ At(w, "insert")
  /\ \E i \in Invites :
       /\ inv[i].status = "NONE"
       /\ inv' = [inv EXCEPT ![i] = [status |-> "PENDING", who |-> job[w].who,
                                     role |-> job[w].role, fresh |-> TRUE]]
  /\ End(w)
  /\ UNCHANGED <<staff, chief, sub, students, ghosts>>

-----------------------------------------------------------------------------
(* Answering. *)

Lapsed(x) == ~x.fresh

\* liveInvitationByToken, from accept and preview: a lapsed link is marked.
OpenLink(w, i) ==
  /\ inv[i].status = "PENDING"
  /\ Begin(w, Request(IF Lapsed(inv[i]) THEN "lapse" ELSE "accept", i, inv[i].who, inv[i].role))
  /\ Spend("staff")
  /\ UNCHANGED <<inv, staff, chief, sub, students, unchecked>>

MarkExpired(w) ==
  /\ At(w, "lapse")
  /\ inv' = [inv EXCEPT ![job[w].inv].status = "EXPIRED"]
  /\ End(w)
  /\ UNCHANGED <<staff, chief, sub, students, ghosts>>

\* The states adminSetPasswordAndAccept and resend start from.
Reopenable == {"PENDING", "EXPIRED"}

\* adminSetPasswordAndAccept and resend do not ask whether the seat of a lapsed
\* invitation is still free.
AdminAccept(w, i) ==
  /\ inv[i].status \in Reopenable
  /\ Begin(w, Request("accept", i, inv[i].who, inv[i].role))
  /\ Spend("staff")
  /\ Note({"staff"}, ~Live(inv[i]))
  /\ UNCHANGED <<inv, staff, chief, sub, students>>

Resend(w, i) ==
  /\ inv[i].status \in Reopenable
  /\ Begin(w, Request("renew", i, inv[i].who, inv[i].role))
  /\ Spend("staff")
  /\ Note({"staff", "resent"}, ~Live(inv[i]))
  /\ UNCHANGED <<inv, staff, chief, sub, students>>

\* resend: a new token and a new expiry.
Renew(w) ==
  /\ At(w, "renew")
  /\ inv' = [inv EXCEPT ![job[w].inv].status = "PENDING", ![job[w].inv].fresh = TRUE]
  /\ End(w)
  /\ UNCHANGED <<staff, chief, sub, students, ghosts>>

AskRevoke(w, i) ==
  /\ inv[i].status = "PENDING"
  /\ Begin(w, Request("revoke", i, inv[i].who, inv[i].role))
  /\ Spend("staff")
  /\ UNCHANGED <<inv, staff, chief, sub, students, unchecked>>

Revoke(w) ==
  /\ At(w, "revoke")
  /\ inv' = [inv EXCEPT ![job[w].inv].status = "REVOKED"]
  /\ End(w)
  /\ UNCHANGED <<staff, chief, sub, students, ghosts>>

\* The unique indexes on users (kind, email) and (kind, phone).
AddressTaken(p) == staff[p] # "NONE"
AnsweredStatus(p) == "ACCEPTED"

\* createFromInvitation, one transaction: the account, the head's place if it
\* is free, the trial if there is no subscription, and the invitation's status.
Accept(w) ==
  LET p == job[w].who
      head == job[w].role = "HEAD"
  IN
  /\ At(w, "accept")
  /\ IF AddressTaken(p)
       THEN UNCHANGED <<inv, staff, chief, sub>>
       ELSE /\ staff' = [staff EXCEPT ![p] = "ACTIVE"]
            /\ chief' = IF head /\ chief = None THEN p ELSE chief
            /\ sub' = IF head /\ sub = "NONE" THEN "USABLE" ELSE sub
            /\ inv' = [inv EXCEPT ![job[w].inv].status = AnsweredStatus(p)]
  /\ End(w)
  /\ UNCHANGED <<students, ghosts>>

\* staff-admin patchStatus (SUSPENDED and DISABLED free the seat alike).
SetStaff(p, status) ==
  /\ staff[p] # "NONE" /\ staff[p] # status
  /\ staff' = [staff EXCEPT ![p] = status]
  /\ Overlap /\ Spend("staff")
  /\ Note({"staff"}, status = "ACTIVE")
  /\ UNCHANGED <<inv, chief, sub, students, job>>

-----------------------------------------------------------------------------
(* Students. *)

\* Signing up, on one's own or through the institution's referral link, which
\* makes the student a member without a seat gate.
SignUp(s, referred) ==
  /\ students[s].status = "NONE"
  /\ students' = [students EXCEPT ![s] = [status |-> "ACTIVE", member |-> referred]]
  /\ Overlap /\ Spend("student")
  /\ Note({"student"}, referred)
  /\ UNCHANGED <<inv, staff, chief, sub, job>>

\* patchStatus; signing in by phone makes the account ACTIVE too.
SetStudent(s, status) ==
  /\ students[s].status \in {"ACTIVE", "DISABLED"} \ {status}
  /\ students' = [students EXCEPT ![s].status = status]
  /\ Overlap /\ Spend("student")
  /\ Note({"student"}, status = "ACTIVE" /\ students[s].member)
  /\ UNCHANGED <<inv, staff, chief, sub, job>>

\* deleteAccount; the phone is freed, for an account that is another student.
DeleteAccount(s) ==
  /\ students[s].status \in {"ACTIVE", "DISABLED"}
  /\ students' = [students EXCEPT ![s].status = "DELETED"]
  /\ Overlap /\ Spend("student")
  /\ UNCHANGED <<inv, staff, chief, sub, job, unchecked>>

Leave(s) ==
  /\ students[s].member /\ students[s].status = "ACTIVE"
  /\ students' = [students EXCEPT ![s].member = FALSE]
  /\ Overlap /\ Spend("student")
  /\ UNCHANGED <<inv, staff, chief, sub, job, unchecked>>

\* joinInstitution and linkToInstitution: a student who is not a member yet.
Join(w, s) ==
  /\ students[s].status \in {"ACTIVE", "DISABLED"} /\ ~students[s].member
  /\ Begin(w, Request("room", None, s, "STAFF"))
  /\ Spend("student")
  /\ UNCHANGED <<inv, staff, chief, sub, students, unchecked>>

ConsumesNewSeat(s) == ~students[s].member

\* enroll: known tells whether the account exists already.
Enroll(w, s) ==
  /\ students[s].status # "DELETED"
  /\ Begin(w, [Request(IF ConsumesNewSeat(s) THEN "place" ELSE "enrol", None, s, "STAFF")
                 EXCEPT !.known = students[s].status # "NONE"])
  /\ Spend("student")
  /\ UNCHANGED <<inv, staff, chief, sub, students, unchecked>>

\* assertCanAddStudent, for a joining student or one that a Head enrols.
CheckRoom(w) ==
  /\ At(w, "room") \/ At(w, "place")
  /\ IF sub = "USABLE" /\ Cardinality(Roster) < StudentSeats
       THEN Goto(w, IF At(w, "room") THEN "join" ELSE "enrol")
       ELSE End(w)
  /\ UNCHANGED <<inv, staff, chief, sub, students, ghosts>>

AddMember(w) ==
  /\ At(w, "join")
  /\ students' = [students EXCEPT ![job[w].who].member = TRUE]
  /\ End(w)
  /\ UNCHANGED <<inv, staff, chief, sub, ghosts>>

\* enroll: the known account becomes a member; a new one is created, unless
\* the phone has been taken since.
EnrolStudent(w) ==
  LET s == job[w].who IN
  /\ At(w, "enrol")
  /\ students' =
       IF job[w].known THEN [students EXCEPT ![s].member = TRUE]
       ELSE IF students[s].status = "NONE"
              THEN [students EXCEPT ![s] = [status |-> "ACTIVE", member |-> TRUE]]
              ELSE students
  /\ End(w)
  /\ UNCHANGED <<inv, staff, chief, sub, ghosts>>

-----------------------------------------------------------------------------
(* The environment and faults. *)

\* expiresAt passes.
Lapse(i) ==
  /\ Live(inv[i])
  /\ inv' = [inv EXCEPT ![i].fresh = FALSE]
  /\ UNCHANGED <<staff, chief, sub, students, job, ghosts>>

\* The subscription is bought, runs out or is renewed (module Billing).
SubscriptionChanges ==
  /\ sub' \in {"USABLE", "UNUSABLE"} \ {sub}
  /\ UNCHANGED <<inv, staff, chief, students, job, ghosts>>

Abort(w) ==
  /\ ~At(w, "idle") /\ Spend("death")
  /\ End(w)
  /\ UNCHANGED <<inv, staff, chief, sub, students, raced, unchecked>>

Step(w) ==
  \/ CheckPending(w) \/ CheckSeats(w) \/ Insert(w)
  \/ MarkExpired(w) \/ Renew(w) \/ Revoke(w) \/ Accept(w)
  \/ CheckRoom(w) \/ AddMember(w) \/ EnrolStudent(w)

StaffRequest ==
  \/ \E w \in Workers, p \in People, r \in Roles : Invite(w, p, r)
  \/ \E w \in Workers, i \in Invites :
       OpenLink(w, i) \/ AdminAccept(w, i) \/ Resend(w, i) \/ AskRevoke(w, i)
  \/ \E p \in People, s \in {"ACTIVE", "DISABLED"} : SetStaff(p, s)

StudentRequest ==
  \E s \in Students :
    \/ \E referred \in BOOLEAN : SignUp(s, referred)
    \/ \E status \in {"ACTIVE", "DISABLED"} : SetStudent(s, status)
    \/ DeleteAccount(s) \/ Leave(s)
    \/ \E w \in Workers : Join(w, s) \/ Enroll(w, s)

Next ==
  \/ StaffRequest \/ StudentRequest
  \/ \E w \in Workers : Step(w) \/ Abort(w)
  \/ \E i \in Invites : Lapse(i)
  \/ SubscriptionChanges

Spec == Init /\ [][Next]_vars
-----------------------------------------------------------------------------
(* Properties. *)

\* While requests do not overlap, no lapsed invitation is revived and nobody is
\* reactivated, the team and the invitations on their way fit the plan's seats:
\* a seat given back by a lapsed or revoked invitation is given out once.
StaffWithinSeats == ~raced /\ "staff" \notin unchecked => StaffUsed <= StaffSeats

\* While requests do not overlap and nobody is referred or reactivated, the
\* roster fits the plan: no way in, re-enrolment included, avoids the gate.
StudentsWithinSeats ==
  ~raced /\ "student" \notin unchecked => Cardinality(Roster) <= StudentSeats

\* A person gets one account, and it is there exactly if one invitation of
\* theirs was accepted, however many they were sent.
AccountsAreInvited ==
  ~raced =>
    \A p \in People :
      LET accepted == {i \in Invites : inv[i].status = "ACCEPTED" /\ inv[i].who = p} IN
      Cardinality(accepted) = IF staff[p] = "NONE" THEN 0 ELSE 1

\* Nobody holds two links that work at the same time, unless one of them was
\* lapsed and sent again.
OneLiveInvitation ==
  ~raced /\ "resent" \notin unchecked =>
    \A i, j \in Outstanding : inv[i].who = inv[j].who => i = j

\* When requests do not overlap, an accepted or revoked invitation stays that.
AnswersAreFinal ==
  [][~raced' => \A i \in Invites :
       inv[i].status \in {"ACCEPTED", "REVOKED"} => inv'[i].status = inv[i].status]_vars

\* When requests do not overlap, a link that has not lapsed is never declared
\* expired by somebody who looks at it: a resent invitation can be accepted.
LiveLinksStayLive ==
  [][~raced' => \A i \in Invites : Live(inv[i]) => inv'[i].status # "EXPIRED"]_vars

\* Staff and students fit the plan, over every sequence of requests that ask the gate.
SeatsWithinPlan == StaffWithinSeats /\ StudentsWithinSeats

\* A person has one working link and one account, however often they are invited.
OneInvitationEach == AccountsAreInvited /\ OneLiveInvitation

\* An invitation keeps the answer it was given, and works until it lapses.
InvitationsKeepFaith == AnswersAreFinal /\ LiveLinksStayLive
=============================================================================
