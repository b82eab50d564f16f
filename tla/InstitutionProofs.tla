-------------------------- MODULE InstitutionProofs --------------------------
(* Theorems about Institution, for every value of its constants. *)
EXTENDS Institution, FiniteSetTheorems, TLAPS

Busy(w) == job[w].pc # "idle"

\* Until requests overlap there is one at a time.
Alone == ~raced => \A v, w \in Workers : Busy(v) /\ Busy(w) => v = w

RowsOK ==
  /\ \A i \in Invites : inv[i].status # "NONE" => inv[i].who \in People
  /\ \A s \in Students : students[s].status = "NONE" => ~students[s].member

Inviting == {"pending", "seats", "insert"}
Answering == {"accept", "lapse", "renew", "revoke"}
Placing == {"room", "place", "join", "enrol"}

\* A request knows whom it is about, and an invitation keeps its addressee.
JobOK(w) ==
  /\ job[w].pc \in Inviting => job[w].who \in People
  /\ job[w].pc \in Answering =>
       /\ job[w].inv \in Invites /\ job[w].who \in People
       /\ inv[job[w].inv].status # "NONE" /\ inv[job[w].inv].who = job[w].who
  /\ job[w].pc \in Placing => job[w].who \in Students
  /\ (job[w].pc \in {"room", "join"} \/ (job[w].pc \in {"place", "enrol"} /\ job[w].known))
       => students[job[w].who].status # "NONE"

JobsOK == \A w \in Workers : JobOK(w)

Free == StaffUsed < StaffSeats
Room == Cardinality(Roster) < StudentSeats

\* What a request has read still holds: about the invitation, ...
StillOpen(w) ==
  /\ job[w].pc \in Inviting => staff[job[w].who] = "NONE"
  /\ job[w].pc \in {"seats", "insert"} => ~InvitedAlready(job[w].who)
  /\ job[w].pc \in {"accept", "renew"} => inv[job[w].inv].status \in {"PENDING", "EXPIRED"}
  /\ job[w].pc = "renew" /\ "resent" \notin unchecked =>
       \A j \in Outstanding : inv[j].who = job[w].who => j = job[w].inv
  /\ job[w].pc = "lapse" => inv[job[w].inv].status = "PENDING" /\ ~inv[job[w].inv].fresh
  /\ job[w].pc = "revoke" => inv[job[w].inv].status = "PENDING"

\* ... and about the seat it is going to fill.
Seated(w) ==
  /\ "staff" \notin unchecked =>
       /\ job[w].pc = "insert" => Free
       /\ job[w].pc \in {"accept", "renew"} => Live(inv[job[w].inv]) \/ Free
  /\ "student" \notin unchecked /\ job[w].pc \in {"join", "enrol"} =>
       students[job[w].who].member \/ Room

UpToDate == ~raced => \A w \in Workers : StillOpen(w) /\ Seated(w)

Accepted(p) == {i \in Invites : inv[i].status = "ACCEPTED" /\ inv[i].who = p}

OneAccount ==
  ~raced => \A p \in People :
              IF staff[p] = "NONE" THEN Accepted(p) = {} ELSE \E i \in Invites : Accepted(p) = {i}

Kept ==
  /\ OneAccount /\ OneLiveInvitation /\ StaffWithinSeats /\ StudentsWithinSeats

IInv == TypeOK /\ RowsOK /\ JobsOK /\ Alone /\ UpToDate /\ Kept

LEMMA IInvImpliesSeats == IInv => SeatsWithinPlan
  BY DEF IInv, Kept, SeatsWithinPlan

LEMMA IInvImpliesOneEach == IInv => OneInvitationEach
<1> SUFFICES ASSUME IInv, ~raced, NEW p \in People
             PROVE  Cardinality(Accepted(p)) = IF staff[p] = "NONE" THEN 0 ELSE 1
  BY DEF OneInvitationEach, AccountsAreInvited, IInv, Kept, Accepted
<1>1. CASE staff[p] = "NONE"
  BY <1>1, FS_EmptySet DEF IInv, Kept, OneAccount
<1>2. CASE staff[p] # "NONE"
  <2>1. PICK i \in Invites : Accepted(p) = {i}
    BY <1>2 DEF IInv, Kept, OneAccount
  <2> QED
    BY <1>2, <2>1, FS_Singleton
<1> QED
  BY <1>1, <1>2

-----------------------------------------------------------------------------
(* Counting seats. *)

LEMMA Finite ==
  ASSUME TypeOK
  PROVE  /\ IsFiniteSet(Team) /\ IsFiniteSet(Outstanding) /\ IsFiniteSet(Roster)
         /\ Cardinality(Team) \in Nat /\ Cardinality(Outstanding) \in Nat
         /\ Cardinality(Roster) \in Nat
         /\ StaffUsed \in Nat
<1>1. Team \subseteq People /\ Outstanding \subseteq Invites /\ Roster \subseteq Students
  BY DEF Team, Outstanding, Roster
<1>2. IsFiniteSet(Team) /\ IsFiniteSet(Outstanding) /\ IsFiniteSet(Roster)
  BY <1>1, FS_Subset, InstitutionAssumption
<1>3. /\ Cardinality(Team) \in Nat /\ Cardinality(Outstanding) \in Nat
      /\ Cardinality(Roster) \in Nat
  BY <1>2, FS_CardinalityType
<1> QED
  BY <1>2, <1>3 DEF StaffUsed

LEMMA SeatNumbers == StaffSeats \in Nat /\ StudentSeats \in Nat /\ StaffSeats > 0
  BY InstitutionAssumption

\* Sets that gain at most one element.
LEMMA GrowsByOne ==
  ASSUME NEW S, NEW T, NEW x, IsFiniteSet(S), T \subseteq S \cup {x}
  PROVE  Cardinality(T) <= Cardinality(S) + 1
<1>3. Cardinality(S) \in Nat
  BY FS_CardinalityType
<1>1. IsFiniteSet(S \cup {x}) /\ Cardinality(S \cup {x}) <= Cardinality(S) + 1
  BY <1>3, FS_AddElement
<1>2. Cardinality(T) <= Cardinality(S \cup {x}) /\ IsFiniteSet(T)
  BY <1>1, FS_Subset
<1> QED
  BY <1>1, <1>2, FS_CardinalityType

LEMMA LosesOne ==
  ASSUME NEW S, NEW T, NEW x \in S, IsFiniteSet(S), T \subseteq S \ {x}
  PROVE  Cardinality(T) <= Cardinality(S) - 1
<1>1. IsFiniteSet(S \ {x}) /\ Cardinality(S \ {x}) = Cardinality(S) - 1
  BY FS_RemoveElement
<1>2. Cardinality(T) <= Cardinality(S \ {x}) /\ IsFiniteSet(T)
  BY <1>1, FS_Subset
<1> QED
  BY <1>1, <1>2, FS_CardinalityType

LEMMA UsedShrinks ==
  ASSUME TypeOK, TypeOK', Team' \subseteq Team, Outstanding' \subseteq Outstanding
  PROVE  StaffUsed' <= StaffUsed /\ StaffUsed' \in Nat
<1>1. Cardinality(Team') <= Cardinality(Team)
      /\ Cardinality(Outstanding') <= Cardinality(Outstanding)
  BY Finite, FS_Subset
<1>2. Cardinality(Team') \in Nat /\ Cardinality(Outstanding') \in Nat
  BY Finite, FS_Subset, FS_CardinalityType
<1> QED
  BY <1>1, <1>2, Finite DEF StaffUsed

LEMMA RosterShrinks ==
  ASSUME TypeOK, Roster' \subseteq Roster
  PROVE  Cardinality(Roster') <= Cardinality(Roster) /\ Cardinality(Roster') \in Nat
  BY Finite, FS_Subset, FS_CardinalityType
LEMMA SeatsUnchanged ==
  ASSUME UNCHANGED <<inv, staff, chief, students>>
  PROVE  /\ Team' = Team /\ Outstanding' = Outstanding /\ Roster' = Roster
         /\ StaffUsed' = StaffUsed /\ (Free' <=> Free) /\ (Room' <=> Room)
<1>1. Team' = Team /\ Outstanding' = Outstanding /\ Roster' = Roster
  BY DEF Team, Outstanding, Roster
<1>2. StaffUsed' = StaffUsed
  BY <1>1 DEF StaffUsed
<1> QED
  BY <1>1, <1>2 DEF Free, Room

-----------------------------------------------------------------------------
(* How a step keeps the invariant. *)

Persists ==
  /\ \A i \in Invites : inv[i].status # "NONE" =>
       inv'[i].status # "NONE" /\ inv'[i].who = inv[i].who
  /\ \A s \in Students : students[s].status # "NONE" => students'[s].status # "NONE"

LEMMA OthersOK ==
  ASSUME IInv, Persists, NEW v \in Workers, job'[v] = job[v]
  PROVE  JobOK(v)'
<1>1. JobOK(v)
  BY DEF IInv, JobsOK
<1>2. job[v].pc \in {"room", "join", "place", "enrol"} => job[v].who \in Students
  BY <1>1 DEF JobOK, Placing
<1> QED
  BY <1>1, <1>2 DEF JobOK, Persists

\* A step of one request.
LEMMA MovedIInv ==
  ASSUME IInv, TypeOK', RowsOK', Persists, NEW w \in Workers,
         \A v \in Workers \ {w} : job'[v] = job[v], JobOK(w)',
         raced => raced', ~Busy(w) /\ ~raced' => \A v \in Workers : ~Busy(v),
         ~raced' => StillOpen(w)' /\ Seated(w)', Kept'
  PROVE  IInv'
<1>1. JobsOK'
  <2>1. ASSUME NEW v \in Workers
        PROVE  JobOK(v)'
    BY OthersOK
  <2> QED
    BY <2>1 DEF JobsOK
<1>2. ASSUME ~raced'
      PROVE  \A v \in Workers \ {w} : job'[v].pc = "idle"
  BY <1>2 DEF IInv, Alone, Busy
<1>3. Alone'
  BY <1>2 DEF Alone, Busy
<1>4. UpToDate'
  <2>1. ASSUME ~raced', NEW v \in Workers \ {w}
        PROVE  StillOpen(v)' /\ Seated(v)'
    <3>1. job'[v].pc = "idle"
      BY <1>2, <2>1
    <3> QED
      BY <3>1 DEF StillOpen, Seated, Inviting
  <2> QED
    BY <2>1 DEF UpToDate
<1> QED
  BY <1>1, <1>3, <1>4 DEF IInv

\* A request that is answered at once: when nothing overlaps, nothing else runs.
LEMMA AtOnceIInv ==
  ASSUME IInv, TypeOK', RowsOK', Persists, job' = job,
         raced => raced', ~raced' => \A v \in Workers : ~Busy(v), Kept'
  PROVE  IInv'
<1>1. JobsOK'
  <2>1. ASSUME NEW v \in Workers
        PROVE  JobOK(v)'
    BY OthersOK
  <2> QED
    BY <2>1 DEF JobsOK
<1>2. UpToDate' /\ Alone'
  BY DEF UpToDate, StillOpen, Seated, Inviting, Alone, Busy
<1> QED
  BY <1>1, <1>2 DEF IInv

LEMMA OverlapFacts ==
  ASSUME Overlap, TypeOK
  PROVE  /\ raced => raced'
         /\ ~raced' => \A v \in Workers : ~Busy(v)
         /\ raced' \in BOOLEAN
<1>1. raced' = (raced \/ \E v \in Workers : Busy(v))
  BY DEF Overlap, Busy, At
<1>2. raced => raced'
  BY <1>1, Zenon
<1>3. ~raced' => \A v \in Workers : ~Busy(v)
  BY <1>1, Zenon
<1> QED
  BY <1>1, <1>2, <1>3

\* Where no row changes, what is kept is kept, whatever is noted.
LEMMA KeptUnchanged ==
  ASSUME IInv, UNCHANGED <<inv, staff, chief, students>>, raced => raced',
         unchecked \subseteq unchecked'
  PROVE  Kept'
<1>1. StaffUsed' = StaffUsed /\ Roster' = Roster /\ Outstanding' = Outstanding
  BY SeatsUnchanged
<1>2. OneAccount' /\ OneLiveInvitation'
  BY <1>1 DEF IInv, Kept, OneAccount, Accepted, OneLiveInvitation
<1>3. StaffWithinSeats' /\ StudentsWithinSeats'
  BY <1>1 DEF IInv, Kept, StaffWithinSeats, StudentsWithinSeats
<1> QED
  BY <1>2, <1>3 DEF Kept

LEMMA SameRows ==
  ASSUME IInv, UNCHANGED <<inv, students>>
  PROVE  RowsOK' /\ Persists
  BY DEF IInv, RowsOK, Persists

LEMMA SpendOK ==
  ASSUME budget \in [Kinds -> Nat], NEW k \in Kinds, Spend(k)
  PROVE  budget' \in [Kinds -> Nat]
  BY DEF Spend

LEMMA KindNames == "staff" \in Kinds /\ "student" \in Kinds /\ "death" \in Kinds
  BY DEF Kinds

Marks == {"staff", "student", "resent"}

LEMMA NoteOK ==
  ASSUME TypeOK, NEW kinds \in SUBSET Marks, NEW cond, Note(kinds, cond)
  PROVE  /\ unchecked \subseteq unchecked' /\ unchecked' \subseteq Marks
         /\ cond => kinds \subseteq unchecked'
  BY DEF Note, Marks, TypeOK

\* A request starts.
LEMMA BeginIInv ==
  ASSUME IInv, NEW w \in Workers, NEW j \in Job, Begin(w, j),
         UNCHANGED <<inv, staff, chief, sub, students>>,
         unchecked \subseteq unchecked', unchecked' \subseteq Marks, budget' \in [Kinds -> Nat],
         job'[w] = j => JobOK(w)',
         job'[w] = j /\ ~raced' => StillOpen(w)' /\ Seated(w)'
  PROVE  IInv'
<1>1. job' = [job EXCEPT ![w] = j] /\ ~Busy(w) /\ Overlap
  BY DEF Begin, At, Busy
<1>2. job' \in [Workers -> Job] /\ job'[w] = j /\ \A v \in Workers \ {w} : job'[v] = job[v]
  BY <1>1 DEF IInv, TypeOK
<1>3. /\ raced => raced'
      /\ ~raced' => \A v \in Workers : ~Busy(v)
      /\ raced' \in BOOLEAN
  BY <1>1, OverlapFacts DEF IInv
<1>4. TypeOK'
  BY <1>2, <1>3 DEF IInv, TypeOK, Marks
<1>5. Kept' /\ RowsOK' /\ Persists
  BY <1>3, KeptUnchanged, SameRows
<1> QED
  BY <1>2, <1>3, <1>4, <1>5, MovedIInv

\* A request ends without having changed a row.
LEMMA EndIInv ==
  ASSUME IInv, NEW w \in Workers, End(w), Busy(w),
         UNCHANGED <<inv, staff, chief, sub, students, raced>>,
         unchecked \subseteq unchecked', unchecked' \subseteq Marks, budget' \in [Kinds -> Nat]
  PROVE  IInv'
<1>1. Idle \in Job /\ Idle.pc = "idle"
  BY DEF Idle, Request, Job, Pcs, Roles
<1>2. job' \in [Workers -> Job] /\ job'[w].pc = "idle" /\ \A v \in Workers \ {w} : job'[v] = job[v]
  BY <1>1 DEF End, IInv, TypeOK
<1>3. TypeOK'
  BY <1>2 DEF IInv, TypeOK, Marks
<1>4. raced => raced'
  BY Zenon
<1>5. Kept' /\ RowsOK' /\ Persists
  BY <1>4, KeptUnchanged, SameRows
<1>6. JobOK(w)' /\ StillOpen(w)' /\ Seated(w)'
  BY <1>2 DEF JobOK, StillOpen, Seated, Inviting, Answering, Placing
<1> QED
  BY <1>2, <1>3, <1>4, <1>5, <1>6, MovedIInv

\* A request goes on to its next statement without having changed a row.
LEMMA GotoIInv ==
  ASSUME IInv, NEW w \in Workers, NEW p \in Pcs, Goto(w, p), Busy(w),
         UNCHANGED <<inv, staff, chief, sub, students, raced, budget>>,
         unchecked \subseteq unchecked', unchecked' \subseteq Marks,
         job'[w] = [job[w] EXCEPT !.pc = p] => JobOK(w)',
         job'[w] = [job[w] EXCEPT !.pc = p] /\ ~raced => StillOpen(w)' /\ Seated(w)'
  PROVE  IInv'
<1>1. job' = [job EXCEPT ![w].pc = p] /\ job \in [Workers -> Job]
  BY DEF Goto, IInv, TypeOK
<1>2. job'[w] = [job[w] EXCEPT !.pc = p] /\ \A v \in Workers \ {w} : job'[v] = job[v]
  BY <1>1
<1>3. job'[w] \in Job
  BY <1>1, <1>2 DEF Job
<1>4. job' \in [Workers -> Job]
  BY <1>1, <1>3
<1>5. TypeOK'
  BY <1>4 DEF IInv, TypeOK, Marks
<1>6. (raced => raced') /\ (~raced' => ~raced)
  BY Zenon
<1>7. Kept' /\ RowsOK' /\ Persists
  BY <1>6, KeptUnchanged, SameRows
<1> QED
  BY <1>2, <1>5, <1>6, <1>7, MovedIInv
-----------------------------------------------------------------------------
(* Requests that start. *)

LEMMA Names ==
  /\ \A p \in Inviting \cup Answering \cup Placing : p \in Pcs
  /\ "HEAD" \in Roles /\ "STAFF" \in Roles
  BY DEF Inviting, Answering, Placing, Pcs, Roles

LEMMA Budgeted ==
  ASSUME TypeOK, Spend("staff") \/ Spend("student") \/ Spend("death")
  PROVE  budget' \in [Kinds -> Nat]
  BY SpendOK, KindNames DEF TypeOK

LEMMA InviteIInv ==
  ASSUME IInv, NEW w \in Workers, NEW p \in People, NEW r \in Roles, Invite(w, p, r)
  PROVE  IInv'
<1> DEFINE j == Request("pending", None, p, r)
<1>1. j \in Job /\ j.pc = "pending" /\ j.who = p
  <2>1. "pending" \in Pcs /\ None \in Invites \cup {None} /\ p \in People \cup Students \cup {None}
    BY DEF Pcs
  <2> QED
    BY <2>1 DEF Request, Job
<1> HIDE DEF j
<1>2. Begin(w, j) /\ staff[p] = "NONE" /\ budget' \in [Kinds -> Nat]
      /\ UNCHANGED <<inv, staff, chief, sub, students, unchecked>>
  BY Budgeted DEF Invite, j, IInv
<1>3. ASSUME job'[w] = j
      PROVE  JobOK(w)' /\ StillOpen(w)' /\ Seated(w)'
  BY <1>1, <1>2, <1>3 DEF JobOK, StillOpen, Seated, Inviting, Answering, Placing
<1>4. unchecked' \subseteq Marks
  BY <1>2 DEF IInv, TypeOK, Marks
<1> QED
  BY <1>1, <1>2, <1>3, <1>4, BeginIInv

\* The requests about an invitation.
LEMMA AboutInvitation ==
  ASSUME IInv, NEW w \in Workers, NEW i \in Invites, NEW p \in Answering,
         Begin(w, Request(p, i, inv[i].who, inv[i].role)),
         inv[i].status \in {"PENDING", "EXPIRED"},
         p \in {"lapse", "revoke"} => inv[i].status = "PENDING",
         p = "lapse" => ~inv[i].fresh,
         p \in {"accept", "renew"} /\ "staff" \notin unchecked' => Live(inv[i]),
         p = "renew" /\ "resent" \notin unchecked' => Live(inv[i]),
         UNCHANGED <<inv, staff, chief, sub, students>>,
         unchecked \subseteq unchecked', unchecked' \subseteq Marks, budget' \in [Kinds -> Nat]
  PROVE  IInv'
<1> DEFINE j == Request(p, i, inv[i].who, inv[i].role)
<1>1. inv[i].who \in People /\ inv[i].role \in Roles /\ inv[i].status # "NONE"
  BY DEF IInv, RowsOK, TypeOK, Invitation
<1>2. j \in Job /\ j.pc = p /\ j.inv = i /\ j.who = inv[i].who
  <2>1. p \in Pcs /\ i \in Invites \cup {None} /\ inv[i].who \in People \cup Students \cup {None}
    BY <1>1, Names
  <2> QED
    BY <1>1, <2>1 DEF Request, Job
<1> HIDE DEF j
<1>3. Begin(w, j)
  BY DEF j
<1>4. p \notin Inviting /\ p \notin Placing
  BY DEF Inviting, Answering, Placing
<1>5. Outstanding' = Outstanding
  BY SeatsUnchanged
<1>6. ASSUME job'[w] = j
      PROVE  JobOK(w)'
  BY <1>1, <1>2, <1>4, <1>6 DEF JobOK, Placing
<1>7. ~raced' => ~raced
  <2>1. raced => raced'
    BY <1>3, OverlapFacts DEF Begin, IInv
  <2> QED
    BY <2>1
<1>8. ASSUME job'[w] = j, ~raced'
      PROVE  StillOpen(w)'
  <2>1. ASSUME p = "renew", "resent" \notin unchecked', NEW k \in Outstanding,
               inv[k].who = inv[i].who
        PROVE  k = i
    <3>1. "resent" \notin unchecked /\ i \in Outstanding
      BY <2>1 DEF Outstanding
    <3> QED
      BY <1>7, <1>8, <2>1, <3>1 DEF IInv, Kept, OneLiveInvitation
  <2> QED
    BY <1>2, <1>4, <1>5, <1>8, <2>1 DEF StillOpen, Inviting
<1>9. ASSUME job'[w] = j
      PROVE  Seated(w)'
  BY <1>2, <1>4, <1>9 DEF Seated, Live, Inviting, Placing
<1> QED
  BY <1>2, <1>3, <1>6, <1>8, <1>9, BeginIInv

LEMMA InvitationRequestIInv ==
  ASSUME IInv, NEW w \in Workers, NEW i \in Invites,
         OpenLink(w, i) \/ AdminAccept(w, i) \/ Resend(w, i) \/ AskRevoke(w, i)
  PROVE  IInv'
<1>1. budget' \in [Kinds -> Nat] /\ UNCHANGED <<inv, staff, chief, sub, students>>
  BY Budgeted DEF OpenLink, AdminAccept, Resend, AskRevoke, IInv
<1>2. unchecked \subseteq Marks
  BY DEF IInv, TypeOK, Marks
<1>3. "lapse" \in Answering /\ "accept" \in Answering /\ "renew" \in Answering
      /\ "revoke" \in Answering
  BY DEF Answering
<1>4. CASE OpenLink(w, i)
  <2> DEFINE p == IF Lapsed(inv[i]) THEN "lapse" ELSE "accept"
  <2>1. Begin(w, Request(p, i, inv[i].who, inv[i].role)) /\ inv[i].status = "PENDING"
        /\ unchecked' = unchecked
    BY <1>4 DEF OpenLink
  <2>2. p \in {"lapse", "accept"} /\ (p = "lapse" => ~inv[i].fresh)
        /\ (p = "accept" => Live(inv[i]))
    BY <2>1 DEF Lapsed, Live
  <2> HIDE DEF p
  <2> QED
    BY <1>1, <1>2, <1>3, <2>1, <2>2, AboutInvitation
<1>5. CASE AdminAccept(w, i)
  <2>1. inv[i].status \in {"PENDING", "EXPIRED"} /\ Note({"staff"}, ~Live(inv[i]))
        /\ Begin(w, Request("accept", i, inv[i].who, inv[i].role))
    BY <1>5 DEF AdminAccept, Reopenable
  <2>2. unchecked \subseteq unchecked' /\ unchecked' \subseteq Marks
        /\ ("staff" \notin unchecked' => Live(inv[i]))
    BY <2>1, NoteOK DEF IInv, Marks
  <2> QED
    BY <1>1, <1>3, <2>1, <2>2, AboutInvitation
<1>6. CASE Resend(w, i)
  <2>1. inv[i].status \in {"PENDING", "EXPIRED"} /\ Note({"staff", "resent"}, ~Live(inv[i]))
        /\ Begin(w, Request("renew", i, inv[i].who, inv[i].role))
    BY <1>6 DEF Resend, Reopenable
  <2>2. unchecked \subseteq unchecked' /\ unchecked' \subseteq Marks
        /\ ("staff" \notin unchecked' \/ "resent" \notin unchecked' => Live(inv[i]))
    BY <2>1, NoteOK DEF IInv, Marks
  <2> QED
    BY <1>1, <1>3, <2>1, <2>2, AboutInvitation
<1>7. CASE AskRevoke(w, i)
  <2>1. inv[i].status = "PENDING" /\ unchecked' = unchecked
        /\ Begin(w, Request("revoke", i, inv[i].who, inv[i].role))
    BY <1>7 DEF AskRevoke
  <2> QED
    BY <1>1, <1>2, <1>3, <2>1, AboutInvitation
<1> QED
  BY <1>4, <1>5, <1>6, <1>7

LEMMA StudentRequestIInv ==
  ASSUME IInv, NEW w \in Workers, NEW s \in Students, Join(w, s) \/ Enroll(w, s)
  PROVE  IInv'
<1>1. /\ budget' \in [Kinds -> Nat] /\ unchecked' \subseteq Marks
      /\ UNCHANGED <<inv, staff, chief, sub, students, unchecked>>
  BY Budgeted DEF Join, Enroll, IInv, TypeOK, Marks
<1>4. /\ "room" \in Pcs /\ "place" \in Pcs /\ "enrol" \in Pcs /\ "STAFF" \in Roles
      /\ None \in Invites \cup {None} /\ s \in People \cup Students \cup {None}
  BY DEF Pcs, Roles
<1>2. CASE Join(w, s)
  <2> DEFINE j == Request("room", None, s, "STAFF")
  <2>1. j \in Job /\ j.pc = "room" /\ j.who = s
    BY <1>4 DEF Request, Job
  <2> HIDE DEF j
  <2>2. Begin(w, j) /\ students[s].status # "NONE"
    BY <1>2 DEF Join, j
  <2>3. ASSUME job'[w] = j
        PROVE  JobOK(w)' /\ StillOpen(w)' /\ Seated(w)'
    BY <1>1, <2>1, <2>2, <2>3 DEF JobOK, StillOpen, Seated, Inviting, Answering, Placing
  <2> QED
    BY <1>1, <2>1, <2>2, <2>3, BeginIInv
<1>3. CASE Enroll(w, s)
  <2> DEFINE p == IF ConsumesNewSeat(s) THEN "place" ELSE "enrol"
             k == students[s].status # "NONE"
             i == Request(p, None, s, "STAFF")
             j == [i EXCEPT !.known = k]
  <2>1. p \in {"place", "enrol"} /\ (p = "enrol" => students[s].member)
    BY DEF ConsumesNewSeat
  <2>2. i \in Job /\ i.pc = p /\ i.who = s
    BY <1>4, <2>1 DEF Request, Job
  <2>3. Begin(w, j)
    BY <1>3 DEF Enroll
  <2> HIDE DEF p, i
  <2>4. j \in Job /\ j.pc = p /\ j.who = s /\ (j.known => students[s].status # "NONE")
    BY <2>2 DEF Job
  <2> HIDE DEF j
  <2>5. ASSUME job'[w] = j
        PROVE  JobOK(w)'
    BY <1>1, <2>1, <2>4, <2>5 DEF JobOK, Inviting, Answering, Placing
  <2>6. ASSUME job'[w] = j
        PROVE  StillOpen(w)' /\ Seated(w)'
    BY <1>1, <2>1, <2>4, <2>6 DEF StillOpen, Seated, Inviting
  <2> QED
    BY <1>1, <2>3, <2>4, <2>5, <2>6, BeginIInv
<1> QED
  BY <1>2, <1>3

LEMMA AbortIInv == ASSUME IInv, NEW w \in Workers, Abort(w) PROVE IInv'
<1>1. End(w) /\ Busy(w) /\ UNCHANGED <<inv, staff, chief, sub, students, raced, unchecked>>
      /\ unchecked' \subseteq Marks /\ budget' \in [Kinds -> Nat]
  BY Budgeted DEF Abort, Busy, At, IInv, TypeOK, Marks
<1> QED
  BY <1>1, EndIInv

-----------------------------------------------------------------------------
(* Statements that read. *)

LEMMA CheckPendingIInv == ASSUME IInv, NEW w \in Workers, CheckPending(w) PROVE IInv'
<1>1. /\ job[w].pc = "pending" /\ Busy(w) /\ unchecked' \subseteq Marks /\ JobOK(w)
      /\ UNCHANGED <<inv, staff, chief, sub, students, raced, unchecked, budget>>
      /\ budget' \in [Kinds -> Nat] /\ job[w] \in Job
  BY DEF CheckPending, At, Busy, ghosts, IInv, TypeOK, Marks, JobsOK
<1>2. CASE End(w)
  BY <1>1, <1>2, EndIInv
<1>3. CASE ~InvitedAlready(job[w].who) /\ Goto(w, "seats")
  <2>1. ASSUME job'[w] = [job[w] EXCEPT !.pc = "seats"]
        PROVE  /\ job'[w].pc = "seats" /\ job'[w].who = job[w].who
    BY <1>1, <2>1 DEF Job
  <2>2. ASSUME job'[w] = [job[w] EXCEPT !.pc = "seats"]
        PROVE  JobOK(w)'
    BY <1>1, <2>1, <2>2 DEF JobOK, Inviting, Answering, Placing
  <2>3. InvitedAlready(job[w].who) <=> \E i \in Outstanding : inv[i].who = job[w].who
    BY DEF InvitedAlready
  <2>4. Outstanding' = Outstanding
    BY <1>1, SeatsUnchanged
  <2>5. ASSUME job'[w] = [job[w] EXCEPT !.pc = "seats"], ~raced
        PROVE  StillOpen(w)' /\ Seated(w)'
    <3>1. StillOpen(w)
      BY <2>5 DEF IInv, UpToDate
    <3> QED
      BY <1>1, <1>3, <2>1, <2>3, <2>4, <2>5, <3>1
         DEF StillOpen, Seated, Inviting, InvitedAlready
  <2> QED
    BY <1>1, <1>3, <2>2, <2>5, GotoIInv, Names DEF Inviting
<1> QED
  BY <1>2, <1>3 DEF CheckPending

LEMMA CheckSeatsIInv == ASSUME IInv, NEW w \in Workers, CheckSeats(w) PROVE IInv'
<1>1. /\ job[w].pc = "seats" /\ Busy(w) /\ JobOK(w) /\ job[w] \in Job
      /\ UNCHANGED <<inv, staff, chief, sub, students, raced, budget>>
      /\ budget' \in [Kinds -> Nat] /\ Note({"staff"}, FirstInvite /\ StaffUsed > 0)
  BY DEF CheckSeats, At, Busy, IInv, TypeOK, JobsOK
<1>2. /\ unchecked \subseteq unchecked' /\ unchecked' \subseteq Marks
      /\ "staff" \notin unchecked' => ~(FirstInvite /\ StaffUsed > 0)
  BY <1>1, NoteOK DEF IInv, Marks
<1>3. CASE End(w)
  BY <1>1, <1>2, <1>3, EndIInv
<1>4. CASE StaffGate(job[w].role) /\ Goto(w, "insert")
  <2>1. "staff" \notin unchecked' => Free
    BY <1>2, <1>4, Finite, SeatNumbers DEF StaffGate, Free, IInv
  <2>2. ASSUME job'[w] = [job[w] EXCEPT !.pc = "insert"]
        PROVE  job'[w].pc = "insert" /\ job'[w].who = job[w].who
    BY <1>1, <2>2 DEF Job
  <2>3. ASSUME job'[w] = [job[w] EXCEPT !.pc = "insert"]
        PROVE  JobOK(w)'
    BY <1>1, <2>2, <2>3 DEF JobOK, Inviting, Answering, Placing
  <2>4. Outstanding' = Outstanding /\ (Free' <=> Free)
    BY <1>1, SeatsUnchanged
  <2>5. ASSUME job'[w] = [job[w] EXCEPT !.pc = "insert"], ~raced
        PROVE  StillOpen(w)' /\ Seated(w)'
    <3>1. StillOpen(w)
      BY <2>5 DEF IInv, UpToDate
    <3> QED
      BY <1>1, <2>1, <2>2, <2>4, <2>5, <3>1
         DEF StillOpen, Seated, Inviting, InvitedAlready
  <2> QED
    BY <1>1, <1>2, <1>4, <2>3, <2>5, GotoIInv, Names DEF Inviting
<1> QED
  BY <1>3, <1>4 DEF CheckSeats

LEMMA CheckRoomIInv == ASSUME IInv, NEW w \in Workers, CheckRoom(w) PROVE IInv'
<1>1. /\ job[w].pc \in {"room", "place"} /\ Busy(w) /\ JobOK(w) /\ job[w] \in Job
      /\ UNCHANGED <<inv, staff, chief, sub, students, raced, unchecked, budget>>
      /\ budget' \in [Kinds -> Nat] /\ unchecked' \subseteq Marks
  BY DEF CheckRoom, At, Busy, ghosts, IInv, TypeOK, JobsOK, Marks
<1>2. CASE End(w)
  BY <1>1, <1>2, EndIInv
<1>3. CASE Room /\ Goto(w, IF At(w, "room") THEN "join" ELSE "enrol")
  <2> DEFINE p == IF At(w, "room") THEN "join" ELSE "enrol"
  <2>1. p \in {"join", "enrol"} /\ (p = "join" => job[w].pc = "room")
        /\ (p = "enrol" => job[w].pc = "place") /\ p \in Placing
    BY <1>1 DEF At, Placing
  <2>2. p \in Pcs /\ Goto(w, p)
    BY <1>3, <2>1, Names
  <2> HIDE DEF p
  <2>3. ASSUME job'[w] = [job[w] EXCEPT !.pc = p]
        PROVE  job'[w].pc = p /\ job'[w].who = job[w].who /\ job'[w].known = job[w].known
    BY <1>1, <2>3 DEF Job
  <2>4. ASSUME job'[w] = [job[w] EXCEPT !.pc = p]
        PROVE  JobOK(w)'
    BY <1>1, <2>1, <2>3, <2>4 DEF JobOK, Inviting, Answering, Placing
  <2>5. Room'
    BY <1>1, <1>3, SeatsUnchanged
  <2>6. ASSUME job'[w] = [job[w] EXCEPT !.pc = p]
        PROVE  StillOpen(w)' /\ Seated(w)'
    BY <1>1, <2>1, <2>3, <2>5, <2>6 DEF StillOpen, Seated, Inviting
  <2> QED
    BY <1>1, <2>2, <2>4, <2>6, GotoIInv
<1> QED
  BY <1>2, <1>3 DEF CheckRoom, Room
-----------------------------------------------------------------------------
(* Statements that write, and end their request. *)

LEMMA WriteIInv ==
  ASSUME IInv, NEW w \in Workers, End(w), Busy(w), UNCHANGED ghosts,
         inv' \in [Invites -> Invitation], staff' \in [People -> {"NONE", "ACTIVE", "DISABLED"}],
         chief' \in People \cup {None}, sub' \in {"NONE", "USABLE", "UNUSABLE"},
         students' \in [Students -> Account],
         RowsOK', Persists, ~raced => Kept'
  PROVE  IInv'
<1>1. Idle \in Job /\ Idle.pc = "idle"
  BY DEF Idle, Request, Job, Pcs, Roles
<1>2. job' \in [Workers -> Job] /\ job'[w].pc = "idle" /\ \A v \in Workers \ {w} : job'[v] = job[v]
  BY <1>1 DEF End, IInv, TypeOK
<1>3. TypeOK'
  BY <1>2 DEF IInv, TypeOK, ghosts
<1>4. (raced => raced') /\ (~raced' => ~raced)
  BY Zenon DEF ghosts
<1>5. JobOK(w)' /\ StillOpen(w)' /\ Seated(w)'
  BY <1>2 DEF JobOK, StillOpen, Seated, Inviting, Answering, Placing
<1>6. Kept'
  <2>1. CASE ~raced
    BY <2>1
  <2>2. CASE raced
    BY <1>4, <2>2 DEF Kept, OneAccount, OneLiveInvitation, StaffWithinSeats, StudentsWithinSeats
  <2> QED
    BY <2>1, <2>2
<1> QED
  BY <1>2, <1>3, <1>4, <1>5, <1>6, MovedIInv

\* An invitation that is marked or revoked frees its seat.
LEMMA CloseKept ==
  ASSUME IInv, ~raced, NEW i \in Invites, NEW st \in {"EXPIRED", "REVOKED"},
         inv[i].status = "PENDING", inv' = [inv EXCEPT ![i].status = st],
         UNCHANGED <<staff, chief, sub, students, ghosts>>
  PROVE  Kept'
<1>1. inv \in [Invites -> Invitation] /\ raced' = raced /\ unchecked' = unchecked
  BY DEF IInv, TypeOK, ghosts
<1>2. /\ inv'[i] = [inv[i] EXCEPT !.status = st] /\ inv'[i].status = st /\ inv'[i].who = inv[i].who
      /\ \A k \in Invites \ {i} : inv'[k] = inv[k]
  BY <1>1 DEF Invitation
<1>3. \A p \in People : Accepted(p)' = Accepted(p)
  BY <1>2 DEF Accepted
<1>4. OneAccount'
  BY <1>3 DEF IInv, Kept, OneAccount
<1>5. Outstanding' \subseteq Outstanding /\ Team' \subseteq Team /\ Roster' = Roster
  BY <1>2 DEF Outstanding, Team, Live, Roster
<1>6. \A k \in Invites : inv'[k].who = inv[k].who
  BY <1>2
<1>7. OneLiveInvitation'
  BY <1>1, <1>5, <1>6 DEF IInv, Kept, OneLiveInvitation, Outstanding
<1>8. Cardinality(Outstanding') <= Cardinality(Outstanding)
      /\ Cardinality(Team') <= Cardinality(Team)
      /\ Cardinality(Outstanding') \in Nat /\ Cardinality(Team') \in Nat
  BY <1>5, Finite, FS_Subset, FS_CardinalityType DEF IInv
<1>9. StaffWithinSeats'
  BY <1>1, <1>8, Finite, SeatNumbers DEF IInv, Kept, StaffWithinSeats, StaffUsed
<1>10. StudentsWithinSeats'
  BY <1>1, <1>5 DEF IInv, Kept, StudentsWithinSeats
<1> QED
  BY <1>4, <1>7, <1>9, <1>10 DEF Kept

LEMMA CloseIInv ==
  ASSUME IInv, NEW w \in Workers, MarkExpired(w) \/ Revoke(w)
  PROVE  IInv'
<1> DEFINE i == job[w].inv
           st == IF At(w, "lapse") THEN "EXPIRED" ELSE "REVOKED"
<1>1. /\ job[w].pc \in {"lapse", "revoke"} /\ Busy(w) /\ End(w)
      /\ UNCHANGED <<staff, chief, sub, students, ghosts>>
      /\ inv' = [inv EXCEPT ![i].status = st]
  BY DEF MarkExpired, Revoke, At, Busy
<1>2. i \in Invites /\ inv[i].status # "NONE" /\ inv[i].who \in People
  BY <1>1 DEF IInv, JobsOK, JobOK, Answering
<1>3. st \in {"EXPIRED", "REVOKED"} /\ st \in InviteStatuses
  BY DEF InviteStatuses
<1>4. ~raced => inv[i].status = "PENDING"
  BY <1>1 DEF IInv, UpToDate, StillOpen
<1> HIDE DEF i, st
<1>5. inv \in [Invites -> Invitation] /\ inv[i] \in Invitation
  BY <1>2 DEF IInv, TypeOK
<1>6. /\ inv'[i] = [inv[i] EXCEPT !.status = st] /\ inv'[i] \in Invitation
      /\ inv'[i].status = st /\ inv'[i].who = inv[i].who
      /\ \A k \in Invites \ {i} : inv'[k] = inv[k]
  BY <1>1, <1>2, <1>3, <1>5 DEF Invitation
<1>7. inv' \in [Invites -> Invitation]
  BY <1>1, <1>5, <1>6
<1>8. RowsOK' /\ Persists
  BY <1>1, <1>2, <1>3, <1>6 DEF IInv, RowsOK, Persists
<1>9. ~raced => Kept'
  BY <1>1, <1>2, <1>3, <1>4, CloseKept
<1> QED
  BY <1>1, <1>7, <1>8, <1>9, WriteIInv DEF IInv, TypeOK

LEMMA RenewIInv == ASSUME IInv, NEW w \in Workers, Renew(w) PROVE IInv'
<1> DEFINE i == job[w].inv
<1>1. /\ job[w].pc = "renew" /\ Busy(w) /\ End(w)
      /\ UNCHANGED <<staff, chief, sub, students, ghosts>>
      /\ inv' = [inv EXCEPT ![i].status = "PENDING", ![i].fresh = TRUE]
  BY DEF Renew, At, Busy
<1>2. i \in Invites /\ inv[i].status # "NONE" /\ inv[i].who \in People /\ inv[i].who = job[w].who
  BY <1>1 DEF IInv, JobsOK, JobOK, Answering
<1>3. ~raced => /\ inv[i].status \in {"PENDING", "EXPIRED"}
                /\ "resent" \notin unchecked => \A j \in Outstanding : inv[j].who = inv[i].who => j = i
                /\ "staff" \notin unchecked => Live(inv[i]) \/ Free
  BY <1>1, <1>2 DEF IInv, UpToDate, StillOpen, Seated
<1> HIDE DEF i
<1>4. inv \in [Invites -> Invitation] /\ inv[i] \in Invitation
  BY <1>2 DEF IInv, TypeOK
<1>5. /\ inv'[i] \in Invitation /\ inv'[i].status = "PENDING" /\ inv'[i].who = inv[i].who
      /\ \A k \in Invites \ {i} : inv'[k] = inv[k]
  BY <1>1, <1>2, <1>4 DEF Invitation, InviteStatuses
<1>6. inv' \in [Invites -> Invitation]
  BY <1>1, <1>4, <1>5
<1>7. RowsOK' /\ Persists
  BY <1>1, <1>2, <1>5 DEF IInv, RowsOK, Persists
<1>8. ASSUME ~raced
      PROVE  Kept'
  <2>1. raced' = raced /\ unchecked' = unchecked
    BY <1>1 DEF ghosts
  <2>2. \A p \in People : Accepted(p)' = Accepted(p)
    BY <1>3, <1>5, <1>8 DEF Accepted
  <2>3. OneAccount'
    BY <1>1, <2>1, <2>2 DEF IInv, Kept, OneAccount
  <2>4. Outstanding' \subseteq Outstanding \cup {i} /\ Team' = Team /\ Roster' = Roster
    BY <1>1, <1>5 DEF Outstanding, Team, Roster
  <2>5. \A k \in Invites : inv'[k].who = inv[k].who
    BY <1>5
  <2>6. OneLiveInvitation'
    <3>1. SUFFICES ASSUME "resent" \notin unchecked, NEW a \in Outstanding', NEW b \in Outstanding',
                          inv'[a].who = inv'[b].who
                   PROVE  a = b
      BY <2>1 DEF OneLiveInvitation
    <3>2. a \in Invites /\ b \in Invites /\ inv[a].who = inv[b].who
      BY <2>5, <3>1 DEF Outstanding
    <3>3. a \in Outstanding \/ a = i
      BY <2>4
    <3>4. b \in Outstanding \/ b = i
      BY <2>4
    <3> QED
      BY <1>3, <1>8, <3>1, <3>2, <3>3, <3>4 DEF IInv, Kept, OneLiveInvitation
  <2>7. StaffWithinSeats'
    <3>1. SUFFICES ASSUME "staff" \notin unchecked
                   PROVE  StaffUsed' <= StaffSeats
      BY <2>1 DEF StaffWithinSeats
    <3>2. StaffUsed <= StaffSeats
      BY <1>8, <3>1 DEF IInv, Kept, StaffWithinSeats
    <3>3. CASE Live(inv[i])
      <4>1. Outstanding' \subseteq Outstanding
        BY <1>2, <2>4, <3>3 DEF Outstanding
      <4>2. Cardinality(Outstanding') <= Cardinality(Outstanding)
            /\ Cardinality(Outstanding') \in Nat
        BY <4>1, Finite, FS_Subset, FS_CardinalityType DEF IInv
      <4> QED
        BY <2>4, <3>2, <4>2, Finite, SeatNumbers DEF IInv, StaffUsed
    <3>4. CASE Free
      <4>1. Cardinality(Outstanding') <= Cardinality(Outstanding) + 1
        BY <2>4, Finite, GrowsByOne DEF IInv
      <4>2. Outstanding' \subseteq Invites
        BY DEF Outstanding
      <4>3. Cardinality(Outstanding') \in Nat
        BY <4>2, InstitutionAssumption, FS_Subset, FS_CardinalityType
      <4> QED
        BY <2>4, <3>4, <4>1, <4>3, Finite, SeatNumbers DEF IInv, StaffUsed, Free
    <3> QED
      BY <1>3, <1>8, <3>1, <3>3, <3>4
  <2>8. StudentsWithinSeats'
    BY <2>1, <2>4 DEF IInv, Kept, StudentsWithinSeats
  <2> QED
    BY <2>3, <2>6, <2>7, <2>8 DEF Kept
<1> QED
  BY <1>1, <1>6, <1>7, <1>8, WriteIInv DEF IInv, TypeOK

\* The row of an invitation that is written, and the rows that are not.
LEMMA OneRow ==
  ASSUME TypeOK, NEW i \in Invites, NEW x \in Invitation, inv' = [inv EXCEPT ![i] = x]
  PROVE  /\ inv' \in [Invites -> Invitation] /\ inv'[i] = x
         /\ \A k \in Invites \ {i} : inv'[k] = inv[k]
  BY DEF TypeOK

LEMMA InsertKept ==
  ASSUME IInv, ~raced, UNCHANGED <<staff, chief, sub, students, ghosts>>,
         NEW i \in Invites, NEW p \in People,
         inv[i].status = "NONE", inv'[i].status = "PENDING", inv'[i].who = p,
         \A k \in Invites \ {i} : inv'[k] = inv[k],
         ~InvitedAlready(p), "staff" \notin unchecked => Free
  PROVE  Kept'
<1>1. raced' = raced /\ unchecked' = unchecked
  BY DEF ghosts
<1>2. \A q \in People : Accepted(q)' = Accepted(q)
  BY DEF Accepted
<1>3. OneAccount'
  BY <1>1, <1>2 DEF IInv, Kept, OneAccount
<1>4. Outstanding' \subseteq Outstanding \cup {i} /\ Team' = Team /\ Roster' = Roster
  BY DEF Outstanding, Team, Roster
<1>5. i \notin Outstanding /\ \A k \in Outstanding : inv'[k].who = inv[k].who /\ inv[k].who # p
  BY DEF Outstanding, Live, InvitedAlready
<1>6. OneLiveInvitation'
  <2>1. SUFFICES ASSUME "resent" \notin unchecked, NEW a \in Outstanding', NEW b \in Outstanding',
                        inv'[a].who = inv'[b].who
                 PROVE  a = b
    BY <1>1 DEF OneLiveInvitation
  <2>2. a \in Outstanding \/ a = i
    BY <1>4
  <2>3. b \in Outstanding \/ b = i
    BY <1>4
  <2> QED
    BY <1>5, <2>1, <2>2, <2>3 DEF IInv, Kept, OneLiveInvitation
<1>7. StaffWithinSeats'
  <2>1. SUFFICES ASSUME "staff" \notin unchecked
                 PROVE  StaffUsed' <= StaffSeats
    BY <1>1 DEF StaffWithinSeats
  <2>2. Cardinality(Outstanding') <= Cardinality(Outstanding) + 1
    BY <1>4, Finite, GrowsByOne DEF IInv
  <2>3. Outstanding' \subseteq Invites
    BY DEF Outstanding
  <2>4. Cardinality(Outstanding') \in Nat
    BY <2>3, InstitutionAssumption, FS_Subset, FS_CardinalityType
  <2> QED
    BY <1>4, <2>1, <2>2, <2>4, Finite, SeatNumbers DEF IInv, StaffUsed, Free
<1>8. StudentsWithinSeats'
  BY <1>1, <1>4 DEF IInv, Kept, StudentsWithinSeats
<1> QED
  BY <1>3, <1>6, <1>7, <1>8 DEF Kept

LEMMA InsertIInv == ASSUME IInv, NEW w \in Workers, Insert(w) PROVE IInv'
<1> DEFINE p == job[w].who
<1>1. /\ job[w].pc = "insert" /\ Busy(w) /\ End(w) /\ p \in People /\ job[w].role \in Roles
      /\ UNCHANGED <<staff, chief, sub, students, ghosts>>
  BY DEF Insert, At, Busy, IInv, JobsOK, JobOK, Inviting, TypeOK, Job
<1>2. PICK i \in Invites :
        /\ inv[i].status = "NONE"
        /\ inv' = [inv EXCEPT ![i] = [status |-> "PENDING", who |-> p,
                                      role |-> job[w].role, fresh |-> TRUE]]
  BY DEF Insert
<1>3. ~raced => ~InvitedAlready(p) /\ ("staff" \notin unchecked => Free)
  BY <1>1 DEF IInv, UpToDate, StillOpen, Seated
<1> HIDE DEF p
<1>4. [status |-> "PENDING", who |-> p, role |-> job[w].role, fresh |-> TRUE] \in Invitation
  BY <1>1 DEF Invitation, InviteStatuses
<1>5. /\ inv' \in [Invites -> Invitation] /\ inv'[i].status = "PENDING" /\ inv'[i].who = p
      /\ \A k \in Invites \ {i} : inv'[k] = inv[k]
  BY <1>2, <1>4, OneRow DEF IInv
<1>6. RowsOK' /\ Persists
  BY <1>1, <1>2, <1>5 DEF IInv, RowsOK, Persists
<1>7. ~raced => Kept'
  BY <1>1, <1>2, <1>3, <1>5, InsertKept
<1> QED
  BY <1>1, <1>5, <1>6, <1>7, WriteIInv DEF IInv, TypeOK

\* An account is made: it takes the place of its invitation, or a free seat.
LEMMA AcceptKept ==
  ASSUME IInv, ~raced, UNCHANGED <<students, ghosts>>, NEW i \in Invites, NEW p \in People,
         staff[p] = "NONE", staff' = [staff EXCEPT ![p] = "ACTIVE"],
         chief' = chief \/ (chief = None /\ chief' = p),
         inv[i].who = p, inv[i].status # "ACCEPTED",
         inv'[i].status = "ACCEPTED", inv'[i].who = p,
         \A k \in Invites \ {i} : inv'[k] = inv[k],
         "staff" \notin unchecked => Live(inv[i]) \/ Free
  PROVE  Kept'
<1>1. raced' = raced /\ unchecked' = unchecked
  BY DEF ghosts
<1>2. staff'[p] = "ACTIVE" /\ \A q \in People \ {p} : staff'[q] = staff[q]
  BY DEF IInv, TypeOK
<1>3. OneAccount'
  <2>1. Accepted(p) = {}
    BY DEF IInv, Kept, OneAccount
  <2>2. Accepted(p)' = {i}
    BY <2>1 DEF Accepted
  <2>3. \A q \in People \ {p} : Accepted(q)' = Accepted(q)
    BY DEF Accepted
  <2>4. ASSUME NEW q \in People
        PROVE  IF staff'[q] = "NONE" THEN Accepted(q)' = {} ELSE \E k \in Invites : Accepted(q)' = {k}
    <3>1. CASE q = p
      BY <1>2, <2>2, <3>1
    <3>2. CASE q # p
      BY <1>2, <2>3, <2>4, <3>2 DEF IInv, Kept, OneAccount
    <3> QED
      BY <3>1, <3>2
  <2> QED
    BY <2>4 DEF OneAccount
<1>4. Outstanding' \subseteq Outstanding \ {i} /\ Roster' = Roster
  BY DEF Outstanding, Live, Roster
<1>5. Team' \subseteq Team \cup {p}
  BY <1>2, InstitutionAssumption DEF Team
<1>6. OneLiveInvitation'
  BY <1>1, <1>4 DEF IInv, Kept, OneLiveInvitation, Outstanding
<1>7. StaffWithinSeats'
  <2>1. SUFFICES ASSUME "staff" \notin unchecked
                 PROVE  StaffUsed' <= StaffSeats
    BY <1>1 DEF StaffWithinSeats
  <2>2. Cardinality(Team') <= Cardinality(Team) + 1
    BY <1>5, Finite, GrowsByOne DEF IInv
  <2>3. Team' \subseteq People /\ Outstanding' \subseteq Invites
    BY DEF Team, Outstanding
  <2>4. Cardinality(Team') \in Nat /\ Cardinality(Outstanding') \in Nat
    BY <2>3, InstitutionAssumption, FS_Subset, FS_CardinalityType
  <2>5. StaffUsed <= StaffSeats
    BY <2>1 DEF IInv, Kept, StaffWithinSeats
  <2>6. CASE Live(inv[i])
    <3>1. i \in Outstanding
      BY <2>6 DEF Outstanding
    <3>2. Cardinality(Outstanding') <= Cardinality(Outstanding) - 1
      BY <1>4, <3>1, Finite, LosesOne DEF IInv
    <3> QED
      BY <2>2, <2>4, <2>5, <3>2, Finite, SeatNumbers DEF IInv, StaffUsed
  <2>7. CASE Free
    <3>1. Cardinality(Outstanding') <= Cardinality(Outstanding)
      BY <1>4, Finite, FS_Subset DEF IInv
    <3> QED
      BY <2>2, <2>4, <2>7, <3>1, Finite, SeatNumbers DEF IInv, StaffUsed, Free
  <2> QED
    BY <2>1, <2>6, <2>7
<1>8. StudentsWithinSeats'
  BY <1>1, <1>4 DEF IInv, Kept, StudentsWithinSeats
<1> QED
  BY <1>3, <1>6, <1>7, <1>8 DEF Kept

LEMMA AcceptIInv == ASSUME IInv, NEW w \in Workers, Accept(w) PROVE IInv'
<1> DEFINE i == job[w].inv
           p == job[w].who
<1>1. /\ job[w].pc = "accept" /\ Busy(w) /\ End(w) /\ UNCHANGED <<students, ghosts>>
      /\ i \in Invites /\ p \in People /\ inv[i].status # "NONE" /\ inv[i].who = p
  BY DEF Accept, At, Busy, IInv, JobsOK, JobOK, Answering
<1>2. ~raced => /\ inv[i].status # "ACCEPTED"
                /\ "staff" \notin unchecked => Live(inv[i]) \/ Free
  BY <1>1 DEF IInv, UpToDate, StillOpen, Seated
<1>3. CASE AddressTaken(p)
  <2>1. UNCHANGED <<inv, staff, chief, sub, students, raced, unchecked, budget>>
    BY <1>1, <1>3 DEF Accept, ghosts
  <2>2. unchecked \subseteq unchecked' /\ unchecked' \subseteq Marks /\ budget' \in [Kinds -> Nat]
    BY <2>1 DEF IInv, TypeOK, Marks
  <2> QED
    BY <1>1, <2>1, <2>2, EndIInv
<1>4. CASE ~AddressTaken(p)
  <2>1. /\ staff[p] = "NONE" /\ staff' = [staff EXCEPT ![p] = "ACTIVE"]
        /\ chief' = chief \/ (chief = None /\ chief' = p)
        /\ sub' \in {"USABLE", sub}
        /\ inv' = [inv EXCEPT ![i].status = "ACCEPTED"]
    BY <1>1, <1>4 DEF Accept, AddressTaken, AnsweredStatus
  <2> HIDE DEF i, p
  <2>2. inv \in [Invites -> Invitation] /\ inv[i] \in Invitation
    BY <1>1 DEF IInv, TypeOK
  <2>3. /\ inv'[i] \in Invitation /\ inv'[i].status = "ACCEPTED" /\ inv'[i].who = p
        /\ \A k \in Invites \ {i} : inv'[k] = inv[k]
    BY <1>1, <2>1, <2>2 DEF Invitation, InviteStatuses
  <2>4. inv' \in [Invites -> Invitation]
    BY <2>1, <2>2, <2>3
  <2>5. RowsOK' /\ Persists
    BY <1>1, <2>3 DEF IInv, RowsOK, Persists
  <2>6. ~raced => Kept'
    BY <1>1, <1>2, <2>1, <2>3, AcceptKept
  <2>7. /\ staff' \in [People -> {"NONE", "ACTIVE", "DISABLED"}] /\ chief' \in People \cup {None}
        /\ sub' \in {"NONE", "USABLE", "UNUSABLE"} /\ students' \in [Students -> Account]
    BY <1>1, <2>1 DEF IInv, TypeOK
  <2> QED
    BY <1>1, <2>4, <2>5, <2>6, <2>7, WriteIInv
<1> QED
  BY <1>3, <1>4

\* The roster changes, and nothing of the staff.
LEMMA RosterKept ==
  ASSUME IInv, UNCHANGED <<inv, staff, chief>>, raced => raced', unchecked \subseteq unchecked',
         ~raced' /\ "student" \notin unchecked' => Cardinality(Roster') <= StudentSeats
  PROVE  Kept'
<1>1. Team' = Team /\ Outstanding' = Outstanding
  BY DEF Team, Outstanding
<1>2. StaffUsed' = StaffUsed
  BY <1>1 DEF StaffUsed
<1>3. OneAccount' /\ OneLiveInvitation'
  BY <1>1 DEF IInv, Kept, OneAccount, Accepted, OneLiveInvitation
<1>4. StaffWithinSeats' /\ StudentsWithinSeats'
  BY <1>2 DEF IInv, Kept, StaffWithinSeats, StudentsWithinSeats
<1> QED
  BY <1>3, <1>4 DEF Kept

LEMMA StudentWriteIInv ==
  ASSUME IInv, NEW w \in Workers, AddMember(w) \/ EnrolStudent(w)
  PROVE  IInv'
<1> DEFINE s == job[w].who
<1>1. /\ job[w].pc \in {"join", "enrol"} /\ Busy(w) /\ End(w) /\ s \in Students
      /\ UNCHANGED <<inv, staff, chief, sub, ghosts>>
  BY DEF AddMember, EnrolStudent, At, Busy, IInv, JobsOK, JobOK, Placing
<1>2. job[w].pc = "join" \/ job[w].known => students[s].status # "NONE"
  BY <1>1 DEF IInv, JobsOK, JobOK
<1>3. ~raced /\ "student" \notin unchecked => students[s].member \/ Room
  BY <1>1 DEF IInv, UpToDate, Seated
<1>4. \/ students' = [students EXCEPT ![s].member = TRUE] /\ students[s].status # "NONE"
      \/ students' = [students EXCEPT ![s] = [status |-> "ACTIVE", member |-> TRUE]]
         /\ students[s].status = "NONE"
      \/ students' = students
  BY <1>1, <1>2 DEF AddMember, EnrolStudent, At
<1> HIDE DEF s
<1>5. students \in [Students -> Account] /\ students[s] \in Account
  BY <1>1 DEF IInv, TypeOK
<1>6. /\ students'[s] \in Account /\ \A t \in Students \ {s} : students'[t] = students[t]
      /\ students' = students \/ students'[s].status # "NONE"
      /\ students[s].member /\ students[s].status # "NONE" => students'[s].status = students[s].status
  <2>1. CASE students' = [students EXCEPT ![s].member = TRUE] /\ students[s].status # "NONE"
    <3>1. /\ students'[s] = [students[s] EXCEPT !.member = TRUE]
          /\ \A t \in Students \ {s} : students'[t] = students[t]
      BY <1>1, <1>5, <2>1
    <3> QED
      BY <1>5, <2>1, <3>1 DEF Account
  <2>2. CASE /\ students' = [students EXCEPT ![s] = [status |-> "ACTIVE", member |-> TRUE]]
             /\ students[s].status = "NONE"
    <3>1. /\ students'[s] = [status |-> "ACTIVE", member |-> TRUE]
          /\ \A t \in Students \ {s} : students'[t] = students[t]
      BY <1>1, <1>5, <2>2
    <3> QED
      BY <1>5, <2>2, <3>1 DEF Account, AccountStatuses
  <2>3. CASE students' = students
    BY <1>5, <2>3
  <2> QED
    BY <1>4, <2>1, <2>2, <2>3
<1>7. students' \in [Students -> Account]
  BY <1>4, <1>5, <1>6
<1>8. RowsOK' /\ Persists
  BY <1>1, <1>5, <1>6 DEF IInv, RowsOK, Persists
<1>9. Roster' \subseteq Roster \cup {s}
  BY <1>6 DEF Roster
<1>10. ~raced /\ "student" \notin unchecked => Cardinality(Roster') <= StudentSeats
  <2>1. SUFFICES ASSUME ~raced, "student" \notin unchecked
                 PROVE  Cardinality(Roster') <= StudentSeats
    OBVIOUS
  <2>2. CASE Room
    <3>1. Cardinality(Roster') <= Cardinality(Roster) + 1
      BY <1>9, Finite, GrowsByOne DEF IInv
    <3>2. Roster' \subseteq Students
      BY DEF Roster
    <3>3. Cardinality(Roster') \in Nat
      BY <3>2, InstitutionAssumption, FS_Subset, FS_CardinalityType
    <3> QED
      BY <2>2, <3>1, <3>3, Finite, SeatNumbers DEF IInv, Room
  <2>3. CASE students[s].member
    <3>1. Roster' \subseteq Roster
      BY <1>1, <1>6, <2>3 DEF Roster, IInv, RowsOK
    <3>2. Cardinality(Roster') <= Cardinality(Roster) /\ Cardinality(Roster') \in Nat
      BY <3>1, RosterShrinks DEF IInv
    <3> QED
      BY <2>1, <3>2, Finite, SeatNumbers DEF IInv, Kept, StudentsWithinSeats
  <2> QED
    BY <1>3, <2>1, <2>2, <2>3
<1>11. Kept'
  <2>1. raced => raced'
    BY <1>1, Zenon DEF ghosts
  <2>2. unchecked' = unchecked /\ (~raced' => ~raced)
    BY <1>1, Zenon DEF ghosts
  <2> QED
    BY <1>1, <1>10, <2>1, <2>2, RosterKept
<1> QED
  BY <1>1, <1>7, <1>8, <1>11, WriteIInv DEF IInv, TypeOK

-----------------------------------------------------------------------------
(* Requests that are answered at once. *)

LEMMA SetStaffIInv ==
  ASSUME IInv, NEW p \in People, NEW st \in {"ACTIVE", "DISABLED"}, SetStaff(p, st)
  PROVE  IInv'
<1>1. /\ staff[p] # "NONE" /\ staff' = [staff EXCEPT ![p] = st] /\ Overlap
      /\ UNCHANGED <<inv, chief, sub, students, job>> /\ Note({"staff"}, st = "ACTIVE")
      /\ budget' \in [Kinds -> Nat]
  BY Budgeted DEF SetStaff, IInv
<1>2. staff' \in [People -> {"NONE", "ACTIVE", "DISABLED"}] /\ staff'[p] = st
      /\ \A q \in People \ {p} : staff'[q] = staff[q]
  BY <1>1 DEF IInv, TypeOK
<1>3. (raced => raced') /\ (~raced' => \A v \in Workers : ~Busy(v)) /\ raced' \in BOOLEAN
  BY <1>1, OverlapFacts DEF IInv
<1>4. /\ unchecked \subseteq unchecked' /\ unchecked' \subseteq Marks
      /\ (st = "ACTIVE" => "staff" \in unchecked')
  BY <1>1, NoteOK DEF IInv, Marks
<1>5. TypeOK'
  BY <1>1, <1>2, <1>3, <1>4 DEF IInv, TypeOK, Marks
<1>6. RowsOK' /\ Persists
  BY <1>1, SameRows
<1>7. Kept'
  <2>1. OneAccount'
    <3>1. \A q \in People : Accepted(q)' = Accepted(q) /\ (staff'[q] = "NONE" <=> staff[q] = "NONE")
      BY <1>1, <1>2 DEF Accepted
    <3> QED
      BY <1>3, <3>1 DEF IInv, Kept, OneAccount
  <2>2. Outstanding' = Outstanding /\ Roster' = Roster
    BY <1>1 DEF Outstanding, Roster
  <2>3. OneLiveInvitation' /\ StudentsWithinSeats'
    BY <1>1, <1>3, <1>4, <2>2 DEF IInv, Kept, OneLiveInvitation, StudentsWithinSeats
  <2>4. StaffWithinSeats'
    <3>1. SUFFICES ASSUME ~raced', "staff" \notin unchecked'
                   PROVE  StaffUsed' <= StaffSeats
      BY DEF StaffWithinSeats
    <3>2. Team' \subseteq Team
      BY <1>1, <1>2, <1>4, <3>1 DEF Team
    <3>3. StaffUsed' <= StaffUsed /\ StaffUsed' \in Nat /\ StaffUsed \in Nat
      BY <1>5, <2>2, <3>2, UsedShrinks, Finite DEF IInv
    <3>4. StaffUsed <= StaffSeats
      BY <1>3, <1>4, <3>1 DEF IInv, Kept, StaffWithinSeats
    <3> QED
      BY <3>3, <3>4, SeatNumbers
  <2> QED
    BY <2>1, <2>3, <2>4 DEF Kept
<1> QED
  BY <1>1, <1>3, <1>5, <1>6, <1>7, AtOnceIInv

\* A student's row is written: who is on the roster afterwards was before, or
\* came without the gate.
LEMMA StudentRowIInv ==
  ASSUME IInv, NEW s \in Students, NEW x \in Account, students' = [students EXCEPT ![s] = x],
         UNCHANGED <<inv, staff, chief, sub, job>>, Overlap,
         unchecked \subseteq unchecked', unchecked' \subseteq Marks, budget' \in [Kinds -> Nat],
         x.status # "NONE",
         x.member /\ x.status = "ACTIVE" /\ "student" \notin unchecked' => s \in Roster
  PROVE  IInv'
<1>1. /\ students' \in [Students -> Account] /\ students'[s] = x
      /\ \A t \in Students \ {s} : students'[t] = students[t]
  BY DEF IInv, TypeOK
<1>2. (raced => raced') /\ (~raced' => \A v \in Workers : ~Busy(v)) /\ raced' \in BOOLEAN
  BY OverlapFacts DEF IInv
<1>3. TypeOK'
  BY <1>1, <1>2 DEF IInv, TypeOK, Marks
<1>4. RowsOK' /\ Persists
  BY <1>1 DEF IInv, RowsOK, Persists
<1>5. ASSUME ~raced', "student" \notin unchecked'
      PROVE  Cardinality(Roster') <= StudentSeats
  <2>1. Roster' \subseteq Roster
    BY <1>1, <1>5 DEF Roster
  <2>2. Cardinality(Roster') <= Cardinality(Roster) /\ Cardinality(Roster') \in Nat
    BY <2>1, RosterShrinks DEF IInv
  <2>3. Cardinality(Roster) <= StudentSeats
    BY <1>2, <1>5 DEF IInv, Kept, StudentsWithinSeats
  <2> QED
    BY <2>2, <2>3, Finite, SeatNumbers DEF IInv
<1>6. Kept'
  BY <1>2, <1>5, RosterKept
<1> QED
  BY <1>2, <1>3, <1>4, <1>6, AtOnceIInv

LEMMA StudentAtOnceIInv ==
  ASSUME IInv, NEW s \in Students,
         \/ \E referred \in BOOLEAN : SignUp(s, referred)
         \/ \E status \in {"ACTIVE", "DISABLED"} : SetStudent(s, status)
         \/ DeleteAccount(s) \/ Leave(s)
  PROVE  IInv'
<1>1. /\ UNCHANGED <<inv, staff, chief, sub, job>> /\ Overlap /\ budget' \in [Kinds -> Nat]
  BY Budgeted DEF SignUp, SetStudent, DeleteAccount, Leave, IInv
<1>2. students[s] \in Account /\ students \in [Students -> Account] /\ unchecked \subseteq Marks
  BY DEF IInv, TypeOK, Marks
<1>3. ASSUME NEW referred \in BOOLEAN, SignUp(s, referred)
      PROVE  IInv'
  <2> DEFINE x == [status |-> "ACTIVE", member |-> referred]
  <2>1. students' = [students EXCEPT ![s] = x] /\ Note({"student"}, referred)
    BY <1>3 DEF SignUp
  <2>2. x \in Account /\ x.status = "ACTIVE" /\ x.member = referred
    BY DEF Account, AccountStatuses
  <2>3. unchecked \subseteq unchecked' /\ unchecked' \subseteq Marks
        /\ (referred => "student" \in unchecked')
    BY <2>1, NoteOK DEF IInv, Marks
  <2> HIDE DEF x
  <2>4. x.member => "student" \in unchecked'
    BY <2>2, <2>3, Zenon
  <2> QED
    BY <1>1, <2>1, <2>2, <2>3, <2>4, StudentRowIInv
<1>4. ASSUME NEW st \in {"ACTIVE", "DISABLED"}, SetStudent(s, st)
      PROVE  IInv'
  <2> DEFINE x == [students[s] EXCEPT !.status = st]
  <2>1. students' = [students EXCEPT ![s] = x]
        /\ Note({"student"}, st = "ACTIVE" /\ students[s].member)
    BY <1>4 DEF SetStudent
  <2>2. x \in Account /\ x.status = st /\ x.member = students[s].member
    BY <1>2 DEF Account, AccountStatuses
  <2>3. unchecked \subseteq unchecked' /\ unchecked' \subseteq Marks
        /\ (st = "ACTIVE" /\ students[s].member => "student" \in unchecked')
    BY <2>1, NoteOK DEF IInv, Marks
  <2> HIDE DEF x
  <2> QED
    BY <1>1, <2>1, <2>2, <2>3, StudentRowIInv
<1>5. CASE DeleteAccount(s)
  <2> DEFINE x == [students[s] EXCEPT !.status = "DELETED"]
  <2>1. students' = [students EXCEPT ![s] = x] /\ unchecked' = unchecked
    BY <1>5 DEF DeleteAccount
  <2>2. x \in Account /\ x.status = "DELETED"
    BY <1>2 DEF Account, AccountStatuses
  <2> HIDE DEF x
  <2> QED
    BY <1>1, <1>2, <2>1, <2>2, StudentRowIInv
<1>6. CASE Leave(s)
  <2> DEFINE x == [students[s] EXCEPT !.member = FALSE]
  <2>1. students' = [students EXCEPT ![s] = x] /\ unchecked' = unchecked
        /\ students[s].status = "ACTIVE"
    BY <1>6 DEF Leave
  <2>2. x \in Account /\ x.status = students[s].status /\ x.member = FALSE
    BY <1>2 DEF Account
  <2> HIDE DEF x
  <2> QED
    BY <1>1, <1>2, <2>1, <2>2, StudentRowIInv
<1> QED
  BY <1>3, <1>4, <1>5, <1>6

-----------------------------------------------------------------------------
(* Time and the subscription: whatever runs goes on running. *)

LEMMA WorldIInv ==
  ASSUME IInv, TypeOK', RowsOK', Persists, UNCHANGED <<job, raced>>, Kept',
         ~raced => \A w \in Workers : StillOpen(w)' /\ Seated(w)'
  PROVE  IInv'
<1>1. JobsOK'
  <2>1. ASSUME NEW v \in Workers
        PROVE  JobOK(v)'
    BY OthersOK
  <2> QED
    BY <2>1 DEF JobsOK
<1>2. ~raced' => ~raced
  BY Zenon
<1>3. Alone'
  BY <1>2 DEF IInv, Alone, Busy
<1>4. UpToDate'
  BY <1>2 DEF UpToDate
<1> QED
  BY <1>1, <1>3, <1>4 DEF IInv

LEMMA LapseIInv == ASSUME IInv, NEW i \in Invites, Lapse(i) PROVE IInv'
<1>1. /\ Live(inv[i]) /\ inv' = [inv EXCEPT ![i].fresh = FALSE]
      /\ UNCHANGED <<staff, chief, sub, students, job, raced, unchecked, budget>>
  BY DEF Lapse, ghosts
<1>2. inv \in [Invites -> Invitation] /\ inv[i] \in Invitation
  BY DEF IInv, TypeOK
<1>3. /\ inv'[i] = [inv[i] EXCEPT !.fresh = FALSE]
      /\ \A k \in Invites \ {i} : inv'[k] = inv[k]
  BY <1>1, <1>2
<1>4. inv'[i] \in Invitation /\ inv'[i].fresh = FALSE
  BY <1>2, <1>3 DEF Invitation
<1>5. \A k \in Invites : inv'[k].status = inv[k].status /\ inv'[k].who = inv[k].who
  BY <1>2, <1>3 DEF Invitation
<1>6. inv' \in [Invites -> Invitation]
  BY <1>1, <1>2, <1>4
<1>7. TypeOK' /\ RowsOK' /\ Persists
  BY <1>1, <1>5, <1>6 DEF IInv, TypeOK, RowsOK, Persists
<1>8. /\ Outstanding' \subseteq Outstanding \ {i} /\ i \in Outstanding
      /\ Team' = Team /\ Roster' = Roster
  BY <1>1, <1>3, <1>4 DEF Outstanding, Team, Roster, Live
<1>9. /\ Cardinality(Outstanding') <= Cardinality(Outstanding) - 1
      /\ StaffUsed' <= StaffUsed - 1 /\ StaffUsed' \in Nat /\ StaffUsed \in Nat
  <2>1. Cardinality(Outstanding') <= Cardinality(Outstanding) - 1
    BY <1>8, Finite, LosesOne DEF IInv
  <2>2. StaffUsed' \in Nat
    BY <1>7, <1>8, UsedShrinks DEF IInv
  <2>3. Cardinality(Outstanding') \in Nat
    BY <1>8, Finite, FS_Subset, FS_CardinalityType DEF IInv
  <2> QED
    BY <1>8, <2>1, <2>2, <2>3, Finite DEF IInv, StaffUsed
<1>10. Kept'
  <2>1. \A p \in People : Accepted(p)' = Accepted(p)
    BY <1>5 DEF Accepted
  <2>2. OneAccount'
    BY <1>1, <2>1 DEF IInv, Kept, OneAccount
  <2>3. OneLiveInvitation'
    BY <1>1, <1>5, <1>8 DEF IInv, Kept, OneLiveInvitation, Outstanding
  <2>4. StaffWithinSeats'
    BY <1>1, <1>9, SeatNumbers DEF IInv, Kept, StaffWithinSeats
  <2>5. StudentsWithinSeats'
    BY <1>1, <1>8 DEF IInv, Kept, StudentsWithinSeats
  <2> QED
    BY <2>2, <2>3, <2>4, <2>5 DEF Kept
<1>11. ASSUME ~raced, NEW w \in Workers
       PROVE  StillOpen(w)' /\ Seated(w)'
  <2>1. StillOpen(w) /\ Seated(w) /\ JobOK(w)
    BY <1>11 DEF IInv, UpToDate, JobsOK
  <2>2. job'[w] = job[w]
    BY <1>1
  <2>3. ASSUME NEW p, ~InvitedAlready(p)
        PROVE  ~InvitedAlready(p)'
    BY <1>5, <1>8, <2>3 DEF InvitedAlready, Outstanding
  <2>4. Free => Free'
    BY <1>9, SeatNumbers DEF Free
  <2>5. \A k \in Invites : ~inv[k].fresh => ~inv'[k].fresh
    BY <1>3, <1>4
  <2>6. StillOpen(w)'
    <3>1. (job[w].pc \in Inviting => staff[job[w].who] = "NONE")'
      BY <1>1, <2>1 DEF StillOpen
    <3>2. (job[w].pc \in {"seats", "insert"} => ~InvitedAlready(job[w].who))'
      BY <2>1, <2>2, <2>3, <1>5, <1>8 DEF StillOpen, InvitedAlready, Outstanding
    <3>3. job[w].pc \in Answering => job[w].inv \in Invites
      BY <2>1 DEF JobOK
    <3>4. (job[w].pc \in {"accept", "renew"} => inv[job[w].inv].status \in {"PENDING", "EXPIRED"})'
      BY <1>5, <2>1, <2>2, <3>3 DEF StillOpen, Answering
    <3>5. (job[w].pc = "renew" /\ "resent" \notin unchecked =>
             \A j \in Outstanding : inv[j].who = job[w].who => j = job[w].inv)'
      BY <1>1, <1>5, <1>8, <2>1, <2>2 DEF StillOpen, Outstanding
    <3>6. (job[w].pc = "lapse" => inv[job[w].inv].status = "PENDING" /\ ~inv[job[w].inv].fresh)'
      BY <1>5, <2>1, <2>2, <2>5, <3>3 DEF StillOpen, Answering
    <3>7. (job[w].pc = "revoke" => inv[job[w].inv].status = "PENDING")'
      BY <1>5, <2>1, <2>2, <3>3 DEF StillOpen, Answering
    <3> QED
      BY <3>1, <3>2, <3>4, <3>5, <3>6, <3>7 DEF StillOpen
  <2>7. Seated(w)'
    <3>1. ASSUME "staff" \notin unchecked, job[w].pc \in {"accept", "renew"}
          PROVE  Live(inv'[job[w].inv]) \/ Free'
      <4>1. job[w].inv \in Invites
        BY <2>1, <3>1 DEF JobOK, Answering
      <4>2. CASE job[w].inv = i
        BY <1>9, <1>11, <3>1, SeatNumbers DEF IInv, Kept, StaffWithinSeats, Free
      <4>3. CASE job[w].inv # i
        BY <1>3, <2>1, <2>4, <3>1, <4>1, <4>3 DEF Seated
      <4> QED
        BY <4>2, <4>3
    <3>2. ASSUME "student" \notin unchecked, job[w].pc \in {"join", "enrol"}
          PROVE  students'[job[w].who].member \/ Room'
      BY <1>1, <1>8, <2>1, <3>2 DEF Seated, Room
    <3> QED
      BY <1>1, <2>1, <2>2, <2>4, <3>1, <3>2 DEF Seated
  <2> QED
    BY <2>6, <2>7
<1> QED
  BY <1>1, <1>7, <1>10, <1>11, WorldIInv

LEMMA SubscriptionChangesIInv == ASSUME IInv, SubscriptionChanges PROVE IInv'
<1>1. /\ UNCHANGED <<inv, staff, chief, students, job, raced, unchecked, budget>>
      /\ sub' \in {"NONE", "USABLE", "UNUSABLE"}
  BY DEF SubscriptionChanges, ghosts
<1>2. TypeOK' /\ RowsOK' /\ Persists
  BY <1>1, SameRows DEF IInv, TypeOK
<1>3. (raced => raced') /\ unchecked \subseteq unchecked'
  BY <1>1, Zenon
<1>4. Kept'
  BY <1>1, <1>3, KeptUnchanged
<1>5. Outstanding' = Outstanding /\ (Free' <=> Free) /\ (Room' <=> Room)
  BY <1>1, SeatsUnchanged
<1>6. ASSUME ~raced, NEW w \in Workers
      PROVE  StillOpen(w)' /\ Seated(w)'
  <2>1. StillOpen(w) /\ Seated(w)
    BY <1>6 DEF IInv, UpToDate
  <2>2. StillOpen(w)'
    BY <1>1, <1>5, <2>1 DEF StillOpen, InvitedAlready
  <2>3. Seated(w)'
    BY <1>1, <1>5, <2>1 DEF Seated
  <2> QED
    BY <2>2, <2>3
<1> QED
  BY <1>1, <1>2, <1>4, <1>6, WorldIInv

-----------------------------------------------------------------------------
(* The invariant and what follows from it. *)

LEMMA InitIInv == Init => IInv
<1> SUFFICES ASSUME Init
             PROVE  IInv
  OBVIOUS
<1>1. /\ "NONE" \in InviteStatuses /\ "NONE" \in AccountStatuses /\ "idle" \in Pcs
      /\ "STAFF" \in Roles
  BY DEF InviteStatuses, AccountStatuses, Pcs, Roles
<1>2. Idle \in Job /\ Idle.pc = "idle"
  BY <1>1 DEF Idle, Request, Job
<1>3. [status |-> "NONE", who |-> None, role |-> "STAFF", fresh |-> FALSE] \in Invitation
      /\ [status |-> "NONE", member |-> FALSE] \in Account
  BY <1>1 DEF Invitation, Account
<1>4. TypeOK
  BY <1>2, <1>3, InstitutionAssumption DEF Init, TypeOK
<1>5. RowsOK
  BY DEF Init, RowsOK
<1>6. \A w \in Workers : job[w].pc = "idle"
  BY <1>2 DEF Init
<1>7. JobsOK /\ Alone /\ UpToDate
  BY <1>6 DEF JobsOK, JobOK, Alone, Busy, UpToDate, StillOpen, Seated, Inviting, Answering, Placing
<1>8. Team = {} /\ Outstanding = {} /\ Roster = {}
  BY DEF Init, Team, Outstanding, Live, Roster
<1>9. StaffUsed = 0 /\ Cardinality(Roster) = 0
  BY <1>8, FS_EmptySet DEF StaffUsed
<1>10. Kept
  <2>1. OneAccount
    BY DEF Init, OneAccount, Accepted
  <2> QED
    BY <1>8, <1>9, <2>1, SeatNumbers DEF Kept, OneLiveInvitation, StaffWithinSeats, StudentsWithinSeats
<1> QED
  BY <1>4, <1>5, <1>7, <1>10 DEF IInv

LEMMA StutterIInv == ASSUME IInv, UNCHANGED vars PROVE IInv'
<1>1. UNCHANGED <<inv, staff, chief, sub, students, job, raced, unchecked, budget>>
  BY DEF vars, ghosts
<1>2. TypeOK' /\ RowsOK' /\ Persists
  BY <1>1, SameRows DEF IInv, TypeOK
<1>3. (raced => raced') /\ unchecked \subseteq unchecked'
  BY <1>1, Zenon
<1>4. Kept'
  BY <1>1, <1>3, KeptUnchanged
<1>5. Outstanding' = Outstanding /\ (Free' <=> Free) /\ (Room' <=> Room)
  BY <1>1, SeatsUnchanged
<1>6. ASSUME ~raced, NEW w \in Workers
      PROVE  StillOpen(w)' /\ Seated(w)'
  <2>1. StillOpen(w) /\ Seated(w)
    BY <1>6 DEF IInv, UpToDate
  <2>2. StillOpen(w)'
    BY <1>1, <1>5, <2>1 DEF StillOpen, InvitedAlready
  <2>3. Seated(w)'
    BY <1>1, <1>5, <2>1 DEF Seated
  <2> QED
    BY <2>2, <2>3
<1> QED
  BY <1>1, <1>2, <1>4, <1>6, WorldIInv

LEMMA NextIInv == ASSUME IInv, [Next]_vars PROVE IInv'
<1>1. CASE StaffRequest
  BY <1>1, InviteIInv, InvitationRequestIInv, SetStaffIInv DEF StaffRequest
<1>2. CASE StudentRequest
  BY <1>2, StudentAtOnceIInv, StudentRequestIInv DEF StudentRequest
<1>3. ASSUME NEW w \in Workers, Step(w)
      PROVE  IInv'
  BY <1>3, CheckPendingIInv, CheckSeatsIInv, InsertIInv, CloseIInv, RenewIInv, AcceptIInv,
     CheckRoomIInv, StudentWriteIInv DEF Step
<1>4. ASSUME NEW w \in Workers, Abort(w)
      PROVE  IInv'
  BY <1>4, AbortIInv
<1>5. ASSUME NEW i \in Invites, Lapse(i)
      PROVE  IInv'
  BY <1>5, LapseIInv
<1>6. CASE SubscriptionChanges
  BY <1>6, SubscriptionChangesIInv
<1>7. CASE UNCHANGED vars
  BY <1>7, StutterIInv
<1> QED
  BY <1>1, <1>2, <1>3, <1>4, <1>5, <1>6, <1>7 DEF Next

THEOREM InvariantHolds == Spec => []IInv
<1>1. Init => IInv
  BY InitIInv
<1>2. IInv /\ [Next]_vars => IInv'
  BY NextIInv
<1> QED
  BY <1>1, <1>2, PTL DEF Spec

\* Every row of every table stays of its type, whatever the institution's size.
THEOREM InstitutionTypeCorrect == Spec => []TypeOK
<1>1. IInv => TypeOK
  BY DEF IInv
<1> QED
  BY <1>1, InvariantHolds, PTL

\* The team with its invitations, and the roster, fit the seats of the plan, for
\* any number of seats, people and students, as long as requests do not overlap
\* and every way in asks the gate (assertCanInvite, assertCanAddStudent).
THEOREM SeatsWithinPlanHolds == Spec => []SeatsWithinPlan
<1>1. IInv => SeatsWithinPlan
  BY IInvImpliesSeats
<1> QED
  BY <1>1, InvariantHolds, PTL

\* One working link and one account for each person, however often they are
\* invited, revoked, sent again or lapse (create, createFromInvitation).
THEOREM OneInvitationEachHolds == Spec => []OneInvitationEach
<1>1. IInv => OneInvitationEach
  BY IInvImpliesOneEach
<1> QED
  BY <1>1, InvariantHolds, PTL

\* What a step may do to the answer of an invitation.
Faithful(i) ==
  /\ inv[i].status \in {"ACCEPTED", "REVOKED"} => inv'[i].status = inv[i].status
  /\ Live(inv[i]) => inv'[i].status # "EXPIRED"

LEMMA SameRowsFaithful ==
  ASSUME NEW i \in Invites, inv'[i] = inv[i]
  PROVE  Faithful(i)
  BY DEF Faithful, Live

LEMMA StepFaithful ==
  ASSUME IInv, NEW w \in Workers, Step(w), ~raced', NEW i \in Invites
  PROVE  Faithful(i)
<1>1. inv \in [Invites -> Invitation]
  BY DEF IInv, TypeOK
<1>2. CASE UNCHANGED inv
  BY <1>2, SameRowsFaithful
<1>3. CASE Insert(w)
  BY <1>1, <1>3 DEF Insert, Faithful, Live
<1>4. CASE MarkExpired(w) \/ Renew(w) \/ Revoke(w) \/ (Accept(w) /\ ~UNCHANGED inv)
  <2> DEFINE k == job[w].inv
  <2>1. job[w].pc \in Answering /\ k \in Invites /\ raced' = raced
    BY <1>4 DEF MarkExpired, Renew, Revoke, Accept, At, ghosts, IInv, JobsOK, JobOK, Answering
  <2>2. StillOpen(w)
    BY <2>1, Zenon DEF IInv, UpToDate
  <2>3. CASE k # i
    <3>1. inv'[i] = inv[i]
      BY <1>1, <1>4, <2>1, <2>3 DEF MarkExpired, Renew, Revoke, Accept
    <3> QED
      BY <3>1, SameRowsFaithful
  <2>4. CASE k = i
    <3>1. /\ inv[i].status \in {"PENDING", "EXPIRED"}
          /\ job[w].pc = "lapse" => ~inv[i].fresh
      BY <1>4, <2>2, <2>4 DEF StillOpen, MarkExpired, Renew, Revoke, Accept, At
    <3>2. inv'[i].status = "EXPIRED" => job[w].pc = "lapse"
      BY <1>1, <1>4, <2>1, <2>4
         DEF MarkExpired, Renew, Revoke, Accept, At, Invitation, AnsweredStatus
    <3> QED
      BY <3>1, <3>2 DEF Faithful, Live
  <2> QED
    BY <2>3, <2>4
<1>5. CASE Accept(w) /\ UNCHANGED inv
  BY <1>5, SameRowsFaithful
<1> QED
  BY <1>2, <1>3, <1>4, <1>5
     DEF Step, CheckPending, CheckSeats, CheckRoom, AddMember, EnrolStudent

LEMMA NextFaithful ==
  ASSUME IInv, [Next]_vars, ~raced', NEW i \in Invites
  PROVE  Faithful(i)
<1>1. CASE UNCHANGED inv
  BY <1>1, SameRowsFaithful
<1>2. ASSUME NEW w \in Workers, Step(w)
      PROVE  Faithful(i)
  BY <1>2, StepFaithful
<1>3. ASSUME NEW k \in Invites, Lapse(k)
      PROVE  Faithful(i)
  <2>1. inv'[i].status = inv[i].status
    BY <1>3 DEF Lapse, IInv, TypeOK, Invitation
  <2> QED
    BY <2>1 DEF Faithful, Live
<1>4. StaffRequest \/ StudentRequest \/ (\E w \in Workers : Abort(w)) \/ SubscriptionChanges
        \/ UNCHANGED vars => UNCHANGED inv
  BY DEF StaffRequest, StudentRequest, Invite, OpenLink, AdminAccept, Resend, AskRevoke, SetStaff,
         SignUp, SetStudent, DeleteAccount, Leave, Join, Enroll, Abort, SubscriptionChanges, vars
<1> QED
  BY <1>1, <1>2, <1>3, <1>4 DEF Next

\* An accepted or revoked invitation stays that, and nobody's look at a link
\* that works declares it expired (accept, revoke, liveInvitationByToken), while
\* requests do not overlap.
THEOREM InvitationsKeepFaithHolds == Spec => InvitationsKeepFaith
<1>1. ASSUME IInv, [Next]_vars
      PROVE  /\ [~raced' => \A i \in Invites : inv[i].status \in {"ACCEPTED", "REVOKED"}
                                                 => inv'[i].status = inv[i].status]_vars
             /\ [~raced' => \A i \in Invites : Live(inv[i]) => inv'[i].status # "EXPIRED"]_vars
  BY <1>1, NextFaithful DEF Faithful
<1> QED
  BY <1>1, InvariantHolds, PTL DEF Spec, InvitationsKeepFaith, AnswersAreFinal, LiveLinksStayLive
=============================================================================
