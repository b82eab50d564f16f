---------------------------- MODULE BillingProofs ----------------------------
(* Theorems about Billing, for every value of its constants. *)
EXTENDS Billing, TLAPS

SubOK ==
  /\ sub.status = "NONE" => sub = NoRow
  /\ sub.status = "TRIAL" => sub.end \in Nat

\* A report of a charge names it and the contract it was taken on.
EventsOK ==
  \A e \in sent : e.type = "charged" => e.charge \in Charges /\ charged[e.charge] = e.contract

Reporting == {"charged", "lookup", "activate", "invoice"}

JobOK(j) ==
  /\ j.pc = "withdraw" => j.contract \in Contracts
  /\ j.pc = "trial" => j.read.end \in Nat
  /\ j.pc \in Reporting => j.charge \in Charges
  /\ j.pc \in Reporting \ {"invoice"} => j.contract \in Contracts /\ charged[j.charge] = j.contract

JobsOK == \A w \in Workers : JobOK(job[w])

Busy(w) == job[w].pc # "idle"

\* Until requests overlap there is one at a time, ...
Alone == ~raced => \A v, w \in Workers : Busy(v) /\ Busy(w) => v = w

\* ... and what it has read still holds.
StillTrue(j, row, books) ==
  /\ j.pc \in {"open", "provision"} => row.status \notin {"ACTIVE", "TRIALING"}
  /\ j.pc \in {"trial", "expire"} => row.status \in {"TRIAL", "EXPIRED"}
  /\ j.pc \in {"lookup", "activate"} => row.contract = j.contract
  /\ j.pc = "activate" => books[j.charge] = 0

UpToDate == ~raced => \A w \in Workers : StillTrue(job[w], sub, invoices)

Booking(c) == \E w \in Workers : At(w, "invoice") /\ job[w].charge = c

\* A charge that has bought its period is on the books, or about to be.
PeriodsOK ==
  ~raced /\ ~died =>
    \A c \in Charges : periods[c] <= 1 /\ (periods[c] = 1 => invoices[c] > 0 \/ Booking(c))

IInv ==
  /\ TypeOK /\ SubOK /\ EventsOK /\ JobsOK /\ Alone /\ UpToDate
  /\ OneInvoicePerCharge /\ ActiveContractIsPaid /\ PeriodsOK

-----------------------------------------------------------------------------
(* Types. *)

LEMMA IdleOK == Idle \in Job /\ NoRow \in Row /\ Idle.pc = "idle" /\ Idle.read = NoRow
  BY DEF Idle, Request, NoRow, SubRow, Job, Row, Pcs, Statuses, Times

LEMMA RequestOK ==
  ASSUME NEW p \in Pcs, NEW row \in Row, NEW r \in Contracts \cup {None},
         NEW c \in Charges \cup {None}
  PROVE  /\ Request(p, row, r, c) \in Job
         /\ Request(p, row, r, c).pc = p /\ Request(p, row, r, c).read = row
         /\ Request(p, row, r, c).contract = r /\ Request(p, row, r, c).charge = c
  BY DEF Request, Job

LEMMA RowOK ==
  ASSUME NEW s \in Statuses, NEW r \in Contracts \cup {None}, NEW e \in Times
  PROVE  /\ SubRow(s, r, e) \in Row /\ SubRow(s, r, e).status = s
         /\ SubRow(s, r, e).contract = r /\ SubRow(s, r, e).end = e
  BY DEF SubRow, Row

LEMMA SpendOK ==
  ASSUME budget \in [Kinds -> Nat], NEW k \in Kinds, Spend(k)
  PROVE  budget' \in [Kinds -> Nat]
  BY DEF Spend

KindNames == "request" \in Kinds /\ "trouble" \in Kinds

LEMMA KindsOK == KindNames
  BY DEF KindNames, Kinds

\* The rest of the state is typed when the row, the jobs and the books are.
LEMMA TypeKept ==
  ASSUME TypeOK, sub' \in Row, head' \in BOOLEAN, job' \in [Workers -> Job],
         invoices' \in [Charges \cup {None} -> Nat], periods' \in [Charges -> Nat],
         contracts' \in [Contracts -> {"NONE", "CREATED", "OFFERED", "CANCELLED"}],
         charged' \in [Charges -> Contracts \cup {None}], sent' \subseteq Event,
         seen' \subseteq Event, now' \in Nat, raced' \in BOOLEAN, died' \in BOOLEAN,
         budget' \in [Kinds -> Nat]
  PROVE  TypeOK'
  BY DEF TypeOK

-----------------------------------------------------------------------------
(* How a step of one request keeps the invariant. *)

\* What a row, the books and the provider may do while a request is under way.
LEMMA MovedIInv ==
  ASSUME IInv, TypeOK', SubOK', EventsOK', OneInvoicePerCharge', ActiveContractIsPaid',
         charged' = charged, NEW w \in Workers, NEW j \in Job,
         job' = [job EXCEPT ![w] = j], JobOK(j),
         raced => raced', ~Busy(w) /\ ~raced' => \A v \in Workers : ~Busy(v),
         ~raced' => StillTrue(j, sub', invoices'),
         PeriodsOK'
  PROVE  IInv'
<1>1. job \in [Workers -> Job] /\ job'[w] = j /\ \A v \in Workers \ {w} : job'[v] = job[v]
  BY DEF IInv, TypeOK
<1>2. JobsOK'
  <2>1. \A v \in Workers : JobOK(job'[v])
    BY <1>1 DEF IInv, JobsOK
  <2> QED
    BY <2>1 DEF JobsOK, JobOK
<1>3. ASSUME ~raced'
      PROVE  \A v \in Workers \ {w} : job'[v].pc = "idle"
  <2>1. CASE Busy(w)
    BY <1>1, <1>3, <2>1 DEF IInv, Alone, Busy
  <2>2. CASE ~Busy(w)
    BY <1>1, <1>3, <2>2 DEF Busy
  <2> QED
    BY <2>1, <2>2
<1>4. Alone'
  BY <1>3 DEF Alone, Busy
<1>5. UpToDate'
  BY <1>1, <1>3 DEF UpToDate, StillTrue
<1> QED
  BY <1>2, <1>4, <1>5 DEF IInv
LEMMA PeriodsKept ==
  ASSUME IInv, NEW w \in Workers, job[w].pc # "invoice",
         raced => raced', ~Busy(w) /\ ~raced' => \A v \in Workers : ~Busy(v),
         periods' = periods, \A c \in Charges : invoices'[c] = invoices[c],
         died => died'
  PROVE  PeriodsOK'
<1>1. SUFFICES ASSUME ~raced', ~died', NEW c \in Charges
               PROVE  periods[c] <= 1 /\ (periods[c] = 1 => invoices[c] > 0)
  BY DEF PeriodsOK
<1>2. ~raced /\ ~died
  BY <1>1
<1>3. ~Booking(c)
  BY <1>1 DEF Booking, IInv, Alone, Busy, At
<1> QED
  BY <1>2, <1>3 DEF IInv, PeriodsOK

\* A step that takes no charge and writes no books.
LEMMA PlainIInv ==
  ASSUME IInv, TypeOK', SubOK', EventsOK', NEW w \in Workers, NEW j \in Job,
         job' = [job EXCEPT ![w] = j], JobOK(j), job[w].pc # "invoice",
         raced => raced', ~Busy(w) /\ ~raced' => \A v \in Workers : ~Busy(v),
         ~raced' => StillTrue(j, sub', invoices'),
         charged' = charged, periods' = periods, died => died',
         \A c \in Charges : invoices'[c] = invoices[c],
         sub' = sub \/ sub'.status # "ACTIVE" \/ sub'.contract = None
  PROVE  IInv'
<1>1. PeriodsOK'
  BY PeriodsKept
<1>2. OneInvoicePerCharge'
  BY DEF IInv, OneInvoicePerCharge
<1>3. ActiveContractIsPaid'
  BY DEF IInv, ActiveContractIsPaid, Busy
<1> QED
  BY <1>1, <1>2, <1>3, MovedIInv

\* A request starts: nothing but its slot, raced, seen and the budget change.
LEMMA BeginIInv ==
  ASSUME IInv, NEW w \in Workers, NEW j \in Job, Begin(w, j), JobOK(j), StillTrue(j, sub, invoices),
         UNCHANGED <<sub, head, invoices, provider, now, periods, died>>,
         seen' \subseteq Event, budget' \in [Kinds -> Nat]
  PROVE  IInv'
<1>1. job' = [job EXCEPT ![w] = j] /\ ~Busy(w)
  BY DEF Begin, At, Busy
<1>2. job' \in [Workers -> Job] /\ raced' \in BOOLEAN
  BY <1>1 DEF IInv, TypeOK, Begin
<1>7. raced => raced'
  BY Zenon DEF Begin
<1>8. ~raced' => \A v \in Workers : ~Busy(v)
  BY Zenon DEF Begin, At, Busy
<1>3. TypeOK'
  BY <1>2 DEF IInv, TypeOK, provider
<1>4. SubOK' /\ EventsOK'
  BY DEF IInv, SubOK, EventsOK, provider
<1>5. StillTrue(j, sub', invoices')
  BY DEF StillTrue
<1>6. job[w].pc # "invoice"
  BY <1>1 DEF Busy
<1> QED
  BY <1>1, <1>3, <1>4, <1>5, <1>6, <1>7, <1>8, PlainIInv DEF provider

\* A request ends, having written at most the row.
LEMMA EndIInv ==
  ASSUME IInv, NEW w \in Workers, End(w), Busy(w), job[w].pc # "invoice",
         UNCHANGED <<head, invoices, provider, seen, now, periods, raced>>,
         died => died', died' \in BOOLEAN, budget' \in [Kinds -> Nat],
         sub' \in Row, SubOK',
         sub' = sub \/ sub'.status # "ACTIVE" \/ sub'.contract = None
  PROVE  IInv'
<1>1. job' = [job EXCEPT ![w] = Idle] /\ Idle \in Job
  BY IdleOK DEF End
<1>2. job' \in [Workers -> Job]
  BY <1>1 DEF IInv, TypeOK
<1>3. TypeOK'
  BY <1>2 DEF IInv, TypeOK, provider
<1>4. JobOK(Idle) /\ StillTrue(Idle, sub', invoices')
  BY IdleOK DEF JobOK, StillTrue, Reporting
<1>5. EventsOK'
  BY DEF IInv, EventsOK, provider
<1>6. raced => raced'
  BY Zenon
<1> QED
  BY <1>1, <1>3, <1>4, <1>5, <1>6, PlainIInv DEF provider

-----------------------------------------------------------------------------
(* Requests that start. *)

LEMMA PcNames ==
  /\ "open" \in Pcs /\ "provision" \in Pcs /\ "bill" \in Pcs /\ "demo" \in Pcs
  /\ "newDemo" \in Pcs
  /\ "withdraw" \in Pcs /\ "cancel" \in Pcs /\ "trial" \in Pcs /\ "expire" \in Pcs
  /\ "overdue" \in Pcs /\ "lookup" \in Pcs /\ "activate" \in Pcs /\ "invoice" \in Pcs
  BY DEF Pcs

LEMMA StartIInv == ASSUME IInv, NEW w \in Workers, Start(w) PROVE IInv'
<1>1. sub \in Row /\ seen \subseteq Event /\ sent \subseteq Event /\ now \in Nat
      /\ charged \in [Charges -> Contracts \cup {None}] /\ budget \in [Kinds -> Nat]
  BY DEF IInv, TypeOK
<1>2. sub.contract \in Contracts \cup {None} /\ now + TrialDays \in Nat
  BY <1>1, BillingAssumption DEF Row
<1>3. "request" \in Kinds
  BY DEF Kinds
<1>4. ASSUME NEW self \in BOOLEAN, Subscribe(w, self)
      PROVE  IInv'
  <2> DEFINE p == IF self THEN "open" ELSE "provision"
             j == Request(p, NoRow, None, None)
  <2>1. j \in Job /\ j.pc = p /\ p \in {"open", "provision"}
    BY IdleOK, RequestOK, PcNames
  <2> HIDE DEF j
  <2>2. JobOK(j) /\ StillTrue(j, sub, invoices)
    BY <1>4, <2>1 DEF JobOK, StillTrue, Reporting, Subscribe
  <2>3. Begin(w, j) /\ budget' \in [Kinds -> Nat]
    BY <1>1, <1>3, <1>4, SpendOK DEF Subscribe, j
  <2> QED
    BY <1>1, <1>4, <2>1, <2>2, <2>3, BeginIInv DEF Subscribe
<1>5. CASE GrantDemo(w)
  <2> DEFINE p == IF sub.status = "NONE" THEN "newDemo" ELSE "demo"
             j == Request(p, NoRow, None, None)
  <2>1. j \in Job /\ j.pc = p /\ p \in {"demo", "newDemo"}
    BY IdleOK, RequestOK, PcNames
  <2> HIDE DEF j
  <2>2. JobOK(j) /\ StillTrue(j, sub, invoices)
    BY <2>1 DEF JobOK, StillTrue, Reporting
  <2>3. Begin(w, j) /\ budget' \in [Kinds -> Nat]
    BY <1>1, <1>3, <1>5, SpendOK DEF GrantDemo, j
  <2> QED
    BY <1>1, <1>5, <2>1, <2>2, <2>3, BeginIInv DEF GrantDemo
<1>6. CASE Cancel(w)
  <2> DEFINE p == IF sub.contract = None THEN "cancel" ELSE "withdraw"
             j == Request(p, NoRow, sub.contract, None)
  <2>1. j \in Job /\ j.pc = p /\ p \in {"cancel", "withdraw"} /\ j.contract = sub.contract
    BY <1>2, IdleOK, RequestOK, PcNames
  <2>2. p = "withdraw" => sub.contract \in Contracts
    BY <1>2
  <2> HIDE DEF j
  <2>3. JobOK(j) /\ StillTrue(j, sub, invoices)
    BY <2>1, <2>2 DEF JobOK, StillTrue, Reporting
  <2>4. Begin(w, j) /\ budget' \in [Kinds -> Nat]
    BY <1>1, <1>3, <1>6, SpendOK DEF Cancel, j
  <2> QED
    BY <1>1, <1>6, <2>1, <2>3, <2>4, BeginIInv DEF Cancel
<1>7. CASE SetTrialEnd(w)
  <2> DEFINE row == SubRow("TRIAL", sub.contract, now + TrialDays)
             j == Request("trial", row, None, None)
  <2>1. row \in Row /\ row.end = now + TrialDays
    BY <1>2, RowOK DEF Statuses, Times
  <2> HIDE DEF row
  <2>2. j \in Job /\ j.pc = "trial" /\ j.read = row
    BY <2>1, RequestOK, PcNames
  <2> HIDE DEF j
  <2>3. JobOK(j) /\ StillTrue(j, sub, invoices)
    BY <1>2, <1>7, <2>1, <2>2 DEF JobOK, StillTrue, Reporting, SetTrialEnd
  <2>4. Begin(w, j) /\ budget' \in [Kinds -> Nat]
    BY <1>1, <1>3, <1>7, SpendOK DEF SetTrialEnd, j, row
  <2> QED
    BY <1>1, <1>7, <2>2, <2>3, <2>4, BeginIInv DEF SetTrialEnd
<1>8. CASE EndTrial(w) \/ Sweep(w)
  <2> DEFINE j == Request("expire", NoRow, None, None)
  <2>1. j \in Job /\ j.pc = "expire"
    BY IdleOK, RequestOK, PcNames
  <2> HIDE DEF j
  <2>2. JobOK(j) /\ StillTrue(j, sub, invoices)
    BY <1>8, <2>1 DEF JobOK, StillTrue, Reporting, EndTrial, Sweep, Lapsed
  <2>3. Begin(w, j) /\ budget' \in [Kinds -> Nat]
    BY <1>1, <1>3, <1>8, SpendOK DEF EndTrial, Sweep, j
  <2> QED
    BY <1>1, <1>8, <2>1, <2>2, <2>3, BeginIInv DEF EndTrial, Sweep
<1>9. ASSUME NEW c \in Charges, Confirm(w, c)
      PROVE  IInv'
  <2> DEFINE j == Request("lookup", sub, charged[c], c)
  <2>1. charged[c] \in Contracts /\ sub.contract = charged[c]
    BY <1>1, <1>9 DEF Confirm, Mine
  <2>2. j \in Job /\ j.pc = "lookup" /\ j.contract = charged[c] /\ j.charge = c
    BY <1>1, <2>1, RequestOK, PcNames
  <2> HIDE DEF j
  <2>3. JobOK(j) /\ StillTrue(j, sub, invoices)
    BY <2>1, <2>2 DEF JobOK, StillTrue, Reporting
  <2>4. Begin(w, j) /\ budget' \in [Kinds -> Nat]
    BY <1>1, <1>3, <1>9, SpendOK DEF Confirm, j
  <2> QED
    BY <1>1, <1>9, <2>2, <2>3, <2>4, BeginIInv DEF Confirm
<1>10. ASSUME NEW e \in sent, RecordEvent(w, e)
       PROVE  IInv'
  <2> DEFINE j == Request(e.type, NoRow, e.contract, e.charge)
  <2>1. e \in Event
    BY <1>1
  <2>2. e.type \in Notices /\ e.type \in Pcs /\ e.contract \in Contracts
        /\ e.charge \in Charges \cup {None}
    BY <2>1 DEF Event, Pcs
  <2>3. j \in Job /\ j.pc = e.type /\ j.contract = e.contract /\ j.charge = e.charge
    BY <2>2, IdleOK, RequestOK
  <2> HIDE DEF j
  <2>4. JobOK(j)
    BY <2>2, <2>3 DEF JobOK, Reporting, Notices, IInv, EventsOK
  <2>5. StillTrue(j, sub, invoices)
    BY <2>2, <2>3 DEF StillTrue, Notices
  <2>6. Begin(w, j) /\ budget' \in [Kinds -> Nat] /\ seen' \subseteq Event
    BY <1>1, <1>10, <2>1 DEF RecordEvent, j
  <2> QED
    BY <1>10, <2>3, <2>4, <2>5, <2>6, BeginIInv DEF RecordEvent
<1> QED
  BY <1>4, <1>5, <1>6, <1>7, <1>8, <1>9, <1>10 DEF Start
-----------------------------------------------------------------------------
(* Steps of a request under way. *)

\* The slot goes on to another statement; provider, books and row may change
\* with it.
LEMMA GoesOnIInv ==
  ASSUME IInv, NEW w \in Workers, Busy(w), NEW j \in Job, job' = [job EXCEPT ![w] = j],
         JobOK(j), job[w].pc # "invoice", ~raced => StillTrue(j, sub', invoices'),
         UNCHANGED <<head, charged, seen, now, periods, raced, died, budget>>,
         \A c \in Charges : invoices'[c] = invoices[c], UNCHANGED invoices,
         contracts' \in [Contracts -> {"NONE", "CREATED", "OFFERED", "CANCELLED"}],
         sent' \subseteq Event, \A e \in sent' : e \in sent \/ e.type # "charged",
         sub' \in Row, SubOK',
         sub' = sub \/ sub'.status # "ACTIVE" \/ sub'.contract = None
  PROVE  IInv'
<1>1. job' \in [Workers -> Job]
  BY DEF IInv, TypeOK
<1>2. TypeOK'
  BY <1>1 DEF IInv, TypeOK
<1>3. EventsOK'
  BY DEF IInv, EventsOK
<1>4. raced => raced'
  BY Zenon
<1>5. ~raced' => StillTrue(j, sub', invoices')
  BY Zenon
<1> QED
  BY <1>2, <1>3, <1>4, <1>5, PlainIInv

LEMMA OpenContractIInv == ASSUME IInv, NEW w \in Workers, OpenContract(w) PROVE IInv'
<1>1. job[w] \in Job /\ job[w].pc = "open" /\ Busy(w) /\ sub \in Row /\ budget \in [Kinds -> Nat]
      /\ contracts \in [Contracts -> {"NONE", "CREATED", "OFFERED", "CANCELLED"}]
      /\ died \in BOOLEAN /\ sent \subseteq Event
  BY DEF IInv, TypeOK, OpenContract, At, Busy
<1>2. CASE End(w) /\ UNCHANGED contracts
  <2>1. SubOK'
    BY DEF IInv, SubOK, OpenContract
  <2> QED
    BY <1>1, <1>2, <2>1, EndIInv DEF OpenContract, provider
<1>3. ASSUME NEW r \in Contracts, contracts[r] = "NONE",
             contracts' = [contracts EXCEPT ![r] = "CREATED"],
             job' = [job EXCEPT ![w].pc = "provision", ![w].contract = r]
      PROVE  IInv'
  <2> DEFINE j == [job[w] EXCEPT !.pc = "provision", !.contract = r]
  <2>1. j \in Job /\ j.pc = "provision"
    BY <1>1, PcNames DEF Job
  <2>2. job' = [job EXCEPT ![w] = j]
    BY <1>3
  <2> HIDE DEF j
  <2>3. JobOK(j)
    BY <2>1 DEF JobOK, Reporting
  <2>4. ~raced => StillTrue(j, sub', invoices')
    BY <1>1, <2>1 DEF StillTrue, IInv, UpToDate, OpenContract
  <2>5. SubOK'
    BY DEF IInv, SubOK, OpenContract
  <2>6. contracts' \in [Contracts -> {"NONE", "CREATED", "OFFERED", "CANCELLED"}]
    BY <1>1, <1>3
  <2> QED
    BY <1>1, <2>1, <2>2, <2>3, <2>4, <2>5, <2>6, GoesOnIInv DEF OpenContract
<1> QED
  BY <1>2, <1>3 DEF OpenContract

LEMMA ProvisionIInv == ASSUME IInv, NEW w \in Workers, Provision(w) PROVE IInv'
<1> DEFINE r == job[w].contract
           row == SubRow(ProvisionedStatus(r), r, IF r = None THEN now + Cycle ELSE None)
           j == IF r = None THEN [job[w] EXCEPT !.pc = "bill"] ELSE Idle
<1>1. job[w] \in Job /\ job[w].pc = "provision" /\ Busy(w) /\ now \in Nat
      /\ contracts \in [Contracts -> {"NONE", "CREATED", "OFFERED", "CANCELLED"}]
  BY DEF IInv, TypeOK, Provision, At, Busy
<1>2. r \in Contracts \cup {None} /\ now + Cycle \in Times /\ None \in Times
  BY <1>1, BillingAssumption DEF Job, Times
<1>3. ProvisionedStatus(r) \in Statuses
  BY DEF ProvisionedStatus, Statuses
<1>4. row \in Row /\ row.status = ProvisionedStatus(r) /\ row.contract = r
  BY <1>2, <1>3, RowOK
<1>5. sub' = row
  BY DEF Provision
<1> HIDE DEF row
<1>6. SubOK' /\ sub' \in Row /\ (sub'.status # "ACTIVE" \/ sub'.contract = None)
  BY <1>4, <1>5 DEF SubOK, ProvisionedStatus
<1>7. j \in Job /\ job' = [job EXCEPT ![w] = j] /\ j.pc \in {"bill", "idle"}
  BY <1>1, PcNames, IdleOK DEF Job, Provision, Goto, End
<1> HIDE DEF j
<1>8. JobOK(j) /\ StillTrue(j, sub', invoices')
  BY <1>7 DEF JobOK, StillTrue, Reporting
<1>9. contracts' \in [Contracts -> {"NONE", "CREATED", "OFFERED", "CANCELLED"}]
  BY <1>1 DEF Provision
<1> QED
  BY <1>1, <1>6, <1>7, <1>8, <1>9, GoesOnIInv DEF Provision, IInv, TypeOK

LEMMA BillGrantIInv == ASSUME IInv, NEW w \in Workers, BillGrant(w) PROVE IInv'
<1>1. job[w].pc = "bill" /\ Busy(w) /\ sub' = sub /\ job' = [job EXCEPT ![w] = Idle]
  BY DEF BillGrant, At, Busy, End
<1>2. invoices \in [Charges \cup {None} -> Nat] /\ invoices' = [invoices EXCEPT ![None] = @ + 1]
  BY DEF IInv, TypeOK, BillGrant
<1>3. invoices' \in [Charges \cup {None} -> Nat] /\ \A c \in Charges : invoices'[c] = invoices[c]
  BY <1>2, BillingAssumption
<1>4. TypeOK'
  BY <1>1, <1>3, IdleOK DEF IInv, TypeOK, BillGrant, provider
<1>5. SubOK' /\ EventsOK'
  BY <1>1 DEF IInv, SubOK, EventsOK, BillGrant, provider
<1>6. JobOK(Idle) /\ StillTrue(Idle, sub', invoices')
  BY IdleOK DEF JobOK, StillTrue, Reporting
<1>7. raced => raced'
  BY Zenon DEF BillGrant
<1> QED
  BY <1>1, <1>3, <1>4, <1>5, <1>6, <1>7, IdleOK, PlainIInv DEF BillGrant, provider

\* The writes of a row, each of which ends its request.
LEMMA RowWriteIInv ==
  ASSUME IInv, NEW w \in Workers,
         DemoWrite(w) \/ CancelWrite(w) \/ TrialWrite(w) \/ Expire(w) \/ Overdue(w)
  PROVE  IInv'
<1>1. sub \in Row /\ now \in Nat /\ died \in BOOLEAN /\ budget \in [Kinds -> Nat]
  BY DEF IInv, TypeOK
<1>2. End(w) /\ Busy(w) /\ job[w].pc # "invoice"
      /\ UNCHANGED <<head, invoices, provider, seen, now, periods, raced, died, budget>>
  BY DEF DemoWrite, CancelWrite, TrialWrite, Expire, Overdue, Busy, At
<1>3. CASE DemoWrite(w)
  <2>1. Horizon + 1 \in Times /\ "ACTIVE" \in Statuses
    BY BillingAssumption DEF Times, Statuses
  <2>2. SubRow("ACTIVE", None, Horizon + 1) \in Row
    BY <2>1, RowOK
  <2>3. sub' = sub \/ sub' = SubRow("ACTIVE", None, Horizon + 1)
    BY <1>3 DEF DemoWrite
  <2>4. sub' = sub \/ (sub'.status = "ACTIVE" /\ sub'.contract = None)
    BY <2>3 DEF SubRow
  <2>5. sub' \in Row /\ SubOK'
    BY <1>1, <2>2, <2>3, <2>4 DEF SubOK, IInv
  <2> QED
    BY <1>1, <1>2, <2>4, <2>5, EndIInv
<1>4. CASE CancelWrite(w) \/ Expire(w) \/ Overdue(w)
  <2>1. sub' \in Row /\ sub'.status \in {"CANCELED", "EXPIRED", "PAST_DUE"}
    BY <1>1, <1>4 DEF CancelWrite, Expire, Overdue, Row, Statuses
  <2> QED
    BY <1>1, <1>2, <2>1, EndIInv DEF SubOK
<1>5. CASE TrialWrite(w)
  <2>1. job[w].read.end \in Nat
    BY <1>5 DEF IInv, JobsOK, JobOK, TrialWrite, At
  <2>2. sub' \in Row /\ sub'.status = "TRIAL" /\ sub'.end \in Nat
    BY <1>1, <1>5, <2>1 DEF TrialWrite, Row, Statuses, Times
  <2> QED
    BY <1>1, <1>2, <2>2, EndIInv DEF SubOK
<1> QED
  BY <1>3, <1>4, <1>5

LEMMA WithdrawIInv == ASSUME IInv, NEW w \in Workers, Withdraw(w) PROVE IInv'
<1> DEFINE j == [job[w] EXCEPT !.pc = "cancel"]
           n == Notice("cancelled", job[w].contract, None)
<1>1. job[w] \in Job /\ job[w].pc = "withdraw" /\ Busy(w) /\ JobOK(job[w])
      /\ contracts \in [Contracts -> {"NONE", "CREATED", "OFFERED", "CANCELLED"}]
      /\ sent \subseteq Event /\ sub \in Row
  BY DEF IInv, TypeOK, JobsOK, Withdraw, At, Busy
<1>2. job[w].contract \in Contracts
  BY <1>1 DEF JobOK
<1>3. n \in Event /\ n.type # "charged"
  BY <1>2 DEF Event, Notice, Notices
<1>4. sent' \subseteq sent \cup {n}
      /\ contracts' \in [Contracts -> {"NONE", "CREATED", "OFFERED", "CANCELLED"}]
  BY <1>1 DEF Withdraw, CancelContract
<1> HIDE DEF n
<1>5. j \in Job /\ j.pc = "cancel" /\ job' = [job EXCEPT ![w] = j]
  BY <1>1, PcNames DEF Job, Withdraw, Goto
<1> HIDE DEF j
<1>6. JobOK(j) /\ StillTrue(j, sub', invoices')
  BY <1>5 DEF JobOK, StillTrue, Reporting
<1>7. SubOK' /\ sub' = sub
  BY DEF IInv, SubOK, Withdraw
<1> QED
  BY <1>1, <1>3, <1>4, <1>5, <1>6, <1>7, GoesOnIInv DEF Withdraw

LEMMA FindRowIInv == ASSUME IInv, NEW w \in Workers, FindRow(w) PROVE IInv'
<1> DEFINE p == AfterEvent(job[w].pc)
           row == IF job[w].pc = "charged" THEN sub ELSE NoRow
           j == [job[w] EXCEPT !.pc = p, !.read = row]
<1>1. job[w] \in Job /\ job[w].pc \in Notices /\ JobOK(job[w]) /\ sub \in Row
      /\ died \in BOOLEAN /\ budget \in [Kinds -> Nat] /\ sent \subseteq Event
      /\ contracts \in [Contracts -> {"NONE", "CREATED", "OFFERED", "CANCELLED"}]
  BY DEF IInv, TypeOK, JobsOK, FindRow
<1>2. Busy(w) /\ job[w].pc # "invoice" /\ SubOK' /\ sub' = sub
  BY <1>1 DEF Busy, Notices, FindRow, IInv, SubOK
<1>3. CASE End(w)
  BY <1>1, <1>2, <1>3, EndIInv DEF FindRow
<1>4. CASE ~End(w)
  <2>1. Mine(job[w].contract) /\ p # "idle"
        /\ job' = [job EXCEPT ![w].pc = p, ![w].read = row]
    BY <1>4 DEF FindRow
  <2>2. p \in {"lookup", "cancel", "overdue"} /\ (p = "lookup" => job[w].pc = "charged")
    BY <1>1, <2>1 DEF AfterEvent, Notices
  <2>3. p \in Pcs /\ row \in Row
    BY <1>1, <2>2, IdleOK, PcNames
  <2> HIDE DEF p, row
  <2>4. j \in Job /\ j.pc = p /\ j.contract = job[w].contract /\ j.charge = job[w].charge
        /\ job' = [job EXCEPT ![w] = j]
    <3>1. j \in Job /\ j.pc = p /\ j.contract = job[w].contract /\ j.charge = job[w].charge
      BY <1>1, <2>3 DEF Job
    <3>2. job \in [Workers -> Job]
      BY DEF IInv, TypeOK
    <3>3. job' = [job EXCEPT ![w] = j]
      BY <2>1, <3>2
    <3> QED
      BY <3>1, <3>3
  <2> HIDE DEF j
  <2>5. JobOK(j)
    BY <1>1, <2>2, <2>4 DEF JobOK, Reporting
  <2>6. StillTrue(j, sub', invoices')
    BY <1>2, <2>1, <2>2, <2>4 DEF StillTrue, Mine
  <2> QED
    BY <1>1, <1>2, <2>4, <2>5, <2>6, GoesOnIInv DEF FindRow, provider
<1> QED
  BY <1>3, <1>4

LEMMA LookUpIInv == ASSUME IInv, NEW w \in Workers, LookUp(w) PROVE IInv'
<1>1. job[w] \in Job /\ job[w].pc = "lookup" /\ Busy(w) /\ JobOK(job[w]) /\ sub \in Row
      /\ died \in BOOLEAN /\ budget \in [Kinds -> Nat] /\ sent \subseteq Event
      /\ contracts \in [Contracts -> {"NONE", "CREATED", "OFFERED", "CANCELLED"}]
      /\ invoices \in [Charges \cup {None} -> Nat]
  BY DEF IInv, TypeOK, JobsOK, LookUp, At, Busy
<1>2. SubOK' /\ sub' = sub
  BY DEF LookUp, IInv, SubOK
<1>3. job[w].charge \in Charges /\ job[w].contract \in Contracts
      /\ charged[job[w].charge] = job[w].contract
  BY <1>1 DEF JobOK, Reporting
<1>4. CASE End(w)
  BY <1>1, <1>2, <1>4, EndIInv DEF LookUp
<1>5. CASE ~Recorded(job[w].charge) /\ Invoice(w)
  <2> DEFINE j == [job[w] EXCEPT !.pc = "invoice", !.read = NoRow]
  <2>1. j \in Job /\ j.pc = "invoice" /\ j.charge = job[w].charge /\ job' = [job EXCEPT ![w] = j]
    BY <1>1, <1>5, PcNames, IdleOK DEF Job, Invoice
  <2> HIDE DEF j
  <2>2. JobOK(j) /\ StillTrue(j, sub', invoices')
    BY <1>3, <2>1 DEF JobOK, StillTrue, Reporting
  <2> QED
    BY <1>1, <1>2, <2>1, <2>2, GoesOnIInv DEF LookUp, provider
<1>6. CASE ~Recorded(job[w].charge) /\ Goto(w, "activate")
  <2> DEFINE j == [job[w] EXCEPT !.pc = "activate"]
  <2>1. j \in Job /\ j.pc = "activate" /\ j.charge = job[w].charge
        /\ j.contract = job[w].contract /\ job' = [job EXCEPT ![w] = j]
    BY <1>1, <1>6, PcNames DEF Job, Goto
  <2> HIDE DEF j
  <2>2. JobOK(j)
    BY <1>3, <2>1 DEF JobOK, Reporting
  <2>3. invoices[job[w].charge] = 0
    BY <1>1, <1>3, <1>6 DEF Recorded
  <2>4. ~raced => StillTrue(j, sub', invoices')
    BY <1>1, <2>1, <2>3 DEF StillTrue, IInv, UpToDate, LookUp
  <2> QED
    BY <1>1, <1>2, <2>1, <2>2, <2>4, GoesOnIInv DEF LookUp, provider
<1> QED
  BY <1>4, <1>5, <1>6 DEF LookUp, Extra
\* A charge that is activated is not on the books and has bought no period yet.
LEMMA ActivateIInv == ASSUME IInv, NEW w \in Workers, Activate(w) PROVE IInv'
<1> DEFINE c == job[w].charge
           from == IF job[w].read.end = None THEN now ELSE job[w].read.end
           j == [job[w] EXCEPT !.pc = "invoice", !.read = NoRow]
<1>1. job[w] \in Job /\ job[w].pc = "activate" /\ Busy(w) /\ JobOK(job[w]) /\ sub \in Row
      /\ now \in Nat /\ periods \in [Charges -> Nat] /\ job[w].read \in Row
  BY DEF IInv, TypeOK, JobsOK, Activate, At, Busy, Job
<1>2. c \in Charges /\ charged[c] = job[w].contract /\ job[w].contract \in Contracts
  BY <1>1 DEF JobOK, Reporting
<1>3. from + Cycle \in Times
  BY <1>1, BillingAssumption DEF Row, Times
<1>4. sub' = [sub EXCEPT !.status = "ACTIVE", !.end = from + Cycle]
      /\ periods' = [periods EXCEPT ![c] = @ + 1] /\ Invoice(w)
      /\ UNCHANGED <<head, invoices, provider, seen, now, raced, died, budget>>
  BY DEF Activate
<1> HIDE DEF from, c
<1>5. sub' \in Row /\ sub'.status = "ACTIVE" /\ sub'.contract = sub.contract
  BY <1>1, <1>3, <1>4 DEF Row, Statuses
<1>6. j \in Job /\ j.pc = "invoice" /\ j.charge = c /\ job' = [job EXCEPT ![w] = j]
  BY <1>1, <1>4, PcNames, IdleOK DEF Job, Invoice, c
<1> HIDE DEF j
<1>7. job' \in [Workers -> Job] /\ job'[w] = j
  BY <1>6 DEF IInv, TypeOK
<1>8. periods' \in [Charges -> Nat]
  BY <1>1, <1>2, <1>4
<1>9. TypeOK'
  BY <1>4, <1>5, <1>7, <1>8 DEF IInv, TypeOK, provider
<1>10. SubOK' /\ EventsOK' /\ OneInvoicePerCharge'
  BY <1>4, <1>5 DEF IInv, SubOK, EventsOK, OneInvoicePerCharge, provider
<1>11. raced => raced'
  BY <1>4, Zenon
<1>12. ~raced' => sub.contract = job[w].contract /\ invoices[c] = 0
  BY <1>1, <1>4 DEF IInv, UpToDate, StillTrue, c
<1>13. ActiveContractIsPaid'
  BY <1>2, <1>4, <1>5, <1>12 DEF ActiveContractIsPaid, provider
<1>14. PeriodsOK'
  <2>1. SUFFICES ASSUME ~raced', ~died', NEW d \in Charges
                 PROVE  periods'[d] <= 1 /\ (periods'[d] = 1 => invoices'[d] > 0 \/ Booking(d)')
    BY DEF PeriodsOK
  <2>2. ~raced /\ ~died
    BY <1>4, <2>1
  <2>3. ~Booking(d)
    BY <1>1, <2>2 DEF Booking, IInv, Alone, Busy, At
  <2>4. periods[d] <= 1 /\ (periods[d] = 1 => invoices[d] > 0) /\ periods[d] \in Nat
    BY <1>1, <2>2, <2>3 DEF IInv, PeriodsOK
  <2>5. CASE d = c
    <3>1. periods[d] = 0
      BY <1>4, <1>12, <2>1, <2>4, <2>5
    <3>2. periods'[d] = 1
      BY <1>1, <1>4, <2>5, <3>1
    <3>3. Booking(d)'
      BY <1>6, <1>7, <2>5 DEF Booking, At
    <3> QED
      BY <3>2, <3>3
  <2>6. CASE d # c
    BY <1>1, <1>4, <2>4, <2>6
  <2> QED
    BY <2>5, <2>6
<1>15. JobOK(j) /\ StillTrue(j, sub', invoices')
  BY <1>2, <1>6 DEF JobOK, StillTrue, Reporting
<1> QED
  BY <1>1, <1>4, <1>6, <1>9, <1>10, <1>11, <1>13, <1>14, <1>15, MovedIInv DEF provider

LEMMA RecordChargeIInv == ASSUME IInv, NEW w \in Workers, RecordCharge(w) PROVE IInv'
<1> DEFINE c == job[w].charge
<1>1. job[w].pc = "invoice" /\ Busy(w) /\ JobOK(job[w])
      /\ invoices \in [Charges \cup {None} -> Nat] /\ periods \in [Charges -> Nat]
  BY DEF IInv, TypeOK, JobsOK, RecordCharge, At, Busy
<1>2. c \in Charges
  BY <1>1 DEF JobOK, Reporting
<1>3. /\ invoices' = IF Taken(c) THEN invoices ELSE [invoices EXCEPT ![c] = @ + 1]
      /\ job' = [job EXCEPT ![w] = Idle]
      /\ UNCHANGED <<sub, head, provider, seen, now, periods, raced, died, budget>>
  BY DEF RecordCharge, End
<1> HIDE DEF c
<1>4. /\ invoices' \in [Charges \cup {None} -> Nat] /\ invoices'[c] > 0
      /\ \A d \in Charges : invoices'[d] = invoices[d] \/ (d = c /\ invoices'[d] = 1)
      /\ \A d \in Charges : invoices'[d] >= invoices[d]
  <2> DEFINE Books == Charges \cup {None}
  <2>3. invoices \in [Books -> Nat] /\ c \in Books /\ \A d \in Charges : invoices[d] \in Nat
    BY <1>1, <1>2
  <2> HIDE DEF Books
  <2>1. CASE Taken(c)
    <3>1. invoices' = invoices /\ invoices[c] > 0
      BY <1>3, <2>1 DEF Taken
    <3> QED
      BY <1>1, <2>3, <3>1
  <2>2. CASE ~Taken(c)
    <3>1. invoices[c] = 0
      BY <1>1, <1>2, <2>2 DEF Taken
    <3>2. invoices' = [invoices EXCEPT ![c] = 1]
      BY <1>3, <2>2, <3>1
    <3>3. invoices' \in [Books -> Nat]
      BY <2>3, <3>2
    <3>4. \A d \in Charges : IF d = c THEN invoices'[d] = 1 ELSE invoices'[d] = invoices[d]
      BY <1>1, <3>2
    <3> QED
      BY <1>2, <2>3, <3>1, <3>3, <3>4 DEF Books
  <2> QED
    BY <2>1, <2>2
<1>5. job' \in [Workers -> Job]
  BY <1>3, IdleOK DEF IInv, TypeOK
<1>6. TypeOK'
  BY <1>3, <1>4, <1>5 DEF IInv, TypeOK, provider
<1>7. SubOK' /\ EventsOK' /\ ActiveContractIsPaid' /\ OneInvoicePerCharge'
  BY <1>3, <1>4 DEF IInv, SubOK, EventsOK, ActiveContractIsPaid, OneInvoicePerCharge, provider
<1>8. raced => raced'
  BY <1>3, Zenon
<1>9. PeriodsOK'
  <2>1. SUFFICES ASSUME ~raced', ~died', NEW d \in Charges
                 PROVE  periods'[d] <= 1 /\ (periods'[d] = 1 => invoices'[d] > 0)
    BY DEF PeriodsOK
  <2>2. ~raced /\ ~died
    BY <1>3, <2>1
  <2>3. Booking(d) => d = c
    BY <1>1, <2>2 DEF Booking, IInv, Alone, Busy, At, c
  <2>4. periods[d] <= 1 /\ (periods[d] = 1 => invoices[d] > 0 \/ Booking(d))
    BY <2>2 DEF IInv, PeriodsOK
  <2>5. invoices[d] \in Nat /\ invoices'[d] \in Nat /\ invoices'[d] >= invoices[d]
    BY <1>1, <1>4
  <2> QED
    BY <1>3, <1>4, <2>3, <2>4, <2>5
<1>10. JobOK(Idle) /\ StillTrue(Idle, sub', invoices')
  BY IdleOK DEF JobOK, StillTrue, Reporting
<1> QED
  BY <1>1, <1>3, <1>6, <1>7, <1>8, <1>9, <1>10, IdleOK, MovedIInv DEF provider

LEMMA AbortIInv == ASSUME IInv, NEW w \in Workers, Abort(w) PROVE IInv'
<1>1. job' = [job EXCEPT ![w] = Idle] /\ Busy(w) /\ died' = TRUE
      /\ UNCHANGED <<sub, head, invoices, provider, seen, now, periods, raced>>
  BY DEF Abort, End, At, Busy
<1>2. budget' \in [Kinds -> Nat]
  <2>1. Spend("trouble") /\ "trouble" \in Kinds /\ budget \in [Kinds -> Nat]
    BY DEF Abort, Kinds, IInv, TypeOK
  <2> QED
    BY <2>1, SpendOK
<1>3. job' \in [Workers -> Job]
  BY <1>1, IdleOK DEF IInv, TypeOK
<1>4. TypeOK'
  BY <1>1, <1>2, <1>3 DEF IInv, TypeOK, provider
<1>5. SubOK' /\ EventsOK' /\ ActiveContractIsPaid' /\ OneInvoicePerCharge'
  BY <1>1 DEF IInv, SubOK, EventsOK, ActiveContractIsPaid, OneInvoicePerCharge, provider
<1>6. PeriodsOK'
  BY <1>1 DEF PeriodsOK
<1>7. raced => raced'
  BY <1>1, Zenon
<1>8. JobOK(Idle) /\ StillTrue(Idle, sub', invoices')
  BY IdleOK DEF JobOK, StillTrue, Reporting
<1> QED
  BY <1>1, <1>4, <1>5, <1>6, <1>7, <1>8, IdleOK, MovedIInv DEF provider
-----------------------------------------------------------------------------
(* The world: the first Head, the clock and the provider. *)

LEMMA WorldIInv ==
  ASSUME IInv, TypeOK', SubOK', EventsOK',
         UNCHANGED <<invoices, job, periods, raced>>, died => died',
         \A c \in Charges : charged[c] # None => charged'[c] = charged[c],
         sub' = sub \/ (sub = NoRow /\ sub'.status = "TRIAL")
  PROVE  IInv'
<1>1. ASSUME NEW w \in Workers
      PROVE  JobOK(job[w])'
  <2>1. JobOK(job[w]) /\ job'[w] = job[w]
    BY DEF IInv, JobsOK
  <2>2. job[w].pc \in Reporting \ {"invoice"} => charged[job[w].charge] # None
    BY <2>1, BillingAssumption DEF JobOK, Reporting
  <2> QED
    BY <2>1, <2>2 DEF JobOK, Reporting
<1>2. UpToDate'
  <2>1. SUFFICES ASSUME ~raced', NEW w \in Workers
                 PROVE  StillTrue(job[w], sub', invoices)
    BY DEF UpToDate
  <2>2. ~raced
    BY <2>1
  <2>3. StillTrue(job[w], sub, invoices) /\ JobOK(job[w])
    BY <2>2 DEF IInv, UpToDate, JobsOK
  <2>4. CASE sub' = sub
    BY <2>3, <2>4
  <2>5. CASE sub = NoRow /\ sub'.status = "TRIAL"
    <3>1. sub.contract = None /\ sub.status = "NONE"
      BY <2>5 DEF NoRow, SubRow
    <3> QED
      BY <2>3, <2>5, <3>1, BillingAssumption DEF StillTrue, JobOK, Reporting
  <2> QED
    BY <2>4, <2>5
<1>3. ActiveContractIsPaid'
  <2>1. SUFFICES ASSUME ~raced', sub'.status = "ACTIVE", sub'.contract # None
                 PROVE  \E c \in Charges : charged'[c] = sub'.contract
    BY DEF ActiveContractIsPaid
  <2>2. ~raced /\ sub' = sub
    BY <2>1
  <2> QED
    BY <2>1, <2>2 DEF IInv, ActiveContractIsPaid
<1>4. PeriodsOK' /\ Alone' /\ OneInvoicePerCharge'
  BY DEF IInv, PeriodsOK, Booking, At, Alone, Busy, OneInvoicePerCharge
<1> QED
  BY <1>1, <1>2, <1>3, <1>4 DEF IInv, JobsOK

LEMMA HeadAcceptsIInv == ASSUME IInv, HeadAccepts PROVE IInv'
<1> DEFINE row == SubRow("TRIAL", None, now + TrialDays)
<1>1. now + TrialDays \in Nat /\ sub \in Row
  BY BillingAssumption DEF IInv, TypeOK
<1>2. row \in Row /\ row.status = "TRIAL" /\ row.end \in Nat
  BY <1>1, RowOK DEF Statuses, Times
<1>3. sub' = IF sub.status = "NONE" THEN row ELSE sub
  BY DEF HeadAccepts
<1> HIDE DEF row
<1>4. TypeOK'
  BY <1>1, <1>2, <1>3 DEF IInv, TypeOK, HeadAccepts, provider
<1>5. SubOK' /\ (sub' = sub \/ (sub = NoRow /\ sub'.status = "TRIAL"))
  BY <1>2, <1>3 DEF IInv, SubOK
<1>6. EventsOK'
  BY DEF IInv, EventsOK, HeadAccepts, provider
<1> QED
  BY <1>4, <1>5, <1>6, WorldIInv DEF HeadAccepts, provider

LEMMA ProviderIInv ==
  ASSUME IInv, Tick \/ (\E r \in Contracts : MissPayment(r) \/ DropContract(r))
  PROVE  IInv'
<1>1. SubOK' /\ sub' = sub
  BY DEF IInv, SubOK, Tick, MissPayment, DropContract
<1>2. charged' = charged /\ UNCHANGED <<invoices, job, periods, raced, died>>
  BY DEF Tick, MissPayment, DropContract, provider
<1>3. sent' \subseteq Event /\ \A e \in sent' : e \in sent \/ e.type # "charged"
  <2>1. ASSUME NEW r \in Contracts
        PROVE  /\ Notice("pending", r, None) \in Event /\ Notice("cancelled", r, None) \in Event
               /\ Notice("pending", r, None).type # "charged"
               /\ Notice("cancelled", r, None).type # "charged"
    BY DEF Notice, Event, Notices
  <2>2. sent \subseteq Event
    BY DEF IInv, TypeOK
  <2> QED
    BY <2>1, <2>2 DEF Tick, MissPayment, DropContract, CancelContract, provider
<1>4. EventsOK'
  BY <1>2, <1>3 DEF IInv, EventsOK
<1>5. contracts' \in [Contracts -> {"NONE", "CREATED", "OFFERED", "CANCELLED"}]
  BY DEF IInv, TypeOK, Tick, MissPayment, DropContract, CancelContract, provider
<1>6. budget' \in [Kinds -> Nat]
  <2>1. budget \in [Kinds -> Nat] /\ "trouble" \in Kinds
    BY DEF IInv, TypeOK, Kinds
  <2> QED
    BY <2>1, SpendOK DEF Tick, MissPayment, DropContract
<1>7. now' \in Nat /\ head' = head /\ seen' = seen
  BY DEF IInv, TypeOK, Tick, MissPayment, DropContract
<1>8. TypeOK'
  BY <1>1, <1>2, <1>3, <1>5, <1>6, <1>7 DEF IInv, TypeOK
<1> QED
  BY <1>1, <1>2, <1>4, <1>8, WorldIInv

\* A lost event: it is not sent again.
LEMMA InsertFailsIInv == ASSUME IInv, NEW e \in sent, InsertFails(e) PROVE IInv'
<1>1. /\ sent' = sent \ {e} /\ died' = TRUE
      /\ UNCHANGED <<sub, head, invoices, contracts, charged, seen, now, job, periods, raced>>
  BY DEF InsertFails
<1>2. budget' \in [Kinds -> Nat]
  <2>1. Spend("trouble") /\ "trouble" \in Kinds /\ budget \in [Kinds -> Nat]
    BY DEF InsertFails, Kinds, IInv, TypeOK
  <2> QED
    BY <2>1, SpendOK
<1>3. TypeOK'
  BY <1>1, <1>2 DEF IInv, TypeOK
<1>4. SubOK' /\ EventsOK'
  BY <1>1 DEF IInv, SubOK, EventsOK
<1> QED
  BY <1>1, <1>3, <1>4, WorldIInv

LEMMA ChargeIInv ==
  ASSUME IInv, NEW c \in Charges, NEW r \in Contracts, Charge(c, r)
  PROVE  IInv'
<1> DEFINE n == Notice("charged", r, c)
<1>1. n \in Event /\ n.type = "charged" /\ n.contract = r /\ n.charge = c
  BY DEF Notice, Event, Notices
<1> HIDE DEF n
<1>2. /\ charged[c] = None /\ charged' = [charged EXCEPT ![c] = r] /\ sent' = sent \cup {n}
      /\ UNCHANGED <<sub, head, invoices, contracts, seen, now, job, periods, raced, died, budget>>
      /\ charged \in [Charges -> Contracts \cup {None}] /\ sent \subseteq Event
  BY DEF Charge, IInv, TypeOK, n
<1>3. charged' \in [Charges -> Contracts \cup {None}] /\ charged'[c] = r
      /\ \A d \in Charges : charged[d] # None => charged'[d] = charged[d]
  BY <1>2
<1>4. sent' \subseteq Event
  BY <1>1, <1>2
<1>5. TypeOK'
  BY <1>2, <1>3, <1>4 DEF IInv, TypeOK
<1>6. EventsOK'
  <2>1. ASSUME NEW e \in sent', e.type = "charged"
        PROVE  e.charge \in Charges /\ charged'[e.charge] = e.contract
    <3>1. CASE e = n
      BY <1>1, <1>3, <3>1
    <3>2. CASE e \in sent
      <4>1. e.charge \in Charges /\ charged[e.charge] = e.contract /\ e.contract \in Contracts
        BY <1>2, <2>1, <3>2 DEF IInv, EventsOK, Event
      <4> QED
        BY <1>3, <4>1, BillingAssumption
    <3> QED
      BY <1>2, <3>1, <3>2
  <2> QED
    BY <2>1 DEF EventsOK
<1>7. SubOK'
  BY <1>2 DEF IInv, SubOK
<1> QED
  BY <1>2, <1>3, <1>5, <1>6, <1>7, WorldIInv

-----------------------------------------------------------------------------
LEMMA InitIInv == Init => IInv
<1> SUFFICES ASSUME Init PROVE IInv
  OBVIOUS
<1>1. TypeOK
  BY BillingAssumption, IdleOK DEF Init, TypeOK
<1>2. SubOK /\ ActiveContractIsPaid
  BY DEF Init, SubOK, ActiveContractIsPaid, NoRow, SubRow
<1>3. EventsOK /\ OneInvoicePerCharge /\ PeriodsOK
  BY DEF Init, EventsOK, OneInvoicePerCharge, PeriodsOK
<1>4. \A w \in Workers : job[w] = Idle
  BY DEF Init
<1>5. JobsOK /\ Alone /\ UpToDate
  BY <1>4, IdleOK DEF JobsOK, JobOK, Alone, Busy, UpToDate, StillTrue, Reporting
<1> QED
  BY <1>1, <1>2, <1>3, <1>5 DEF IInv

LEMMA StepIInv == ASSUME IInv, NEW w \in Workers, Step(w) PROVE IInv'
  BY OpenContractIInv, ProvisionIInv, BillGrantIInv, RowWriteIInv, WithdrawIInv, FindRowIInv,
     LookUpIInv, ActivateIInv, RecordChargeIInv DEF Step

LEMMA NextIInv == IInv /\ [Next]_vars => IInv'
<1> SUFFICES ASSUME IInv, [Next]_vars PROVE IInv'
  OBVIOUS
<1>1. CASE Next
  BY <1>1, HeadAcceptsIInv, ProviderIInv, InsertFailsIInv, ChargeIInv, StartIInv, StepIInv,
     AbortIInv DEF Next
<1>2. CASE UNCHANGED vars
  <2>1. TypeOK' /\ SubOK' /\ EventsOK'
    BY <1>2 DEF IInv, TypeOK, SubOK, EventsOK, vars, provider
  <2> QED
    BY <1>2, <2>1, WorldIInv DEF vars, provider
<1> QED
  BY <1>1, <1>2

LEMMA InvariantHolds == Spec => []IInv
  BY InitIInv, NextIInv, PTL DEF Spec

\* Every variable of an institution's subscription keeps its type.
THEOREM BillingTypeCorrect == Spec => []TypeOK
<1>1. IInv => TypeOK
  BY DEF IInv
<1> QED
  BY <1>1, InvariantHolds, PTL

\* For any number of charges, reports and contracts: a charge is on the books
\* once, and buys one period unless requests overlap or die.
THEOREM ChargeCountsOnceHolds == Spec => []ChargeCountsOnce
<1>1. IInv => ChargeCountsOnce
  BY DEF IInv, ChargeCountsOnce, OnePeriodPerCharge, PeriodsOK
<1> QED
  BY <1>1, InvariantHolds, PTL

\* Unless requests overlap, an active contract is one that was paid for.
THEOREM ActiveContractIsPaidHolds == Spec => []ActiveContractIsPaid
<1>1. IInv => ActiveContractIsPaid
  BY DEF IInv
<1> QED
  BY <1>1, InvariantHolds, PTL

\* A step that is not overlapped changes the status for a reason.
LEMMA StatusStep ==
  ASSUME IInv, Next, ~raced'
  PROVE  /\ sub.status = "ACTIVE" => sub'.status \in {"ACTIVE", "CANCELED", "PAST_DUE"}
         /\ sub.status = "CANCELED" /\ sub'.status = "ACTIVE" /\ sub'.contract # None
              => \E c \in Charges : charged[c] = sub.contract /\ invoices[c] = 0
<1>1. CASE \/ HeadAccepts \/ Tick \/ \E e \in sent : InsertFails(e)
           \/ \E r \in Contracts :
                 MissPayment(r) \/ DropContract(r) \/ \E c \in Charges : Charge(c, r)
  BY <1>1 DEF HeadAccepts, Tick, InsertFails, MissPayment, DropContract, Charge
<1>2. ASSUME NEW w \in Workers, Start(w) \/ Abort(w)
      PROVE  sub' = sub
  BY <1>2 DEF Start, Subscribe, GrantDemo, Cancel, SetTrialEnd, EndTrial, Sweep, Confirm,
     RecordEvent, Abort
<1>3. ASSUME NEW w \in Workers, Step(w)
      PROVE  /\ sub.status = "ACTIVE" => sub'.status \in {"ACTIVE", "CANCELED", "PAST_DUE"}
             /\ sub.status = "CANCELED" /\ sub'.status = "ACTIVE" /\ sub'.contract # None
                  => \E c \in Charges : charged[c] = sub.contract /\ invoices[c] = 0
  <2>1. UNCHANGED raced
    BY <1>3 DEF Step, OpenContract, Provision, BillGrant, DemoWrite, Withdraw, CancelWrite,
       TrialWrite, Expire, FindRow, Overdue, LookUp, Activate, RecordCharge
  <2>2. ~raced
    BY <2>1
  <2>3. StillTrue(job[w], sub, invoices) /\ JobOK(job[w]) /\ sub \in Row
    BY <2>2 DEF IInv, UpToDate, JobsOK, TypeOK
  <2>4. CASE OpenContract(w) \/ BillGrant(w) \/ Withdraw(w) \/ FindRow(w) \/ LookUp(w)
             \/ RecordCharge(w)
    BY <2>4 DEF OpenContract, BillGrant, Withdraw, FindRow, LookUp, RecordCharge
  <2>5. CASE Provision(w)
    <3>1. sub'.contract # None => sub'.status = "TRIALING"
      BY <2>5 DEF Provision, ProvisionedStatus, SubRow
    <3>2. sub.status # "ACTIVE"
      BY <2>3, <2>5 DEF StillTrue, Provision, At
    <3> QED
      BY <3>1, <3>2
  <2>6. CASE DemoWrite(w)
    BY <2>6 DEF DemoWrite, SubRow
  <2>7. CASE CancelWrite(w) \/ Overdue(w)
    BY <2>3, <2>7 DEF CancelWrite, Overdue, Row
  <2>8. CASE TrialWrite(w) \/ Expire(w)
    BY <2>3, <2>8 DEF TrialWrite, Expire, StillTrue, At, Row
  <2>9. CASE Activate(w)
    <3>1. /\ sub'.status = "ACTIVE" /\ job[w].charge \in Charges
          /\ charged[job[w].charge] = sub.contract /\ invoices[job[w].charge] = 0
      BY <2>3, <2>9 DEF Activate, StillTrue, JobOK, Reporting, At, Row
    <3> QED
      BY <3>1
  <2> QED
    BY <1>3, <2>4, <2>5, <2>6, <2>7, <2>8, <2>9 DEF Step
<1> QED
  BY <1>1, <1>2, <1>3 DEF Next

\* Unless requests overlap, what was paid for is lost only by cancellation or a
\* missed payment, and a cancelled contract comes back only for money.
THEOREM StatusIsEarnedHolds == Spec => StatusIsEarned
<1>1. IInv /\ [Next]_vars =>
        [~raced' /\ sub.status = "ACTIVE"
           => sub'.status \in {"ACTIVE", "CANCELED", "PAST_DUE"}]_vars
  BY StatusStep
<1>2. IInv /\ [Next]_vars =>
        [~raced' /\ sub.status = "CANCELED" /\ sub'.status = "ACTIVE" /\ sub'.contract # None
           => \E c \in Charges : charged[c] = sub.contract /\ invoices[c] = 0]_vars
  BY StatusStep
<1> QED
  BY <1>1, <1>2, InvariantHolds, PTL DEF Spec, StatusIsEarned, PaidNotExpired,
     CanceledStaysCanceled
=============================================================================
