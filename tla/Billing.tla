------------------------------- MODULE Billing -------------------------------
(***************************************************************************)
(* The subscription of one institution: its trial, its self-serve contract *)
(* with the payment provider, the two reports of every charge (the Head's  *)
(* checkout callback and the webhook), cancellation, and the worker's      *)
(* trial sweep.  Subscriptions of different institutions share no row.     *)
(*                                                                         *)
(* Source: apps/api/src/billing/billing.service.ts,                        *)
(* apps/worker/src/main.ts (sweepTrialExpiration).                         *)
(***************************************************************************)
EXTENDS Integers, FiniteSets

CONSTANTS
  Contracts,       \* subscriptions at the provider (razorpaySubscriptionId)
  Charges,         \* payments of the provider (razorpayPaymentId)
  Cycle,           \* length of a billing cycle
  TrialDays,       \* length of the free trial
  Horizon,         \* bound: the last moment considered
  Workers,         \* concurrent request slots of the API and the worker
  Budget,          \* bound: how many requests of people occur, and how much
                   \* trouble (missed or dropped contracts, dying requests)
  None             \* SQL NULL

Kinds == {"request", "trouble"}

ASSUME BillingAssumption ==
  /\ Cycle \in Nat \ {0} /\ TrialDays \in Nat \ {0} /\ Horizon \in Nat
  /\ Budget \in [Kinds -> Nat]
  /\ None \notin Contracts \cup Charges \cup Nat

VARIABLES
  sub,        \* the organization_subscriptions row
  head,       \* the organization has a headUserId
  invoices,   \* number of invoices per razorpayPaymentId (None: granted by hand)
  contracts,  \* provider side: the state of each contract
  charged,    \* provider side: the contract a charge was taken on
  sent,       \* provider side: the events it has sent, and sends again until answered
  seen,       \* payment_events: the events recorded
  now,        \* the clock
  job,        \* the request running in each slot
  periods,    \* history: how often a charge has extended the period
  raced,      \* history: two requests have overlapped
  died,       \* history: a request has died, or an event has been lost
  budget      \* what is left of Budget

provider == <<contracts, charged, sent>>
vars == <<sub, head, invoices, provider, seen, now, job, periods, raced, died, budget>>

Statuses == {"NONE", "TRIAL", "TRIALING", "ACTIVE", "PAST_DUE", "CANCELED", "EXPIRED"}
Notices == {"charged", "cancelled", "pending"}
Pcs == Notices \cup {"idle", "open", "provision", "bill", "demo", "newDemo", "withdraw", "cancel",
                     "trial", "expire", "overdue", "lookup", "activate", "invoice"}

Times == Nat \cup {None}
Row == [status : Statuses, contract : Contracts \cup {None}, end : Times]
Event == [type : Notices, contract : Contracts, charge : Charges \cup {None}]
Job == [pc : Pcs, read : Row, contract : Contracts \cup {None}, charge : Charges \cup {None}]

SubRow(s, r, e) == [status |-> s, contract |-> r, end |-> e]
Request(p, row, r, c) == [pc |-> p, read |-> row, contract |-> r, charge |-> c]
Notice(t, r, c) == [type |-> t, contract |-> r, charge |-> c]

NoRow == SubRow("NONE", None, None)
Idle == Request("idle", NoRow, None, None)

TypeOK ==
  /\ sub \in Row
  /\ head \in BOOLEAN
  /\ invoices \in [Charges \cup {None} -> Nat]
  /\ contracts \in [Contracts -> {"NONE", "CREATED", "OFFERED", "CANCELLED"}]
  /\ charged \in [Charges -> Contracts \cup {None}]
  /\ sent \subseteq Event
  /\ seen \subseteq Event
  /\ now \in Nat
  /\ job \in [Workers -> Job]
  /\ periods \in [Charges -> Nat]
  /\ raced \in BOOLEAN /\ died \in BOOLEAN
  /\ budget \in [Kinds -> Nat]

Init ==
  /\ sub = NoRow /\ head = FALSE
  /\ invoices = [c \in Charges \cup {None} |-> 0]
  /\ contracts = [r \in Contracts |-> "NONE"]
  /\ charged = [c \in Charges |-> None]
  /\ sent = {} /\ seen = {}
  /\ now = 0
  /\ job = [w \in Workers |-> Idle]
  /\ periods = [c \in Charges |-> 0]
  /\ raced = FALSE /\ died = FALSE
  /\ budget = Budget

-----------------------------------------------------------------------------
At(w, p) == job[w].pc = p
Goto(w, p) == job' = [job EXCEPT ![w].pc = p]
Invoice(w) == job' = [job EXCEPT ![w].pc = "invoice", ![w].read = NoRow]
End(w) == job' = [job EXCEPT ![w] = Idle]
Spend(k) == budget[k] > 0 /\ budget' = [budget EXCEPT ![k] = @ - 1]

\* A request starts; what is read and what comes next depends on the request.
Begin(w, request) ==
  /\ At(w, "idle")
  /\ job' = [job EXCEPT ![w] = request]
  /\ raced' = (raced \/ \E v \in Workers : ~At(v, "idle"))

(* Mutated forms: bugs this code could have had, each caught by a property. *)
LapsedAnyStatus(row) == row.end # None /\ row.end <= now
NeverRecorded(c) == FALSE
AnyContract(r) == sub.status # "NONE"
DropWhenActive(w) == End(w)

-----------------------------------------------------------------------------
(* Subscribing. *)

\* createFromInvitation: the first Head to accept starts the trial; a row that
\* is there already is left alone.
HeadAccepts ==
  /\ ~head /\ head' = TRUE
  /\ sub' = IF sub.status = "NONE" THEN SubRow("TRIAL", None, now + TrialDays) ELSE sub
  /\ UNCHANGED <<invoices, provider, seen, now, job, periods, raced, died, budget>>

\* provisionSubscription: there is a head, and no subscription that is active
\* or awaits payment.  self: selfServeSubscribe (KYC verified), which asks the
\* provider first; otherwise subscribeOrganization by Super Admin.
Subscribe(w, self) ==
  /\ head /\ sub.status \notin {"ACTIVE", "TRIALING"}
  /\ Begin(w, Request(IF self THEN "open" ELSE "provision", NoRow, None, None))
  /\ Spend("request")
  /\ UNCHANGED <<sub, head, invoices, provider, seen, now, periods, died>>

\* razorpay.createSubscription, which may fail.
OpenContract(w) ==
  /\ At(w, "open")
  /\ \/ \E r \in Contracts :
          /\ contracts[r] = "NONE"
          /\ contracts' = [contracts EXCEPT ![r] = "CREATED"]
          /\ job' = [job EXCEPT ![w].pc = "provision", ![w].contract = r]
     \/ End(w) /\ UNCHANGED contracts
  /\ UNCHANGED <<sub, head, invoices, charged, sent, seen, now, periods, raced, died, budget>>

ProvisionedStatus(r) == IF r = None THEN "ACTIVE" ELSE "TRIALING"

\* provisionSubscription: the row is overwritten, whatever it holds by now.  A
\* Head is then offered the contract's checkout.
Provision(w) ==
  LET r == job[w].contract IN
  /\ At(w, "provision")
  /\ sub' = SubRow(ProvisionedStatus(r), r, IF r = None THEN now + Cycle ELSE None)
  /\ contracts' = [x \in Contracts |-> IF x = r THEN "OFFERED" ELSE contracts[x]]
  /\ IF r = None THEN Goto(w, "bill") ELSE End(w)
  /\ UNCHANGED <<head, invoices, charged, sent, seen, now, periods, raced, died, budget>>

\* provisionSubscription: the invoice of a licence granted by hand.
BillGrant(w) ==
  /\ At(w, "bill")
  /\ invoices' = [invoices EXCEPT ![None] = @ + 1]
  /\ End(w)
  /\ UNCHANGED <<sub, head, provider, seen, now, periods, raced, died, budget>>

\* grantLifetimeDemoSubscription.  A usable row on the top plan is left alone;
\* plans are not modelled, so a usable row may be on another one.
GrantDemo(w) ==
  /\ Begin(w, Request(IF sub.status = "NONE" THEN "newDemo" ELSE "demo", NoRow, None, None))
  /\ Spend("request")
  /\ UNCHANGED <<sub, head, invoices, provider, seen, now, periods, died>>

\* An update, or a create that fails on the unique orgId if there is a row by now.
DemoWrite(w) ==
  /\ At(w, "demo") \/ At(w, "newDemo")
  /\ sub' = IF At(w, "newDemo") /\ sub.status # "NONE" THEN sub
            ELSE SubRow("ACTIVE", None, Horizon + 1)
  /\ End(w)
  /\ UNCHANGED <<head, invoices, provider, seen, now, periods, raced, died, budget>>

-----------------------------------------------------------------------------
(* Cancelling, and the end of a trial. *)

\* cancelSubscription: everything but CANCELED can be cancelled.
Cancel(w) ==
  /\ sub.status \notin {"NONE", "CANCELED"}
  /\ Begin(w, Request(IF sub.contract = None THEN "cancel" ELSE "withdraw",
                      NoRow, sub.contract, None))
  /\ Spend("request")
  /\ UNCHANGED <<sub, head, invoices, provider, seen, now, periods, died>>

CancelContract(r) ==
  /\ contracts' = [contracts EXCEPT ![r] = "CANCELLED"]
  /\ sent' = sent \cup {Notice("cancelled", r, None)}

\* cancelSubscription: the provider is told, and may fail to hear.
Withdraw(w) ==
  /\ At(w, "withdraw")
  /\ CancelContract(job[w].contract) \/ UNCHANGED <<contracts, sent>>
  /\ Goto(w, "cancel")
  /\ UNCHANGED <<sub, head, invoices, charged, seen, now, periods, raced, died, budget>>

\* The write of cancelSubscription, and of handleSubscriptionEvent's cancelled.
CancelWrite(w) ==
  /\ At(w, "cancel")
  /\ sub' = [sub EXCEPT !.status = "CANCELED"]
  /\ End(w)
  /\ UNCHANGED <<head, invoices, provider, seen, now, periods, raced, died, budget>>

\* setTrialEnd: a trial is moved, or an expired one opened again.
SetTrialEnd(w) ==
  /\ sub.status \in {"TRIAL", "EXPIRED"}
  /\ Begin(w, Request("trial", SubRow("TRIAL", sub.contract, now + TrialDays), None, None))
  /\ Spend("request")
  /\ UNCHANGED <<sub, head, invoices, provider, seen, now, periods, died>>

TrialWrite(w) ==
  /\ At(w, "trial")
  /\ sub' = [sub EXCEPT !.status = "TRIAL", !.end = job[w].read.end]
  /\ End(w)
  /\ UNCHANGED <<head, invoices, provider, seen, now, periods, raced, died, budget>>

\* endTrialNow.
EndTrial(w) ==
  /\ sub.status = "TRIAL"
  /\ Begin(w, Request("expire", NoRow, None, None))
  /\ Spend("request")
  /\ UNCHANGED <<sub, head, invoices, provider, seen, now, periods, died>>

Lapsed(row) == row.status = "TRIAL" /\ row.end <= now

\* sweepTrialExpiration, hourly: the lapsed trials are read.
Sweep(w) ==
  /\ sub.status # "NONE" /\ Lapsed(sub)
  /\ Begin(w, Request("expire", NoRow, None, None))
  /\ UNCHANGED <<sub, head, invoices, provider, seen, now, periods, died, budget>>

\* The write of endTrialNow and of the sweep, unconditional in both.
Expire(w) ==
  /\ At(w, "expire")
  /\ sub' = [sub EXCEPT !.status = "EXPIRED"]
  /\ End(w)
  /\ UNCHANGED <<head, invoices, provider, seen, now, periods, raced, died, budget>>

-----------------------------------------------------------------------------
(* Charges. *)

Mine(r) == sub.contract = r

\* confirmSelfServePayment: the checkout's signed callback for the row's contract.
Confirm(w, c) ==
  /\ charged[c] # None /\ Mine(charged[c]) /\ sub.status \notin {"NONE", "ACTIVE"}
  /\ Begin(w, Request("lookup", sub, charged[c], c))
  /\ Spend("request")
  /\ UNCHANGED <<sub, head, invoices, provider, seen, now, periods, died>>

\* handleWebhook: the event row is committed first; a repeated one is answered.
RecordEvent(w, e) ==
  /\ e \in sent \ seen
  /\ Begin(w, Request(e.type, NoRow, e.contract, e.charge))
  /\ seen' = seen \cup {e}
  /\ UNCHANGED <<sub, head, invoices, provider, now, periods, died, budget>>

\* handleWebhook: any other failure of the insert is answered in the same way,
\* and the event is lost.
InsertFails(e) ==
  /\ e \notin seen /\ Spend("trouble")
  /\ sent' = sent \ {e} /\ died' = TRUE
  /\ UNCHANGED <<sub, head, invoices, contracts, charged, seen, now, job, periods, raced>>

AfterEvent(type) ==
  CASE type = "charged" -> "lookup"
    [] type = "cancelled" -> "cancel"
    [] type = "pending" -> IF sub.status = "PAST_DUE" THEN "idle" ELSE "overdue"

\* handleSubscriptionEvent: the row is found by its contract, or not at all.
FindRow(w) ==
  /\ job[w].pc \in Notices
  /\ IF Mine(job[w].contract) /\ AfterEvent(job[w].pc) # "idle"
       THEN job' = [job EXCEPT ![w].pc = AfterEvent(job[w].pc),
                               ![w].read = IF job[w].pc = "charged" THEN sub ELSE NoRow]
       ELSE End(w)
  /\ UNCHANGED <<sub, head, invoices, provider, seen, now, periods, raced, died, budget>>

\* handleSubscriptionEvent: pending and halted.
Overdue(w) ==
  /\ At(w, "overdue")
  /\ sub' = [sub EXCEPT !.status = "PAST_DUE"]
  /\ End(w)
  /\ UNCHANGED <<head, invoices, provider, seen, now, periods, raced, died, budget>>

Recorded(c) == invoices[c] > 0

Current(row) == row.status = "ACTIVE" /\ row.end # None /\ row.end > now

\* activateChargedSubscription: an extra charge only gets its invoice.
Extra(w) == Invoice(w)

\* activateChargedSubscription: a charge with an invoice is done; otherwise it
\* extends the period unless the period was current when the row was read.
LookUp(w) ==
  /\ At(w, "lookup")
  /\ \/ Recorded(job[w].charge) /\ End(w)
     \/ ~Recorded(job[w].charge) /\ Current(job[w].read) /\ Extra(w)
     \/ ~Recorded(job[w].charge) /\ ~Current(job[w].read) /\ Goto(w, "activate")
  /\ UNCHANGED <<sub, head, invoices, provider, seen, now, periods, raced, died, budget>>

\* activateChargedSubscription: status and period are written from what was read.
Activate(w) ==
  LET from == IF job[w].read.end = None THEN now ELSE job[w].read.end IN
  /\ At(w, "activate")
  /\ sub' = [sub EXCEPT !.status = "ACTIVE", !.end = from + Cycle]
  /\ periods' = [periods EXCEPT ![job[w].charge] = @ + 1]
  /\ Invoice(w)
  /\ UNCHANGED <<head, invoices, provider, seen, now, raced, died, budget>>

\* The unique index on razorpay_payment_id.
Taken(c) == invoices[c] > 0

\* activateChargedSubscription: the invoice; the index refuses a second one.
RecordCharge(w) ==
  LET c == job[w].charge IN
  /\ At(w, "invoice")
  /\ invoices' = IF Taken(c) THEN invoices ELSE [invoices EXCEPT ![c] = @ + 1]
  /\ End(w)
  /\ UNCHANGED <<sub, head, provider, seen, now, periods, raced, died, budget>>

-----------------------------------------------------------------------------
(* The provider, the clock, and faults. *)

\* The provider takes a payment on a contract a Head was offered.
Charge(c, r) ==
  /\ charged[c] = None /\ contracts[r] = "OFFERED"
  /\ charged' = [charged EXCEPT ![c] = r]
  /\ sent' = sent \cup {Notice("charged", r, c)}
  /\ UNCHANGED <<sub, head, invoices, contracts, seen, now, job, periods, raced, died, budget>>

\* A renewal fails at the provider.
MissPayment(r) ==
  /\ contracts[r] = "OFFERED" /\ Spend("trouble")
  /\ sent' = sent \cup {Notice("pending", r, None)}
  /\ UNCHANGED <<sub, head, invoices, contracts, charged, seen, now, job, periods, raced, died>>

\* The contract is cancelled at the provider.
DropContract(r) ==
  /\ contracts[r] = "OFFERED" /\ Spend("trouble")
  /\ CancelContract(r)
  /\ UNCHANGED <<sub, head, invoices, charged, seen, now, job, periods, raced, died>>

Tick ==
  /\ now < Horizon
  /\ now' = now + 1
  /\ UNCHANGED <<sub, head, invoices, provider, seen, job, periods, raced, died, budget>>

\* An exception or a process death ends a request between two statements.
Abort(w) ==
  /\ ~At(w, "idle") /\ Spend("trouble")
  /\ End(w)
  /\ died' = TRUE
  /\ UNCHANGED <<sub, head, invoices, provider, seen, now, periods, raced>>

Step(w) ==
  \/ OpenContract(w) \/ Provision(w) \/ BillGrant(w) \/ DemoWrite(w)
  \/ Withdraw(w) \/ CancelWrite(w) \/ TrialWrite(w) \/ Expire(w)
  \/ FindRow(w) \/ Overdue(w) \/ LookUp(w) \/ Activate(w) \/ RecordCharge(w)

Start(w) ==
  \/ \E self \in BOOLEAN : Subscribe(w, self)
  \/ GrantDemo(w) \/ Cancel(w) \/ SetTrialEnd(w) \/ EndTrial(w) \/ Sweep(w)
  \/ \E c \in Charges : Confirm(w, c)
  \/ \E e \in sent : RecordEvent(w, e)

Next ==
  \/ HeadAccepts \/ Tick
  \/ \E e \in sent : InsertFails(e)
  \/ \E w \in Workers : Start(w) \/ Step(w) \/ Abort(w)
  \/ \E r \in Contracts : MissPayment(r) \/ DropContract(r) \/ \E c \in Charges : Charge(c, r)

Spec == Init /\ [][Next]_vars

\* Handlers run on, the provider delivers until it is answered, and the worker
\* sweeps every hour; nobody has to ask for anything.
Fairness ==
  /\ \A w \in Workers : WF_vars(Step(w))
  /\ WF_vars(\E w \in Workers, e \in sent : RecordEvent(w, e))
  /\ WF_vars(\E w \in Workers : Sweep(w))

LiveSpec == Spec /\ Fairness
-----------------------------------------------------------------------------
(* Properties. *)

\* The checkout callback and the webhook report the same charge, at the same
\* time or not: it is on the books once.
OneInvoicePerCharge == \A c \in Charges : invoices[c] <= 1

\* When requests do not overlap, a self-serve subscription is active only if
\* its own contract has been paid for, not one that it replaced.
ActiveContractIsPaid ==
  ~raced /\ sub.status = "ACTIVE" /\ sub.contract # None
    => \E c \in Charges : charged[c] = sub.contract

\* When requests do not overlap and none dies, a charge buys one period,
\* however often, late or out of order it is reported.
OnePeriodPerCharge ==
  ~raced /\ ~died => \A c \in Charges : periods[c] <= 1

\* When requests do not overlap, what was paid for is not expired by a trial
\* sweep: an active subscription ends by cancellation or a missed payment.
PaidNotExpired ==
  [][~raced' /\ sub.status = "ACTIVE"
       => sub'.status \in {"ACTIVE", "CANCELED", "PAST_DUE"}]_vars

\* When requests do not overlap, a cancelled contract comes back only for a
\* charge that was not on the books yet (money taken before, reported after).
CanceledStaysCanceled ==
  [][~raced' /\ sub.status = "CANCELED" /\ sub'.status = "ACTIVE" /\ sub'.contract # None
       => \E c \in Charges : charged[c] = sub.contract /\ invoices[c] = 0]_vars

\* Unless a request dies, every charge on the institution's contract gets its
\* invoice, also one that finds the subscription active already.
ChargesReachLedger ==
  \A c \in Charges :
    charged[c] # None ~>
      \/ invoices[c] > 0
      \/ sub.contract # charged[c]
      \/ died

\* A trial that has run out does not stay a trial.
TrialsEnd == sub.status = "TRIAL" /\ sub.end <= now ~> ~(sub.status = "TRIAL" /\ sub.end <= now)

\* A charge is booked once and, without overlap and deaths, buys one period.
ChargeCountsOnce == OneInvoicePerCharge /\ OnePeriodPerCharge

\* Without overlap, a subscription loses what was paid for, or comes back after a
\* cancellation, only for a reason that stands at the provider.
StatusIsEarned == PaidNotExpired /\ CanceledStaysCanceled

\* No charge and no lapsed trial is left unattended.
SettledInTheEnd == ChargesReachLedger /\ TrialsEnd
=============================================================================
