------------------------------ MODULE Delivery ------------------------------
(***************************************************************************)
(* The worker: it takes mails and text messages from two Redis lists and   *)
(* delivers them, and sweeps the entitlements about to end to remind their *)
(* students.  Both run in one process, so a failure of the sweep takes the *)
(* message being delivered with it; a deployment stops a process while     *)
(* another is already running.                                             *)
(*                                                                         *)
(* Source: apps/worker/src/main.ts, apps/api/src/notifications/            *)
(* notifier.service.ts, apps/api/src/payments/entitlement.service.ts.      *)
(***************************************************************************)
EXTENDS Integers, SequencesExt

CONSTANTS
  Mails, Texts,    \* messages of rr:queue:email and of rr:queue:sms
  Courses,         \* entitlements with an end: keys without the period (sweepEntitlementExpiry)
  Plans,           \* subscriptions: keys with the period (sweepSubscriptionExpiry)
  Tasks,           \* processes of the worker
  MaxAttempts,     \* MAX_ATTEMPTS: 4 in the source
  DeadMax,         \* DEAD_LETTER_MAX: 500
  Window,          \* days before the end in which the reminder is sent: 3
  ClaimDays,       \* expiry of a claim: 4
  Validity,        \* days an entitlement or a billing period lasts
  Allowances       \* bound: how many messages, days, renewals and faults occur in one run

Messages == Mails \cup Texts
Reminders == Courses \cup Plans
Queues == {"email", "sms"}
QueueOf(m) == IF m \in Mails THEN "email" ELSE "sms"
Events == {"message", "day", "renewal", "refusal", "echo", "kill", "stop", "grace", "redis", "sweep"}

ASSUME DeliveryAssumption ==
  /\ Mails \cap Texts = {} /\ Courses \cap Plans = {}
  /\ MaxAttempts \in Nat \ {0} /\ DeadMax \in Nat \ {0}
  /\ Window \in Nat /\ ClaimDays \in Nat /\ Validity \in Nat
  /\ Allowances \subseteq [Events -> Nat]

VARIABLES
  queue,      \* the Redis lists; the head is the next to be popped
  dead,       \* the <queue>:dead lists, newest first
  mode,       \* of each process
  waits,      \* shutdown found a delivery in flight
  loop,       \* consumeLoop of each process: its place, message and attempt
  sweep,      \* the sweep of each process: its place, the rows left and the one in hand
  day,        \* the clock
  endsAt,     \* the end of each entitlement or billing period
  claims,     \* Redis: the rr:notified keys
  queued,     \* history: messages the API has queued
  sent,       \* history: how often the provider has accepted each message
  parked,     \* history: the messages dead-lettered on each list, newest first
  gone,       \* history: messages held by a process when it ended, or not dead-lettered
  signalled,  \* history: messages in delivery when their process was told to stop
  mailed,     \* history: the ends each reminder has been sent for, in order
  swept,      \* history: a sweep has been completed today
  missed,     \* history: a sweep has failed or a day has passed without one
  allowed,    \* the budget of this run
  spent       \* what has been used of it

messages == <<queue, dead, queued, sent, parked, gone, signalled>>
reminders == <<day, endsAt, claims, mailed, swept, missed>>
processes == <<mode, waits, loop, sweep>>
bounds == <<allowed, spent>>
deliveryVars == <<messages, reminders, processes, bounds>>

Loop == [pc : {"pop", "try", "park", "trim", "over"}, msgs : SUBSET Messages, attempt : 0..MaxAttempts]
Sweep == [pc : {"idle", "claim", "mail"}, since : Nat, rows : SUBSET Reminders,
          ends : [Reminders -> Nat], row : SUBSET Reminders]
Claim == [row : Reminders, end : Nat, until : Nat]

Waiting == [pc |-> "pop", msgs |-> {}, attempt |-> 0]
NoSweep == [pc |-> "idle", since |-> 0, rows |-> {}, ends |-> [r \in Reminders |-> 0], row |-> {}]

DeliveryTypeOK ==
  /\ queue \in [Queues -> Seq(Messages)] /\ dead \in [Queues -> Seq(Messages)]
  /\ mode \in [Tasks -> {"running", "stopping", "down"}] /\ waits \in [Tasks -> BOOLEAN]
  /\ loop \in [Tasks -> Loop] /\ sweep \in [Tasks -> Sweep]
  /\ day \in Nat /\ endsAt \in [Reminders -> Nat] /\ claims \subseteq Claim
  /\ queued \subseteq Messages /\ sent \in [Messages -> Nat]
  /\ parked \in [Queues -> Seq(Messages)]
  /\ gone \subseteq Messages /\ signalled \subseteq Messages
  /\ mailed \in [Reminders -> Seq(Nat)] /\ swept \in BOOLEAN /\ missed \in BOOLEAN
  /\ allowed \in [Events -> Nat] /\ spent \in [Events -> Nat]

DeliveryInit ==
  /\ queue = [q \in Queues |-> <<>>] /\ dead = [q \in Queues |-> <<>>]
  /\ mode = [t \in Tasks |-> "down"] /\ waits = [t \in Tasks |-> FALSE]
  /\ loop = [t \in Tasks |-> Waiting] /\ sweep = [t \in Tasks |-> NoSweep]
  /\ day = 0 /\ endsAt = [r \in Reminders |-> Validity] /\ claims = {}
  /\ queued = {} /\ sent = [m \in Messages |-> 0]
  /\ parked = [q \in Queues |-> <<>>] /\ gone = {} /\ signalled = {}
  /\ mailed = [r \in Reminders |-> <<>>] /\ swept = FALSE /\ missed = FALSE
  /\ allowed \in Allowances /\ spent = [k \in Events |-> 0]

-----------------------------------------------------------------------------
Up(t) == mode[t] # "down"
Doing(t, p) == Up(t) /\ loop[t].pc = p
Sweeping(t, p) == Up(t) /\ sweep[t].pc = p
Use(k) == spent[k] < allowed[k] /\ spent' = [spent EXCEPT ![k] = @ + 1] /\ UNCHANGED allowed
Again(t) == IF mode[t] = "running" THEN Waiting ELSE [Waiting EXCEPT !.pc = "over"]

(* Mutated forms: bugs this code could have had, each caught by a property. *)
GiveUp(t, m) == Again(t)
TriedOnceMore(t, m) ==
  IF loop[t].attempt <= MaxAttempts THEN [loop[t] EXCEPT !.attempt = @ + 1]
  ELSE [loop[t] EXCEPT !.pc = "park"]
Oldest(q, l) == IF Len(l) > DeadMax THEN SubSeq(l, Len(l) - DeadMax + 1, Len(l)) ELSE l
ClaimedForGood == day + 2 * Validity

-----------------------------------------------------------------------------
(* The queue. *)

\* NotifierService: lpush.
Queue(m) ==
  /\ m \notin queued /\ Use("message")
  /\ queue' = [queue EXCEPT ![QueueOf(m)] = Append(@, m)]
  /\ queued' = queued \cup {m}
  /\ UNCHANGED <<dead, sent, parked, gone, signalled, reminders, processes>>

Popped(q) == [queue EXCEPT ![q] = Tail(@)]

\* brpop removes the message before it is delivered; of the two lists the mails
\* come first.  A process that has been told to stop may still be waiting here.
Pop(t, q) ==
  /\ Doing(t, "pop") /\ queue[q] # <<>> /\ (q = "sms" => queue["email"] = <<>>)
  /\ queue' = Popped(q)
  /\ loop' = [loop EXCEPT ![t] = [pc |-> "try", msgs |-> {Head(queue[q])}, attempt |-> 1]]
  /\ UNCHANGED <<dead, queued, sent, parked, gone, signalled, reminders, mode, waits, sweep, bounds>>

\* A running brpop that finds nothing returns after five seconds, and the loop ends.
StopPopping(t) ==
  /\ Doing(t, "pop") /\ mode[t] = "stopping"
  /\ loop' = [loop EXCEPT ![t] = Again(t)]
  /\ UNCHANGED <<messages, reminders, mode, waits, sweep, bounds>>

\* deliver: the provider accepts the message.
Accept(t) ==
  /\ Doing(t, "try")
  /\ sent' = [m \in Messages |-> sent[m] + (IF m \in loop[t].msgs THEN 1 ELSE 0)]
  /\ loop' = [loop EXCEPT ![t] = Again(t)]
  /\ UNCHANGED <<queue, dead, queued, parked, gone, signalled, reminders, mode, waits, sweep, bounds>>

Refused(t, m) ==
  IF loop[t].attempt < MaxAttempts THEN [loop[t] EXCEPT !.attempt = @ + 1]
  ELSE [loop[t] EXCEPT !.pc = "park"]

\* It refuses, or accepts and answers with an error: the message is tried again
\* after a pause, and parked after the last attempt.
Refuse(t, m, accepted) ==
  /\ Doing(t, "try") /\ m \in loop[t].msgs
  /\ Use(IF accepted THEN "echo" ELSE "refusal")
  /\ sent' = [sent EXCEPT ![m] = @ + (IF accepted THEN 1 ELSE 0)]
  /\ loop' = [loop EXCEPT ![t] = Refused(t, m)]
  /\ UNCHANGED <<queue, dead, queued, parked, gone, signalled, reminders, mode, waits, sweep>>

\* A stop that finds nothing in flight closes the connection at once; the loop
\* has one of its own for brpop, and may pop a message all the same.
Connected(t) == mode[t] = "running" \/ waits[t]

\* deadLetter: lpush ...
Park(t, m) ==
  /\ Doing(t, "park") /\ m \in loop[t].msgs /\ Connected(t)
  /\ dead' = [dead EXCEPT ![QueueOf(m)] = <<m>> \o @]
  /\ parked' = [parked EXCEPT ![QueueOf(m)] = <<m>> \o @]
  /\ loop' = [loop EXCEPT ![t].pc = "trim"]
  /\ UNCHANGED <<queue, queued, sent, gone, signalled, reminders, mode, waits, sweep, bounds>>

\* ... which fails without a connection and when Redis does, ...
LoseParked(t) ==
  /\ Doing(t, "park") /\ IF Connected(t) THEN Use("redis") ELSE UNCHANGED bounds
  /\ gone' = gone \cup loop[t].msgs
  /\ loop' = [loop EXCEPT ![t] = Again(t)]
  /\ UNCHANGED <<queue, dead, queued, sent, parked, signalled, reminders, mode, waits, sweep>>

Trimmed(q, l) == SubSeq(l, 1, IF Len(l) < DeadMax THEN Len(l) ELSE DeadMax)

\* ... then ltrim.
Trim(t, m) ==
  /\ Doing(t, "trim") /\ m \in loop[t].msgs
  /\ dead' = [dead EXCEPT ![QueueOf(m)] = Trimmed(QueueOf(m), @)]
  /\ loop' = [loop EXCEPT ![t] = Again(t)]
  /\ UNCHANGED <<queue, queued, sent, parked, gone, signalled, reminders, mode, waits, sweep, bounds>>

-----------------------------------------------------------------------------
(* The reminders. *)

\* A day passes; sweeps run every hour and take less than a day.
PassDay ==
  /\ \A t \in Tasks : sweep[t].pc # "idle" => sweep[t].since = day
  /\ Use("day") /\ day' = day + 1
  /\ claims' = {c \in claims : c.until > day + 1}
  /\ missed' = (missed \/ ~swept \/ \E t \in Tasks : sweep[t].pc # "idle")
  /\ swept' = FALSE
  /\ UNCHANGED <<endsAt, mailed, messages, processes>>

\* grantFromOrder at any time; the charge of the next billing period in time.
Renew(r) ==
  /\ Use("renewal") /\ (r \in Plans => day <= endsAt[r])
  /\ endsAt' = [endsAt EXCEPT ![r] = IF r \in Plans THEN @ + Validity ELSE day + Validity]
  /\ UNCHANGED <<day, claims, mailed, swept, missed, messages, processes>>

NearEnd == {r \in Reminders : endsAt[r] > day /\ endsAt[r] <= day + Window}

\* sweepEntitlementExpiry, sweepSubscriptionExpiry: the rows are read once.
StartSweep(t) ==
  /\ mode[t] = "running" /\ Sweeping(t, "idle") /\ ~swept
  /\ sweep' = [sweep EXCEPT ![t] = [pc |-> "claim", since |-> day, rows |-> NearEnd,
                                    ends |-> endsAt, row |-> {}]]
  /\ UNCHANGED <<messages, reminders, mode, waits, loop, bounds>>

EndSweep(t) ==
  /\ Sweeping(t, "claim") /\ sweep[t].rows = {}
  /\ sweep' = [sweep EXCEPT ![t] = NoSweep]
  /\ swept' = TRUE
  /\ UNCHANGED <<day, endsAt, claims, mailed, missed, messages, mode, waits, loop, bounds>>

Unclaimed(r, e) == \A c \in claims : c.row = r => r \in Plans /\ c.end # e
ClaimExpiry == day + ClaimDays

\* set NX: at most one sweep claims a row; ...
ClaimRow(t, r) ==
  LET end == sweep[t].ends[r]
      free == Unclaimed(r, end)
  IN
  /\ Sweeping(t, "claim") /\ r \in sweep[t].rows
  /\ claims' = IF free THEN claims \cup {[row |-> r, end |-> end, until |-> ClaimExpiry]} ELSE claims
  /\ sweep' = [sweep EXCEPT ![t].rows = @ \ {r}, ![t].row = IF free THEN {r} ELSE {},
                            ![t].pc = IF free THEN "mail" ELSE "claim"]
  /\ UNCHANGED <<day, endsAt, mailed, swept, missed, messages, mode, waits, loop, bounds>>

\* ... that one sends the mail itself.
MailRow(t, r) ==
  /\ Sweeping(t, "mail") /\ r \in sweep[t].row
  /\ mailed' = [mailed EXCEPT ![r] = Append(@, sweep[t].ends[r])]
  /\ sweep' = [sweep EXCEPT ![t].pc = "claim", ![t].row = {}]
  /\ UNCHANGED <<day, endsAt, claims, swept, missed, messages, mode, waits, loop, bounds>>

-----------------------------------------------------------------------------
(* Processes. *)

Start(t) ==
  /\ mode[t] = "down"
  /\ mode' = [mode EXCEPT ![t] = "running"]
  /\ UNCHANGED <<messages, reminders, waits, loop, sweep, bounds>>

\* The process ends with whatever it holds.
GoDown(t) ==
  /\ mode' = [mode EXCEPT ![t] = "down"] /\ waits' = [waits EXCEPT ![t] = FALSE]
  /\ gone' = gone \cup (IF loop[t].pc = "trim" THEN {} ELSE loop[t].msgs)
  /\ loop' = [loop EXCEPT ![t] = Waiting] /\ sweep' = [sweep EXCEPT ![t] = NoSweep]
  /\ missed' = (missed \/ sweep[t].pc # "idle")
  /\ UNCHANGED <<queue, dead, queued, sent, parked, signalled, day, endsAt, claims, mailed, swept>>

Kill(t) == Up(t) /\ Use("kill") /\ GoDown(t)

\* The mail server refuses a reminder: nobody catches the rejection of the
\* sweep, and the process ends.
SweepFails(t) == Sweeping(t, "mail") /\ Use("sweep") /\ GoDown(t)

InFlight(t) == loop[t].msgs # {}

\* SIGTERM: the timers are cleared; a delivery in flight is waited for, but for
\* no longer than the grace.
Stop(t) ==
  /\ mode[t] = "running" /\ Use("stop")
  /\ mode' = [mode EXCEPT ![t] = "stopping"]
  /\ waits' = [waits EXCEPT ![t] = InFlight(t)]
  /\ signalled' = signalled \cup loop[t].msgs
  /\ UNCHANGED <<queue, dead, queued, sent, parked, gone, reminders, loop, sweep>>

Exit(t) ==
  /\ mode[t] = "stopping" /\ (waits[t] => loop[t].pc = "over")
  /\ GoDown(t) /\ UNCHANGED bounds

GraceOver(t) == mode[t] = "stopping" /\ Use("grace") /\ GoDown(t)

Deliver(t) ==
  \/ \E q \in Queues : Pop(t, q)
  \/ StopPopping(t) \/ Accept(t)
  \/ \E m \in Messages : Park(t, m) \/ Trim(t, m)

Remind(t) ==
  \/ StartSweep(t) \/ EndSweep(t)
  \/ \E r \in Reminders : ClaimRow(t, r) \/ MailRow(t, r)

DeliveryNext ==
  \/ \E m \in Messages : Queue(m)
  \/ PassDay \/ \E r \in Reminders : Renew(r)
  \/ \E t \in Tasks :
       \/ Deliver(t) \/ Remind(t) \/ LoseParked(t)
       \/ \E m \in Messages, accepted \in BOOLEAN : Refuse(t, m, accepted)
       \/ Start(t) \/ Kill(t) \/ SweepFails(t) \/ Stop(t) \/ Exit(t) \/ GraceOver(t)

DeliverySpec == DeliveryInit /\ [][DeliveryNext]_deliveryVars

\* The event loop of a process runs; a process that ended is started again and
\* one told to stop exits.
Fairness ==
  \A t \in Tasks :
    WF_deliveryVars(Deliver(t)) /\ WF_deliveryVars(Remind(t)) /\ WF_deliveryVars(Start(t)) /\ WF_deliveryVars(Exit(t))

LiveSpec == DeliverySpec /\ Fairness
-----------------------------------------------------------------------------
(* Properties. *)

Places(m) ==
  Cardinality({t \in Tasks : m \in loop[t].msgs /\ loop[t].pc # "trim"})
  + Cardinality({i \in DOMAIN queue[QueueOf(m)] : queue[QueueOf(m)][i] = m})
  + Cardinality({i \in DOMAIN dead[QueueOf(m)] : dead[QueueOf(m)][i] = m})

\* Two processes overlap during a deployment, and any of them may die: a message
\* is never in two places, so it is never delivered by both.
OneHolder == \A m \in Messages : Places(m) <= 1

\* The list of undeliverable messages holds the newest of them, all of them up
\* to the cap; it exceeds the cap only by trims that have not run, or never will.
DeadLettersKeepNewest ==
  \A q \in Queues :
    /\ IsPrefix(dead[q], parked[q])
    /\ dead[q] # parked[q] => Len(dead[q]) >= DeadMax
    /\ Len(dead[q]) <= DeadMax + Cardinality({t \in Tasks : loop[t].pc = "trim"})
                       + spent["kill"] + spent["grace"] + spent["sweep"]

\* A message in delivery when its process is told to stop is not lost, unless the
\* grace runs out, the process dies or Redis fails.
StopWaitsForDelivery ==
  (\A k \in {"kill", "grace", "redis", "sweep"} : spent[k] = 0) => signalled \cap gone = {}

\* Whatever overlaps, fails and is started again, one end of an entitlement or of
\* a billing period is announced by at most one mail.
RemindedOnce == \A r \in Reminders : \A i, j \in DOMAIN mailed[r] :
                  mailed[r][i] = mailed[r][j] => i = j

\* If a sweep runs to its end every day, no entitlement ends unannounced: the
\* claim of an earlier end has expired by then, or does not count.
RemindedInTime ==
  \A r \in Reminders :
    ~missed /\ day >= endsAt[r] => \E i \in DOMAIN mailed[r] : mailed[r][i] = endsAt[r]

\* Every message the API queues is in the end accepted by the provider or
\* dead-lettered, if the process that holds it does not end.
QueuedIsAnswered ==
  \A m \in Messages :
    m \in queued ~> (sent[m] > 0 \/ m \in gone \/ m \in ToSet(parked[QueueOf(m)]))

\* A message is held by one process or one list at a time, and is not given up by a
\* stop or by the cap of a list that is not full.
MessagesAreKept == OneHolder /\ StopWaitsForDelivery /\ DeadLettersKeepNewest

\* Every end is announced, in time and once.
EndsAnnouncedOnce == RemindedOnce /\ RemindedInTime
=============================================================================
