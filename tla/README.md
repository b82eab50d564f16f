# RajyaRank: a TLA+ verification development

RajyaRank is an exam-preparation platform: a NestJS API (`apps/api`), a worker
(`apps/worker`), web and admin front ends (`apps/web`, `apps/admin`), a Flutter
app (`apps/mobile`) and shared packages, over PostgreSQL (Prisma), Redis, S3 and
the payment provider Razorpay. The API is stateless and runs in several
instances: everything that can go wrong at run time goes wrong between two
statements of one request, while other requests, webhooks or the worker run.
The modules here are about that.

Paths below are relative to `src/apps/api/src` unless they start with
`packages/`, `docs/` or `apps/`.

- `*.tla` without prefix: one module per component; `Exam` is an abstract one.
- `MC*.tla`, `*.cfg`: instances for TLC, named `<module>_<question>.cfg`.
- `*Proofs.tla`: theorems, checked by TLAPS; `StudentProofs` is about `TestAttempt` and
  `StudyPlan`, `RedisProofs` about `Principals` and `Delivery`.
- `PROJECT.json`: components, runs, mutants, hazards, theorems, and the source
  lines every definition stands for.

To repeat a check: `tlc -config OrderPayment_race.cfg MCOrderPayment`,
`tlapm OrderPaymentProofs.tla`.

## Inventory

| component | state it keeps | operations | correct when | module |
|---|---|---|---|---|
| checkout and coupons (`payments/payments.service.ts`) | orders, payments, coupon counters, entitlements | `createOrder`, `previewCoupon`, `listProducts` | limits of coupons hold; a key opens one payment, for its owner; free courses follow a plan | `Checkout` |
| payment confirmation, webhooks, refunds (`payments/`) | orders, payments, payment events, refunds | `verify`, `handleWebhook`, `markPaid`, `refund`, `requestRefund`, `approveRefund`, `rejectRefund` | one sale per charge; access if and only if money was taken and not given back; every event answered | `OrderPayment` |
| entitlements (`payments/entitlement.service.ts`) | one row per (user, product) | grant from an order, grant and revoke by hand, access checks | a row belongs to the order that granted it last | `OrderPayment`, `Checkout` |
| settlements and KYC (`settlements/`) | transfers, linked accounts, reserve | split, retry, reverse, adjust, KYC review, account events | the reserve is that of the standing transfers; a sale is paid out once | `OrderPayment` (transfers) |
| student tests (`student-tests/`, web runner) | attempts, answers, grades, concept mastery | start or resume, save, submit, result | one attempt under a limit of one; graded once; nothing accepted after the key was shown | `TestAttempt` |
| content workflow (`content-workflow/`) | lesson versions, comments, the lesson's current version | edit, attach, submit … archive, revise, comment | no review step skipped; one published version, the approved text, with media; no edit lost | `ContentWorkflow` |
| access policy (`packages/auth`, `authz/`, `auth/access.guard.ts`) | roles, assignments, cached principals, permission versions | `can`, `resolvePrincipal`, `invalidate*` | no decision from a principal older than the last announced change | `Principals` (cache), `ContentWorkflow` (status table) |
| courses and pricing (`courses/`) | courses, chapters, topics, lessons, prices | create, edit, archive, `addLesson` | every lesson has a first version | partly, in `ContentWorkflow` |
| sessions, codes, sign-in (`auth/`) | login sessions in families, one-time codes, lockout counters, trusted devices | sign-up, login, MFA, refresh, logout, password change and reset | a family has one token; a reuse ends it; a code is used once; a new password ends what the old one opened; wrong secrets lock | `SignIn` (staff) |
| invitations (`invitations/`) | staff invitations | create, accept, resend, revoke, expire | accepted once, never after a revocation; one link at a time; staff seats within the plan | `Institution` |
| institution billing (`billing/`) | one subscription per institution, invoices | provision, self-serve, charge, cancel, trial, demo grant | one invoice and one period per charge; what is paid is not expired; a cancelled subscription stays so | `Billing` |
| student roster (`students/`, `student/`, `common/assert-student-seat.util.ts`) | a student's institution | enrol, join by code, link, leave | the plan's student cap holds | `Institution` |
| organizations (`organizations/`) | institutions, head, access code | register, suspend, remove, new code | the head belongs to the institution; members notice its suspension | partly, in `Institution` (heads), `Billing` (demo grant), `Principals` (suspension) |
| notifications and worker (`notifications/`, `apps/worker`) | Redis queues, dead letters, once-only keys | enqueue, deliver with retries, dead-letter, stop, sweeps | a queued message is delivered or dead-lettered; a reminder is sent once and in time | `Delivery`; sweeps also in `Billing`, `StudyPlan` |
| study plans and progress (`student/`) | plan, plan items, lesson progress, bookmarks | generate, mark, reschedule, progress, nightly rebuild | one active plan, with all that was bought; done stays done | `StudyPlan` |
| test builder, question bank | test versions, questions | the review workflow again | as the content workflow | not modelled |
| saved cards (`payment-methods/`) | at most five cards, one default | save from a payment, set default, remove | limits, one default | not modelled |
| staff and roles (`staff-admin/`) | roles, permissions, assignments | edit, suspend, reactivate | every edit bumps a version | `Principals` (edits), `Institution` (status) |
| assets (`assets/`, `s3/`) | one status per asset | intent, complete with a scan, embed | only READY assets are attached | not modelled |
| doubts, support | a status and replies | ask, reply, assign, resolve, reopen | — | not modelled |
| notices, announcements, blog, marketing, contact, demo requests, ratings, wishlist, papers, current affairs, concepts, mobile releases | single rows | create, edit, list | — | not modelled |
| catalogue, search, customer lookup, analytics, readiness, tracking | none of their own | read | — | not modelled |
| Razorpay client, e-mail templates, PDF, metrics | none | input and output | — | environment |
| web, admin, mobile | screens | call the API | — | test runner only, in `TestAttempt` |
| schema, contracts, translations, design system, config, infrastructure | — | — | — | unique indexes and locks only |

**How they interact.** Checkout leaves an order PENDING at the provider. The
browser's `/verify` and two webhooks of one charge then all call `markPaid`,
which grants an entitlement and splits the money to the institution that owns
the course; a refund undoes both. Entitlements are what student tests and lesson
access ask for. Published lesson versions are what students see. An invitation
accepted by a first head starts a trial; the subscription decides, through cached
principals, what the institution's staff may do and how many students and staff
it may have; the worker expires trials and sends reminders. All of them leave
messages on Redis lists that the worker delivers.

**What is hard.** Interleavings of requests that read a status and write
later; transactions in PostgreSQL's default isolation (READ COMMITTED) that lock
only where the code says `FOR UPDATE` or runs Serializable; provider calls between
two transactions, which fail or are the last thing a dying request did; webhooks
that are delivered at least once and in any order; client requests that are lost,
doubled or overtake each other; caches and counters that lag behind. The list,
line by line, is `hazards` in `PROJECT.json`.

## How the modules read

All component modules have the same shape. A request runs in a *slot*
(`Workers`, in `StudyPlan` `Slots`; in `ContentWorkflow` a staff member is a slot, in
`Delivery` a worker process has one for its queue and one for its sweep) and `job[w]`
(in `StudyPlan` `task[w]`) is its program counter and local variables. `Delivery` and
`StudyPlan` have names of their own for the parts all modules share (`DeliverySpec`,
`StudyPlanInit`, ...), since each is extended by a proof module together with another
component. The worker's hourly sweeps are jobs like the
API's requests. One action is one database statement, one
transaction or one provider call, together with the computation around it that
touches no shared state, so requests interleave exactly where the code awaits.
A transaction is one action only where the code makes it atomic: by a row lock
held from its first read, by Serializable isolation, or because it reads nothing.
`publish`, whose transaction does neither, is two actions (`Supersede`,
`PublishTx`). `Abort(w)` (in `StudyPlan` `Die(w)`) is a request dying between two statements: a crash, a
lost connection, an exception.

`Budget` bounds how many requests of each kind, faults and outside events a
behaviour has; without it the state spaces are infinite. `Budgets` (`Allowances` in
`Delivery` and `StudyPlan`), in the newer modules, is a set of such bounds of which a behaviour takes one: each is chosen for
one kind of race, so that every one of them happens without all of them
happening together. Since the budgets run out, the systems stop, and the runs do
not check for deadlock (`CHECK_DEADLOCK FALSE`; `Principals_race` does, as
principals can always be resolved): nothing in the code blocks on anything but
row locks held within one action.

Where the code checks and writes without a lock, a promise often holds only for
requests that do not overlap. The history variable `raced` records that two have
overlapped, `died` that one has died between two statements; a property that needs
them says `~raced` or `~died`, and then is about long sequences of whole requests
beside the events nobody controls: expiry, redelivery, the provider's cancellations.
What happens under overlap is listed under "Where the code does otherwise".

Most properties of a run are conjunctions of named parts, which stand above them in
the module with a comment each: `StatusIsEarned == PaidNotExpired /\
CanceledStaysCanceled`. Parts of one property are about the same hazard. A run's
properties are few and each was seen to fail for a plausible bug (see below).

Reads that only answer a client, audit rows, notifications, mails, logging and
formatting are left out. Definitions that no action uses and that sit before the
one they resemble (`ConfirmTxUnlocked` before `ConfirmTx`) are its mutated forms:
each property of each passing run is known to fail when one such form replaces
the original.

### OrderPayment

An order after checkout. Tables: `order`, `payment` (statuses), `ent` (the
entitlement of a seat, that is a user and a product), `transfer`, `reserve`,
`refunds`, `seen`/`processed` (payment events). The provider: `captured`,
`acked`, `payouts`. `purchases` counts conversion events; `refunded` is a history
variable.

`Verify`, `RecordEvent`, `DuplicateEvent`, `InsertFails`, `LookupOrder`, `ConfirmTx`, `Grant`,
`SendPurchase`, `Split`, `RecordSplit`, `SplitFails`, `FinishEvent` are `verify`,
`handleWebhook`, `markPaid` and `createTransferForOrder`, statement by statement.
`Refund`, `RequestRefund`, `DecideRequest`, `ApproveRefund`, `RejectRefund`,
`RefundCheck`, `RefundTx`, `ReverseTransfer`, `ReleaseReserve`, `RecordRefund` are
the refund paths of Super Admin and Academic Head. `RetryTransfer`, `RetryPay`,
`RetrySave` are `retryTransfer`; `GrantManual` and `Revoke` are the
administrator's. `Capture` is the provider taking the money. `handleWebhook` answers any
failure of its insert as a duplicate: a repeated event is `DuplicateEvent`, any other
failure `InsertFails`, a fault that loses the event. `Owned` are the orders for a
course of an institution, for which an Academic Head may ask for a refund;
`Marketplace` those of them whose money is split.

| run | instance | what it shows |
|---|---|---|
| `OrderPayment_race` | 1 order, 2 slots, 2 verifies, 2 webhooks, a refund, a fault; fairness | `OncePerSale`, `AccessOnlyFromCapture`: however confirmations interleave, an unrefunded order is sold once, and nothing but a capture gives access. `CaptureGivesAccess`: unless a request dies or an event is lost, money taken becomes access, with or without the browser, and stays unless it is refunded; `EventsAnswered`: every webhook is answered in the end, faults included |
| `OrderPayment_sequential` | 2 orders for one seat, 1 slot, no fault | what holds when requests do not overlap. `TransfersAddUp`: the reserve is that of the standing transfers, and a retry never pays a second time. `FullRefundUndoesSale`: a full refund revokes access and reverses the transfer. `RefundsStayInBounds`: a refund revokes what its own order granted and nothing else, a rejected refund stays rejected, and an Academic Head's refund never reverses a settled sale |

Two slots suffice for every race found here: the handlers guard each other
pairwise, through one row. Two orders for one seat are needed because a renewal
overwrites the entitlement's `orderId`. The sequential run needs the second
order, a request, a decision, a direct refund and a retry, so all four kinds have
a budget.

*Fairness.* `WF(Step(w))`: Node runs a started handler to its end or it dies
(`Abort`, which is not fair). `WF(Redeliver(e))` per event: Razorpay redelivers until
it gets a 2xx. Nothing is assumed of people:
`/verify` may never come.

### Checkout

`createOrder`: `CreateOrder` (key, KYC), `CheckProduct`, `CheckEntitlement`,
`CheckPlan`, `ReserveTx` (the coupon's row lock, its checks, the order and the
redemption in one transaction), then `Enroll` and `Thank` on the free path or
`AskProvider` and `OpenOrder`. `Pay`, `Refund`, `Lapse` and `Toggle` stand for everything that
happens to orders, plans and KYC elsewhere. `answers` is what callers were told.

| run | instance | what it shows |
|---|---|---|
| `Checkout_race` | 2 users; a plan, an own course of an institution, a free course; a coupon with one redemption and a 100% coupon limited per user; one key; 3 orders, 2 slots, one fault or outside change | `RedemptionsWithinLimit`: a coupon is attached to no more orders than it may be, however many checkouts race for it. `OnePaymentPerKey`: a repeated key opens one payment. `OwnOrdersOnly`: nobody is answered with another's order. `FreeIsEarned`: a free course follows an active plan, and a 100% coupon limited per user is used once by each |

Three checkouts are the smallest number in which a coupon can be exhausted by
one and raced for by two, and in which a key is used, repeated and stolen.

### TestAttempt and Exam

`StartAttempt` and `ResolveTx` (the Serializable transaction) find, resume or
create an attempt. `Answer`, `Lose` and `SaveAnswer` are the client: saves are
elements of the set `inflight` and arrive in any order or not at all;
`SaveWrite` is the upsert. `Submit`, `ReadAnswers`, `SubmitTx` grade and store;
`GetResult`, `Result` release the score and the key. `Expire` and `CloseWindow`
are the clock. Nothing keeps two submissions of one attempt apart: each window of the
web runner sends one (`submittedRef`), two windows or a retry send two, and both pass
the status check of `submit` when neither has committed. `doubled` remembers the attempts
for which that has happened.

`Exam` is the abstract specification: a student with access sits once (`Sit`), hands in
papers as long as the exam is not finished (`HandIn`), and it is finished, and its score
written, only by marking a paper that was handed in (`Mark`). A student whose papers
are all marked keeps the score for good; two papers handed in before either is marked
may be marked one after the other. The score is that of the sheet marked last; a
submission that fails on the way drops its paper (`Drop`). `TestAttempt` implements it with `Phase`,
`FinalScore` and `Marking` as the refinement mapping (`TakenLikeAnExam`).

| run | instance | what it shows |
|---|---|---|
| `TestAttempt_race` | 2 students, 2 attempts, 2 questions, limit 1, 2 slots, 2 starts, 2 answers, 2 submissions, a look at the result, a fault | `OneAttempt`: concurrent starts, expiry and late submission give nobody a second attempt. `GradesAgree`: score and grades are of the same answers unless two submissions overlapped; concept mastery misses no graded answer, and counts each once where submissions did not overlap. `NoSaveAfterReveal`: nobody who was shown the key has an answer accepted. `TakenLikeAnExam`: the refinement of `Exam` |

### ContentWorkflow

`OpenForm`, `EditVersion`, `CheckRow`, `EditWrite` are an edit from a form that
may have been open for long; `AttachAsset`, `AttachWrite`, `CreateNewVersion`,
`ReviseWrite`, `AddComment`; the transitions share `Ask` (the checks),
`CheckMedia`, `Transition`, and `Supersede`/`PublishTx` for publication. `From`,
`To`, `Permission`, `Comment` are the transition table as the handlers spell it,
`StatusAllows` is the policy engine's table; an operation passes only if both
allow it. A text is the set of edits it contains, so that a lost edit is visible.

The history variable `raced` is a set here: the lessons on which two requests have
overlapped (an open edit form is not a request). `ReviewTrail` and the part of
`PublishedIsSound` about media hold always; the rest (`PublishedIsCurrent`,
`ApprovedTextPublished`, `EditsKept`, `RetiredStaysRetired`) holds on the other
lessons. `approved` and `accepted` are history variables.

| run | instance | what it shows |
|---|---|---|
| `ContentWorkflow_race` | a teacher and an academic head, one lesson that needs media, two versions, two edits; two open forms, comments or overlapping requests | `ReviewTrail`: no step of the review is skipped on the way to publication. `PublishedIsSound`: what is published has its media, is the lesson's current version and is the text that was approved. `EditsKept`: no accepted edit is overwritten by a form that had not seen it. `RetiredStaysRetired`: a rejected, superseded or archived version does not come back |

Two versions are the smallest number in which one supersedes another; `Budget`
bounds edit forms, comments and overlaps together, all other operations are
unbounded.

### Billing

The subscription of one institution. `sub` is the `organization_subscriptions` row,
`invoices` counts invoices per charge, `seen` are the payment events. The provider:
`contracts`, `charged`, `sent`. `periods` counts how often a charge has extended the
period.

`HeadAccepts` (the trial), `Subscribe`, `OpenContract`, `Provision`, `BillGrant` are
`provisionSubscription` for a Head (`self`) or by Super Admin; `GrantDemo`,
`DemoWrite`; `Cancel`, `Withdraw`, `CancelWrite`; `SetTrialEnd`, `TrialWrite`,
`EndTrial`, `Sweep`, `Expire` are trials and the worker's sweep. A charge is reported
by `Confirm` (the checkout's callback) and by `RecordEvent`, `FindRow` (the webhook),
and both go through `LookUp`, `Activate`, `RecordCharge`, which are
`activateChargedSubscription`. `Overdue` is pending and halted. `Charge`,
`MissPayment`, `DropContract` and `Tick` are the provider and the clock. `InsertFails` is
an event lost because its insert failed (see `OrderPayment`); `died` remembers it like a
request that died.

| run | instance | what it shows |
|---|---|---|
| `Billing_live` | 2 contracts, 2 charges, 2 slots, cycle and trial of one unit, 2 requests of people, 1 trouble; fairness | `ChargeCountsOnce`: one invoice per charge, always, and one period without overlap and deaths. `ActiveContractIsPaid`, `StatusIsEarned`: without overlap an active contract was paid for, is not expired by the sweep, and a cancelled one comes back only for a charge not yet on the books. `SettledInTheEnd`: every charge on the institution's contract gets its invoice unless a request dies or its report is lost, and a trial that has run out does not stay one |

Two contracts are needed because a provision replaces one by another while charges
of the first are on their way, two charges because a renewal extends what the
first paid for. `Horizon` is one: a trial and a period can both have ended.

*Fairness.* `WF` of every started request's next step; of `RecordEvent` (the provider
sends what it has sent again until it is answered); of the sweep, which a timer starts
every hour. Nothing is assumed of Heads and administrators, and the checkout
callback may never come.

### Institution

`inv` are the `staff_invitations` rows (`fresh`: not past `expiresAt`), `staff` and
`students` the accounts, `chief` is `headUserId`, `sub` says whether the
subscription is usable.

`Invite`, `CheckPending`, `CheckSeats`, `Insert` are `create`; `OpenLink`,
`MarkExpired`, `Accept` are preview and accept; `AdminAccept`, `Resend`, `Renew`,
`AskRevoke`, `Revoke`. `SetStaff` is the status of a staff member. Students come by
`SignUp` (with or without a referral), `Join`, `Enroll` with `CheckRoom`, `AddMember`,
`EnrolStudent`, change by `SetStudent`, `DeleteAccount`, and go by `Leave`. `Lapse`
is the passing of `expiresAt`.

| run | instance | what it shows |
|---|---|---|
| `Institution_race` | 3 invitations, 2 people, 2 students, one staff seat, one student seat, 2 slots; budgets of staff requests, student requests and deaths | without overlap: `SeatsWithinPlan` (team plus live invitations, and the roster, fit the plan over every sequence of requests that ask the gate), `OneInvitationEach` (one working link and one account each), `InvitationsKeepFaith` (an answer is final; a live link is never marked expired) |

Seats are one so that two people compete; three invitations allow two for one
person and a third for the other. `unchecked` remembers the ways around a gate
that the code has (see "Where the code does otherwise"); the properties are about
behaviours that do not take them. Invitations, people and students are symmetric.

### SignIn

One staff account. `failed`, `locked` are `users.failedLogins`, `lockedUntil`;
`counter` is the address's counter in Redis; `codes`, `devices`, `sessions` are the
rows in order of creation; `lastUsed` and `step` belong to the authenticator.
`challenge` says which mfaTokens somebody holds: got with the password of now ("now") or
with a former one ("late"). They are stateless and last five minutes, so a change of
the password does not end them. `opened` records of each session and device under which
password it was opened: the one of now, one before it, or, by such an mfaToken, "late". An
authenticator code is named after the time step it belongs to; the server accepts it
within `Tolerance` steps of its clock (`Near`) and stores the step of the clock
(`Newer`). `wrong` and `guesses` count wrong secrets, `accepted` the codes accepted and when.

`TryPassword`, `Bump`, `ExpireCounter`, `Fail`, `ClearCounter`, `PasswordPasses` are
`staffLogin`; `TryTotp`, `CheckStep`, `StampStep`, `TrustDevice`, `Settle` are
`staffMfaVerify`; `CreateSession`, `ListSessions`, `TrimSessions` create a session and
enforce the limit; `Refresh`, `Rotate`, `DetectReuse`, `RevokeFamily` are the refresh
endpoint. `Logout`, `LogoutAll`, `ChangePassword`, `WritePassword`, `RevokeSessions`,
`RevokeDevices` end things; `RequestCode`, `TryCode`, `MissCode`, `ConsumeCode` are
one-time codes. `TimePasses` lets a lock, a counter, a code or a step run out.

| run | instance | what it shows |
|---|---|---|
| `SignIn_race` | 2 failures lock, 1 attempt per code, 1 session, 5 rows, tolerance 1 and 3 time steps, 2 slots; six budgets: lockout, authenticator, sessions, reset, password change, and a password change between the password and the authenticator code | `TokenFamilies`: one working token in a family, none after a reuse. `SessionsWithinLimit`: the limit holds and the newest survive. `NewPasswordEndsAccess`: nothing opened before the new password works, trusted devices and rotated sessions included; an mfaToken at hand does. `SecretsAreLimited`: wrong secrets in a row lock; each right password buys `MaxFailures - 1` more wrong authenticator codes and no others; a one-time code is good once, a time step for one authenticator code. The first needs requests that do not overlap; the others that none dies either where the code writes in several statements |

The limits are the smallest that tell "at" from "beyond"; three sessions of two
families fit `MaxRows`, and a rotated session's successor. Three steps and a tolerance
of one are enough for a code that is early, in time and late. What an access token is
good for (`verifyAccess` does not look at the purpose of a token) is not modelled.

### Principals

`fact` are the changes made to the user, the institution and its subscription,
`held` and `perms` the role and its permissions; `version` and `roleVersion` are the
`permVersion` columns; `cache` is Redis. `era`, `roleEra` and `past` are histories of
what had been announced, or was so, when.

`Change`, `ChangeRole` commit a change and `Announce`, `AnnounceRole` bump a version
later; `ChangeSilently` are the changes the code announces to nobody. `ReadUser`,
`ReadRoles`, `ReadRights`, `Hit`, `Miss`, `Store` are `resolvePrincipal` read by read,
`Decide` is the guard.

| run | instance | what it shows |
|---|---|---|
| `Principals_race` | 2 roles, expiry 2, 3 moments, 2 slots; three budgets of two changes and a death | `ChangesAreSeen`: whatever overlaps, a request is decided on everything announced before it started. `StaleAtMostTTL`: what is never announced is seen after the expiry, if resolving takes no time |

Two slots: one resolves while the other changes; two changes are needed for an
entry of a version that was read between them. There is no liveness here, and
the run checks for deadlock.

### Delivery

`queue` and `dead` are the Redis lists, `claims` the `rr:notified` keys; `mode`,
`loop` and `sweep` are each process's state, delivery and reminder sweep. `sent`,
`parked`, `gone`, `signalled`, `mailed`, `swept`, `missed` are history.

`Queue` is the API's `lpush`; `Pop`, `Accept`, `Refuse`, `Park`, `LoseParked`, `Trim`
are `consumeLoop`, `deliver` and `deadLetter`; `StartSweep`, `ClaimRow`, `MailRow`,
`EndSweep` the two reminder sweeps; `Start`, `Stop`, `StopPopping`, `Exit`, `GraceOver`,
`Kill`, `SweepFails` the life of a process; `Renew` and `PassDay` the entitlements and
the clock. A stop closes the process's connection to Redis when no delivery is in
flight (`Connected`): a message popped after that has been removed from its list, and
a delivery of it that fails cannot be dead-lettered either.

| run | instance | what it shows |
|---|---|---|
| `Delivery_live` | 2 mails, 1 text, an entitlement and a billing period, 2 processes, 2 attempts, a dead-letter list of one; five budgets; fairness | `MessagesAreKept`: a message is in one place, a stop waits for the delivery in flight, the dead-letter list holds the newest. `EndsAnnouncedOnce`: every end announced once and in time if a sweep is completed every day. `QueuedIsAnswered`: a message is accepted or dead-lettered unless its process ends. `DeliveryTypeOK` |

The window is 3 days and a claim lasts 4, as in the source; `Validity` is 5, the
least for which a renewed end is announced again (a shorter one is listed below). Two
processes are a deployment. Assumed: a sweep takes less than a day.

*Fairness.* `WF` of the delivery loop and of the sweep of each process (its event
loop), of starting it again and of its exit once told to stop. Deaths, refusals and
stops are not fair.

### StudyPlan

`plans` are the rows with their items, `completed` the lessons finished, `entitled`
the exams paid for, `claims` the `rr:planswept` keys.

`Read`, `Regenerate`, `SetGoal`, `GenerateForGoal` start `generate`, whose statements
are `Abandon`, `Create`, `ReadRights`, `ReadFinished`, `Fill`; `Pack`, `WithDrill`,
`AddLesson` are its loop over the remaining lessons, as a recursive function. `LessonsOf`
is the query: the first `Take` lessons of the exams (300 in the source), from which the
completed ones are then taken away. The last day of the plan (`horizon`) is any up to
`PlanDays`, as a near target date brings it forward. `Buy`, `Refresh` are
`grantFromOrder`'s effect on the plan. `ReadItem`, `Mark`, `ReadPending`, `Move`,
`ReadProgress`, `WriteProgress` are what the student records. `Sweep`, `Claim`,
`MarkMissed`, `Judge` are the worker's, which then generates through the same
statements (`by = "worker"`).

| run | instance | what it shows |
|---|---|---|
| `StudyPlan_race` | 4 lessons of 2 exams of which 3 are read, 2 days or 1, a goal of 4 minutes, 2 slots; five budgets | `PlansAreSteady`: no more active plans than slots, a lesson pending once, one rebuild a day. `GeneratedPlansAreRight`: a plan of the API covers every purchase however generations and purchases overlap, and fits its days. `WorkIsKept`: the sweep takes no work back; a completed lesson stays completed without overlap. `StudyPlanTypeOK` |
| `StudyPlan_v_covers` | the same; a purchase, then the worker | counterexample: the worker's rebuild drops what was bought for another exam |

The lessons have minutes below, at and beyond the goal, and one comes after a drill,
so that every branch of the packing is taken; three of four lessons are read, so that a
completed one can keep another out of the plan. That a plan "covers" an exam says that
the exam was considered, not that a lesson of it is planned.

## What is proved

TLC shows the properties on the instances above; the theorems hold for every
value of the constants that satisfies the modules' named assumptions
(`OrderPaymentAssumption` and so on: types of the parameters, finiteness where
something is counted, and that `None` is none of the identifiers). The assumptions
are evaluated by TLC in every run. Each proof module first proves `TypeOK`.

- **OrderPaymentProofs.** `AccessOnlyFromCaptureHolds`: the inductive invariant
  `CaptureInv` adds to the property that every request past its signature or event
  check works for a captured order, and that an entitlement's order is one of those.
  `OncePerSaleHolds`: an unrefunded order that is not yet PAID has sold nothing, and
  at most one request is between its `ConfirmTx` and the end of the sale (`SaleInv`);
  this is what the row lock gives, since `ConfirmTx` reads and writes the status in
  one step. `TransfersAddUpHolds`, `FullRefundUndoesSaleHolds`,
  `RefundsStayInBoundsHolds` are about the settlement and the refund of a sale; under
  overlap they are false (see below), so they say what holds as long as `Undisturbed`
  does: no two requests work on one order or one refund row at the same time, and
  none has died. That is weaker than one request at a time: any number of slots may
  work on different orders. `AloneInv` says what each request then knows of its
  transfer and its refund (`SaleStands`, `RefundStands`) and that the
  reserve is the sum over the standing transfers. In the run, with one slot and no
  fault, `Undisturbed` always holds. That
  a refund revokes the grants of its own order only needs no such hypothesis.
- **CheckoutProofs.** `RedemptionsWithinLimitHolds` (`redeemedCount` equals the
  number of orders carrying the coupon, `CountOK`), `OwnOrdersOnlyHolds`
  (`AnswersOK`, and every running request carries the order of its own user,
  `JobsOK`). `OnePaymentPerKeyHolds`: a key belongs to one order, no two requests
  work on one order, and a request about to call the provider makes that order's
  first call (`KeysInv`). `FreeIsEarnedHolds`: whoever has an order of a free course,
  or a request past the plan check, has once held a plan, which neither expiry nor a
  refund undoes (`PlanInv`); an order whose coupon takes off the whole price never
  waits for payment, so that its use is counted when the coupon's lock is released
  (`CouponInv`).
- **StudentProofs, TestAttempt.** `OneAttemptHolds` and `NoSaveAfterRevealHolds` for an
  attempt limit of one (`OneOK`: all attempts of a student are one; `RevealOK`: who
  was shown the key has a finished attempt). `TakenLikeAnExamHolds`, for the same
  limit, is the refinement of `Exam`: `Init` implies `E!Init`, and every step is a step
  of `Exam` or leaves phase, score and papers alone. `ResultIsFinalHolds`, for any limit:
  an attempt that is finished and not in `doubled` has no submission running.
  `GradesAgreeHolds`, for any limit: only finished attempts have grades (`GradesInv`), so
  the first transaction of `submit` adds the answered questions of an attempt to a
  count that did not contain them, and a second one of the same attempt adds at least
  what it newly grades. Nothing is assumed about how often and when clients submit.
- **StudentProofs, StudyPlan.** `PlansAreSteadyHolds`, `GeneratedPlansAreRightHolds`,
  `WorkIsKeptHolds`, from one inductive invariant, `StudyPlanInv`. `Rows`: the plan and
  the item a task works on exist, a plan that is being generated is empty and belongs
  to one task. `Covered`: once the API has read the purchases, it knows them all or the
  plan it fills is no longer ACTIVE, because a purchase abandons the plan after it is
  written and the generation reads after its plan is created; this holds under any
  overlap. `Quiet`: until tasks overlap, what a task has read is still so. `Replanned`:
  nothing in an ACTIVE plan is older than the last rebuild, so no item of it can be
  MISSED on the day of that rebuild, and it is not judged behind. `AllSound`: every plan
  keeps to the minutes of a day and to its days. The last rests on what the packing loop
  computes (`PackIsRight`): after any number of lessons the day in hand is within the
  goal and a drill, or holds one lesson, and the days before it are closed.
- **ContentWorkflowProofs.** All four properties of the run, from one inductive
  invariant: what a version's status says of its trail, its media, its text and
  its lesson (`TrailOK`, `MediaOK`, `QuietOK`), what a running request knows
  (`Good`: true whatever others do; `Fresh`: true as long as its lesson is not
  in `raced`), and that on such a lesson only one request is running (`Solo`).
- **BillingProofs.** `ChargeCountsOnceHolds`, `ActiveContractIsPaidHolds`,
  `StatusIsEarnedHolds`. Until two requests have overlapped at most one is running
  (`Alone`) and what it has read still holds (`StillTrue`); a charge being
  recorded names the contract of the row, and has extended the period at most once,
  and only if its invoice is written or about to be.
- **InstitutionProofs.** `SeatsWithinPlanHolds`, `OneInvitationEachHolds`,
  `InvitationsKeepFaithHolds`. `Alone` again; a request past a gate knows that the
  gate still holds (`StillOpen` for the invitation it read, `Seated` for the seat it
  was promised), so that the step that takes the seat adds one to a count below the
  cap. The counting uses `FiniteSetTheorems`.
- **SignInProofs.** `TokenFamiliesHolds`, `NewPasswordEndsAccessHolds`,
  `SecretsAreLimitedHolds`. What holds always (rows are numbered, a job's row exists)
  is separate from what holds until requests overlap: one active session per family
  and none in a reused one (`Families`), codes and steps accepted at most once
  (`CodesOK`, `StampsOK`: a code and the step that accepted it differ by the tolerance at
  most, and steps grow), and, until one dies, that `wrong` is what `failed` says unless
  the account is locked or a request is between two of its statements, and that the
  wrong codes since the last sign-in are `failed` and at most `MaxFailures - 1` for each
  right password in between. A session or a device of a request under way is never
  "before" the password of now unless the request is about to revoke it.
  `SessionsWithinLimitHolds`: a request between `CreateSession` and `TrimSessions` has in
  hand every session beyond the newest ones the limit allows, or the sessions are within
  it (`LimitInv`).
- **RedisProofs, Principals.** `ChangesAreSeenHolds`, `StaleAtMostTTLHolds`: versions and
  histories only grow, nothing announced is newer than the fact, and every entry and
  every principal in hand has seen what its version stands for (`Seen`) and is no older
  than its expiry allows (`Fresh`). This needs no assumption about overlap: the
  version is read before the facts, so a key can only be too old for its value.
- **RedisProofs, Delivery.** `MessagesAreKeptHolds`: a message is on one list or in one
  process's hands (`LoopsOK`, `ListsOK`), what was in flight at a stop is waited for
  (`LostOK`), and a list of undeliverable messages is a prefix of what was parked,
  newest first, longer than its cap by no more than the trims under way and those that
  died (`DeadOK`); the trim of one process may cut what another has just pushed, and
  still only the oldest goes. `EndsAnnouncedOnceHolds`, under `Spacing`: a claim outlives
  the end it is for and ends before the next one comes near (`ClaimsOK`, `OnceOK`,
  `InTime`). `Spacing` is `0 < Window < ClaimDays < Validity`: 3 and 4 days are constants
  of the source, the validity is a product's, and one of four days or less is the case
  listed below, in which a renewed end goes unannounced.

The proofs are hierarchical: one lemma or step per action, one step below it per
conjunct the action can disturb, and a temporal step at the end.

What a loop computes is proved for the loops of the source as they stand: the running
minutes of a day and the packing of lessons are recursive functions, and a fact about
them follows from the least step at which it would fail (`LeastElement`, from the
well-foundedness of the naturals). A general induction theorem is not used: it
takes a predicate as a parameter, which the provers cannot instantiate.

**Only model-checked.** Liveness (`CaptureGivesAccess`, `EventsAnswered`,
`SettledInTheEnd`, `QueuedIsAnswered`): TLAPS proves none under fairness. Every other
property of a passing run is a theorem; those for which a hypothesis on the constants is
named above (an attempt limit of one, `Spacing`) hold under it, and the runs' instances
satisfy it.

## Where the code does otherwise

Each of these was met while translating the code. One has a run of its own, which
ends in a counterexample: the worker's nightly rebuild takes lessons from the goal
exam alone (`StudyPlan_v_covers`; `apps/worker/src/main.ts:463`), so that what a
student bought for another exam leaves the plan, although "their plan must still
include what they paid for" (`student/study-plan.service.ts:327`).

The other known disagreements and limits have no run. They follow from the same
models (the properties that would show them are not in the modules):

- *Payments.* `markPaid` returns early only for PAID: a confirmation that arrives
  after a refund sells the order again (`payments/payments.service.ts:624`, comment
  at 671). A full refund between `markPaid`'s commit and its grant revokes nothing,
  and the grant outlives the refund (`:432`, `docs/api-spec.md:141`). Two
  administrators retrying one held transfer pay it twice
  (`settlements/settlements.service.ts:169`, comment at 145). An event answered with
  a 2xx may never have been processed: the event row is committed first, and a
  redelivery is a no-op (`payments/payments.service.ts:297`); and any failure to insert
  the row, not only the "Unique violation" of the comment there, is answered with 200
  and `duplicate`, so that the event is lost before it was recorded (`:293`). With a fault between
  them, a full refund leaves the transfer standing (`:416`, `:434`). With two slots,
  an Academic Head's direct refund can reverse a transfer recorded after the check
  (`:493`), and two refunds release one reserve twice
  (`settlements/settlements.service.ts:198`). An approval of a requested refund and its
  rejection both read PENDING_APPROVAL and act later: when they overlap, the money goes
  back although the refund was rejected, or the rejection overwrites the approval
  (`:537`, `:564`). Full is decided per refund, so two
  halves leave access in place (`:427`).
- *Checkout.* `perUserLimit` counts PAID orders only: several unpaid orders with one
  coupon are all paid (`payments/payments.service.ts:744`, comment at 733). A
  repeated key may be answered `alreadyPaid` before the free order's access exists,
  or although it never will (`packages/contracts/src/payment.ts:60`); a request that
  died before it opened the provider's order leaves its key answering with an
  error (`docs/api-spec.md:135`); two orders for one product opened before either
  is paid are both paid (`:145`, comment at 139). A redemption reserved by an
  abandoned checkout is never released (`:750`).
- *Tests.* Two submissions of one attempt at once (two windows, a retry) both pass the
  status check (`student-tests/student-tests.service.ts:174`) and both run the
  unconditional transaction (`:241`): concept mastery counts the answers twice
  (comment at 237), and if a save lands between their two readings the second changes the
  score and the grades of an attempt that was finished, graded and perhaps shown. The web runner
  ignores a failed save, so what is graded may not be what the screen showed
  (`runner.tsx:145`). `AFTER_WINDOW` without `availableTo` behaves like `IMMEDIATE`
  (`student-tests.service.ts:414`). Without an attempt limit, an expired attempt that
  was never submitted allows another (`:387`).
- *Content.* Two publications of two versions at once leave both PUBLISHED
  (`content-workflow/content-workflow.service.ts:432`, comment at 431).
  `packages/contracts/src/content.ts:20` says that `rowVersion` guards
  concurrent edits; it is compared in memory and the write is unconditional, so
  overlapping saves lose one. Racing approvals and rejections overwrite each
  other; an approval that overlaps an edit publishes text nobody reviewed; a
  stale publication brings back what was archived. SCHEDULED versions wait for
  a person: no sweep publishes them. `docs/api-spec.md:79` allows edits in DRAFT
  and CORRECTION_REQUIRED, `content.edit_all` also in SUBMITTED and
  UNDER_REVIEW; it allows comments and archiving from any status, `STATUS_ALLOWS`
  does not; `docs/permission-matrix.md` gives Content Admin review and publication,
  `ROLE_PERMISSIONS` does not. A new version starts without its predecessor's
  assets.
- *Billing.* Under overlap: the sweep expires what has just been paid; two reports of
  a charge both extend the period; a charge of a replaced contract activates the new,
  unpaid one. In any order: a late pending notice after the charge that cleared it
  sets PAST_DUE; a demo grant overwrites a live contract, whose later charges then find
  no subscription; the event row is committed first, so a webhook that dies loses its
  charge. Cancelling, pending notices and a new licence do not invalidate cached
  principals (`billing/billing.service.ts:304`).
- *Institution.* "The single gate every path … must go through"
  (`common/assert-student-seat.util.ts:5`) is passed by: sign-up with a referral code
  (`auth/auth.service.ts:160`) and reactivation of a student, signing in by phone
  included. The staff gate is passed by an administrator's acceptance or a resend of a
  lapsed invitation, by reactivation, and by several first heads invited before one
  accepts (`invitations/invitations.service.ts:76`). A lapsed invitation sent again
  beside a newer one gives two working links. Under overlap: a revocation during an
  acceptance ends REVOKED with an account; an EXPIRED write undoes a resend; two
  requests take the last seat.
- *SignIn.* An mfaToken is a stateless token of five minutes (`auth/token.service.ts:37`):
  one got with the old password passes `staffMfaVerify` after the password was
  changed, opens a session and trusts a device (`auth/auth.service.ts:412`, `:441`), which
  live on until the next new password. A right password resets the failures
  (`auth/auth.service.ts:359`), also between authenticator codes: who holds the password
  is never locked out of guessing codes, `MaxFailures - 1` per sign-in, although the
  comment says that the lockout of the password keeps the code space from being
  ground (`:420`). The step compared and stored is the clock's, not the code's
  (`auth/mfa.service.ts:60`): within otplib's tolerance one code is accepted in up to three
  successive steps, although the comment says that the step is stored to refuse a replay
  within that tolerance (`:62`). Under overlap: one token is rotated twice, a rotation in flight creates a
  successor after its family or all sessions were revoked, one code is accepted
  twice, a failing attempt clears a lock another has just set. A death between INCR
  and EXPIRE leaves a counter that never runs out. Signing in by phone makes a
  suspended student ACTIVE. A client that lost the answer to a rotation and retries
  ends its own family (`auth/session.service.ts:79`).
- *Principals.* The key holds the version of the role, not the role: between a
  replacement of a user's role and its announcement (after a death there, until the
  expiry) a principal of the old role can be found under the key of the new one.
- *Delivery.* A message popped after SIGTERM by an outstanding BRPOP is lost when the
  process exits, and if its delivery fails it is not even dead-lettered, as the
  connection is closed by then (`apps/worker/src/main.ts:123`, `:724`); so is a reminder claimed by a sweep the shutdown does not wait for.
  A reminder mail that fails rejects the sweep, nobody catches it, and the process
  ends with whatever it delivers; the claim survives the failed mail. Mails are always
  served before texts. With a validity below five days, an entitlement bought again
  right after its reminder ends unannounced. The trial reminders at 3 days and
  1 day are never sent: the first of the thresholds 7, 3, 1 always applies
  (`apps/worker/src/main.ts:359`, comment at 343).
- *StudyPlan.* Overlapping generations leave two ACTIVE plans, against the schema's "One
  ACTIVE plan per student at a time"; a death between the plan's creation and its
  items' leaves an empty one. A heartbeat that overlaps a completion undoes it; an
  item rescheduled twice at once gets two successors; a move that overlaps a mark turns
  DONE into RESCHEDULED. An item can be moved to the past, so that a plan is rebuilt
  twice a day. A lesson after a drill is not fitted again, so a day may exceed its goal
  by a drill. Access granted by hand does not renew the plan. `take: 300` is applied before
  the completed lessons are taken away (`student/study-plan.service.ts:362`,
  `apps/worker/src/main.ts:468`): in a catalogue of more lessons, a student who has
  completed the first 300 gets an empty plan, although later ones are left.

Hazards of the parts not modelled: two KYC submissions create two accounts at the
provider (`settlements/settlements.service.ts:232`), and account events arrive out of
order (`:348`); the sixth saved card, and no default after a removal
(`payment-methods/payment-methods.service.ts:72`, `:222`); two test versions
published at once (`test-builder/test-builder.service.ts:300`).

## Plan

Done: `OrderPayment`, `Checkout`, `TestAttempt` with `Exam`, `ContentWorkflow`,
`Institution`, `Billing`, `SignIn`, `Principals`, `Delivery`, `StudyPlan`, each with its
instances and runs, in this order because money and access come first, then
grades, content, the people and what they may do, and what runs by itself; proofs
of every safety and action property the runs check.

Next, in this order:

1. Linked accounts in `OrderPayment`: KYC submission, review and the provider's account
   events, which decide whether a sale is split.
2. Saved cards, and test versions beside `ContentWorkflow`.
3. Abstract specifications: the redemptions of a coupon for `Checkout`, a pool of seats
   for `Institution`.

## Not modelled, and why

Rows that are created, edited and listed by themselves have no behaviour beyond
their assignments: most of the source's lines are of this kind, or screens that call
the API. Reports and search only read. Password hashing, token
signing, magic-number sniffing, PDF and e-mail layout are pure functions without
state. Of sign-in, enrolling an authenticator, Google sign-in and profile changes are
left out: they end in the same session creation. The provider, the object store and
the browser appear as what they may do to the modelled parts. Amounts are small
integers, times are the events that
matter (an expiry, the end of a window), and the database is taken to provide what
its unique indexes, row locks and isolation levels promise.
