# Verification of the Interview Practice API

The repository is an interview-practice site: a NestJS API (`src/apps/api`, Postgres through
Prisma, Redis, BullMQ queues, AI providers over HTTP) and a Next.js client (`src/apps/web`).
The client keeps no state the server trusts, so the verification is about the API. Paths below
are relative to `src/apps/api/src/modules/` unless they say otherwise.

Six parts are modelled: the AI credit ledger, the billing of one user, the life of a mock
interview, the pipeline that turns a CV into questions, the interview about a CV, and the
explanations of technical terms. All of them have proofs. Section 6 says what is left out and why.

## 1. Inventory

| Component | State | Operations | What is hard about it | What makes it correct |
|---|---|---|---|---|
| AI credits (`ai-credits/`) | `credit_cycles` (granted, used, reserved, endsAt, `activeKey`), `credit_reservations` by idempotency key | open a cycle (free day, legacy subscription, order), reserve, consume, release, extend, expiry cron | Postgres at READ COMMITTED; settlements read the row before the billing lock; keys are reactivated on another cycle; day boundaries | never more promised than granted; counters are sums of the reservations; each key is charged once; overdue holds come back |
| Mock interviews (`mock-interviews/`) | `mock_interviews`, `mock_interview_questions`, the delayed auto-submit job | start, answer, submit (user, timer), recovery of timers, retry of scoring, admin delete | uploads racing submission; processes that die between commit and enqueue; retries racing jobs | no answer lost or skipped by mistake; every submitted mock ends with a complete result or can be retried |
| Mock core (`mock-core/`) | Redis lock per question, audio in storage | acquire and release of the lock, prepare and discard of audio, deadline, staleness and cooldown rules | the lock expires under its holder | a committed answer keeps its audio |
| AI jobs (`ai-jobs/`) | BullMQ jobs by `jobId`, `Score` rows | deduplicated enqueue, score job, `completeIfReady`, overview, improve and CV jobs | stalled jobs run twice; two jobs end together; the enqueue is dropped while a job of the same id is active | one overview; marks agree with scores |
| Payments and subscriptions (`payments/`, `subscriptions/`) | orders, payments, `subscriptions` | checkout, SePay webhook, manual grant, cancel, clean-up, downgrade and renewal crons | duplicated and late webhooks; under- and overpayment; two orders at once | no time is sold twice; access is exactly what was paid; an answered transfer has settled its order |
| Mock CV analysis (`mock-cv/analysis/`) | `mock_cv_analyses` with attempt numbers, CV files, question jobs | upload, claim, profile job, question generation, retry, removal | claims that go stale under a running worker; claim and enqueue are two steps | one set of questions per attempt; every claimed analysis ends or can be retried |
| Mock CV interviews (`mock-cv/interviews/`) | as mock interviews, with `overviewStatus` | as mock interviews, the overview being a job | as mock interviews | as mock interviews |
| Practice sessions (`sessions/`) | `sessions`, `scores` | create, on-demand score, improve, delete | also accepts the session of a mock | a score is paid once |
| Explanations (`explanations/`, `explanation-credits/`) | technical terms, generation jobs, credit reservations | claim of a new term, reserve, enqueue, generate, merge, store, charge, recovery and expiry crons | a 402 after the term was claimed; a slow worker overtaken by the recovery and a second user; finalize from a stale read | a term does not stay PENDING; what was stored stays; paid once, and only for what was stored |
| Authentication (`auth/`) | refresh tokens and verification codes in Redis | login, rotate, revoke all, issue and verify a code | a rotation in flight while all sessions are revoked | no session survives a revocation |
| Storage clean-up (`storage/`) | clean-up jobs | enqueue, process, retry | two passes over one job | an object whose row is gone is deleted in the end |
| DeepSeek token budget, cache (`ai/`, `../cache/`) | Redis counters and entries | check, record; get-or-set, invalidate | check-then-act | bounded overshoot; no stale fill |
| Throttling, concurrency limits, WebSocket, content CRUD, users, mail, audit, health | | | one script or one statement each | not modelled |

Interactions. `answer()` of a mock reserves and consumes a credit for transcription; submission
commits the mock in Postgres and then enqueues one scoring job per session; a scoring job
extends the reservation of its session, calls the provider, consumes, marks the question and
lets the last one write the overview, which has a reservation of its own. A payment or a manual
grant opens a credit cycle inside the billing transaction. Locks: the user's advisory billing
lock, the advisory lock of a mock (`answer`, `submit` and `retryScoring` take it, scoring jobs
do not), the Redis lock of a question with a TTL of 300 s, the Redis lock of operations on a CV
with a TTL of 120 s (upload and workers do not take it). A CV passes from its upload to a profile
job, from there to a question job, and is then the source of interviews; both jobs carry an
attempt number, and every write of theirs tests it. A request for an explanation inserts the
term, reserves a credit and enqueues a job; a cron fails terms that stay PENDING. `PROJECT.json`
lists the hazards of all of this at their lines, with the properties that cover them or the
reason why none does.

## 2. Modules

| Module | Models |
|---|---|
| `CreditUnits` | prices of features and their sums |
| `CreditLedger` | the abstract specification: what the credit service promises |
| `Interview` | the abstract specification of both kinds of interview: answers, scores, a result |
| `Access` | the abstract specification of what is sold: periods of access, receipts |
| `CvOffer` | the abstract specification of what a CV gets: a verdict, questions, a charge |
| `AiCredits` | `ai-credits/ai-credits.service.ts` in full, and the credit effect of a purchase |
| `MCAiCredits` | its instances for TLC |
| `AiCreditsProofs` | its theorems |
| `Billing` | orders, the SePay webhook and the subscription of one user: `payments/`, `subscriptions/` |
| `MCBilling` | its instances for TLC |
| `BillingProofs` | its theorems |
| `MockInterview` | a mock interview: `mock-interviews/`, `mock-core/` and the scoring part of `ai-jobs/` |
| `MCMockInterview` | its instances for TLC |
| `MockInterviewProofs` | its theorems |
| `MockCvAnalysis` | a CV from upload to removal: `mock-cv/analysis/`, `mock-cv/start/` and the CV jobs of `ai-jobs/` |
| `MCMockCvAnalysis` | its instance for TLC |
| `MockCvAnalysisProofs` | its theorems |
| `MockCvInterview` | an interview about a CV: `mock-cv/interviews/` and the overview job of `ai-jobs/` |
| `MCMockCvInterview` | its instance for TLC |
| `MockCvInterviewProofs` | its theorems |
| `Explanations` | the terms, their jobs and their credits: `explanations/`, `explanation-credits/` |
| `MCExplanations` | its instance for TLC |
| `ExplanationsProofs` | its theorems |

Operators marked `Mutant:` are plausible bugs of the definition that follows them (a dropped
guard, a missing update). No specification uses them; putting one in the place of the
definition it precedes makes the property that `PROJECT.json` pairs with it fail, which shows
that the property depends on that piece of the code.

### AiCredits

One user. `cycles[c]` is the row of `credit_cycles` with `sourceReference` c (free day, subscription
started at t, order o), and `open` says whether the row exists; a grant may be 0, as `@Min(0)` and
the default of `creditPerCycle` let it be. `active` is the source of the row that has the user's
`activeKey`, `sub` the subscription, `rsv[k]` the reservation of an idempotency key, `txn[s]` a
settlement transaction between its first read and the lock. `raced` is a history variable: a
settlement has moved credits by a read of its reservation that another one had overtaken
(`Overtaken`: the row is no longer PENDING, or PENDING on another cycle).

A transaction that takes the advisory lock before it reads is one action: `Reserve`,
`GetOrCreateActiveCycle`, `BuyPlan`. A settlement is two, because `consume`, `release`,
`extendReservation` and `expireReservations` read the reservation first, wait for the lock, and
decide everything from the first read: `ReadToSettle`/`ReadToExpire` takes the snapshot,
`Commit` applies `Settle` to it, `Rollback` is a process that dies or a transaction that times
out. Between them anything may happen. The value of `@` in `Commit` is the current one, as it
is in `{ decrement: ... }`; what is decided by the snapshot is the branch, the cycle and the
expiry. `Extend` takes the latest of the old expiry, the time to live from now and the
`minimumExpiresAt` of its caller (`Minimums`; 0 for none), with which a mock asks for credits that
cover its interview.

`LedgerExact`, `NoOverspend`, `ChargedOnce`, `ReleasedOnce` and `ImplementsLedger` speak of every
behaviour up to the step that sets `raced`, and that step is a commit that changes a counter by an
overtaken read. They are checked while settlers do share keys: what goes wrong before that
step, or without such a step, is found. After it the counters are only ever lower than they should
be, so that `WithinGrant` still holds; the repository's own claim, that a consume is charged once
whatever happens, is `ConsumeIsIdempotent`, which fails.

Abstractions: time is a clock of ticks; a purchase reads `now` inside its transaction, where
`activateOrder` reads it just before; idempotency keys are model values with a price (that `now` and
the lock are two steps is a matter of `Billing`, which shows that no purchase is accepted while
another period runs); the service's error replies are disabled actions, as they change nothing.
`reconcileBalances` only reads and is not an action. One remark on it: it does not expect the
credits of a PENDING reservation that is overdue, while the counter still holds them, so it reports
a drift between the end of a hold and the next run of the cron even when the ledger is exact.
`LedgerExact` compares the counters with every PENDING reservation.

### CreditLedger

Each key is free, held or charged, on a cycle; a hold needs credits left on its cycle; a charge
is final. It has no counters, clock or transactions. `AiCredits!Ledger` maps PENDING to held,
CONSUMED to charged and every other status to free, and forgets the counters:
that the conditional update on counters enforces the sum over holds and charges is exactly what
`ImplementsLedger` says.

### Interview

Answers are taken until the interview is handed in, only what was answered is scored, a score is
not lost, and the result consists of scores. `Stage` of the detailed modules maps the statuses:
DRAFT and IN_PROGRESS to open, SCORING and SUBMITTED to scoring, SCORED to decided; a summary counts
as the result only while the status is SCORED. `asked` is set by whoever asks for a retry of scoring.

- `Spec`: a result is decided once, and nothing but a retry may `Reopen` the interview, which
  withdraws the result first. `MockCvInterview` implements it, retries included; without a
  retry there is no `Reopen`, so that the result is final (`FinalWithoutRetry`).
- `RevisingSteps`: after a retry was asked for, a result may also be replaced by another one, with
  no reopening in between (`Revise`). `MockInterview` needs it: after a retry a second job can be
  past its claim of the overview while the first one is, and the one that ends late writes its
  result, or the fallback for an overview that could not be paid, over the newer one. That is not
  what `src/README.md:131` says of retries, and `ResultKept` with the run `mock_overwrite` shows it
  (section 4); what remains is that nothing of the kind happens until somebody retries
  (`ResultFinal`).

What the promise does not say, that a result has every score there is, is `ResultComplete`.

### Access

An order or a grant opens a period, not before those that were sold have ended; a period is never
shortened or taken back; an order gets one receipt at most, which is kept; there is access exactly
while a period lasts. `Billing` maps its history of periods and the receipts of its orders to these
and the status of the row to access. Requests, deliveries, the clean-up and the reuse of the row
are steps that change nothing here: an order is settled by one step, once, however often its
transfer is delivered.

### CvOffer

One verdict, one set of questions for as long as the CV is kept, interviews from it, one charge at
most, and that after the delivery. `MockCvAnalysis` maps `cv` and `status` to the stage, forgets the
attempts (`sets # {}` is having questions), and owes the charge while a worker is between storing the
set and consuming (`Due`). Two liberties are in the abstract specification because the code takes
them: `Waive`, a delivered set may remain free, since another caller of `ensureQueued` may have
released the reservation; and `RemoveAnyway`, the removal of a CV with a running interview, which is
in `LooseSpec` only and needs a lock that expires under its holder (`RemovalWaits`).

### Billing

One user. `order[o]` is a row of `orders`, `sub` the row of `subscriptions` (`NONE`: no row yet;
`canceledAt` is left out, being set exactly while the status is CANCELED), `bank[t]` says
whether a bank transfer was made and whether SePay has its answer, `hook[h]` is a webhook or a
grant in progress, `mailing` the clock reading of the reminder cron while it sends mail.

- checkout: `CreateCheckout`, `CleanupExpiredOrders`; `MakeTransfer` is the user's bank, for an
  order that may have expired, been paid or been deleted since.
- `handleSepayWebhook`: `FindOrder` reads the order; `Underpaid` is the conditional update for
  too little money; `BeginActivation` reads the clock and `ActivateOrder` is the transaction
  under the billing lock. SePay delivers a transfer any number of times: `Answer` may be lost.
- `grantManual`: `BeginGrant` reads the clock, `GrantManual` is the transaction.
- `Die`: a request ends before it commits.
- the row: `DowngradeExpired`, `Cancel`, `Activate`; `BeginReminders` reads a row that ends soon
  and `MarkReminded` marks it after the mail, if the mail went out.

What the transactions decide from the clock they decide from the reading before the lock, and
anything may happen in between; the statements under the lock are one step. `DELETED` is a row
that was deleted, `NONE` one that is not made yet, so an id is used once. A new subscription
row starts at the time of its transaction, between `now` and the present, an old one at `now`.
Amounts are only short or not: the code treats an overpayment as a payment. The audit log, the
receipts and the mails are left out; for a transfer whose order is settled or gone the audit
log is the only record there is.

### MockInterview

One mock from start to result. Steps are Postgres statements or transactions, Redis commands
and queue calls; provider calls lie between steps. `upload[a]` is where the `answer()` of
upload a is (checked, preparing under the Redis lock, prepared, leaving), `at[p]` where a
submitter (user, timer) or the retry handler is, `worker[q]` where the scoring handler of
question q's session is, and what it has read. `job[q]` is its BullMQ job.

- `answer`: `BeginAnswer`, `TakeLock`, `Prepare`, `CommitAnswer` or `DiscardAnswer`,
  `LeaveAnswer`; `LockExpires` at any time, as nothing bounds transcription and upload by the
  TTL.
- `submit`: `ClaimSubmit` (the transaction), `QueueAnswered`, one `EnqueueScore` per session,
  `FinishEnqueue`. An enqueue may fail, since the code only logs it.
- timer: `StartTimer` (may be lost), `ClaimSubmit("timer")`, `SkipTimer`, `RecoverTimer`.
- scoring job: `BeginScore`, `Score`, `Mark`, `CheckReady`, `ClaimOverview`, `WriteOverview`,
  `PayOverview`, `EndScore`; `BeginScoreFails` is the throw before the owner is known.
- retry: `RetryRead` and `RetryWrite`, the two halves of a transaction that excludes `answer`
  and `submit` by the advisory lock, but not the scoring jobs.
- `SubmitterDies`, `WorkerDies`, `AnswerDies`: processes that die.
- `limit` never changes: how many retries (at most `MaxRetries`) and deaths (at most `MaxCrashes`) a
  behaviour has.

Abstractions: credits are only what makes a call fail (their ledger is `AiCredits`); the reads
of `completeIfReady` are one step; failures of Postgres and Redis other than lost enqueues and
dying processes are left out; a job tried again by the queue after a stall is `WorkerDies`.
Scoring on demand (`sessions/`) of a mock's session and `hardDeleteAdmin` are not modelled.

### MockCvAnalysis

One CV. `cv`, `status`, `attempt`, `qStatus` and `qAttempt` are columns of `mock_cvs` and
`mock_cv_analyses`, `stale` and `qStale` say that their time stamps are old, `sets` has the
attempts whose question set is stored, `rsv` is the reservation of the analysis, `lock` the Redis
lock. `at[x]` is where a request or a profile worker is, `seen` and `qSeen` the attempts it has
read, `op` what a request was asked for; `job`/`qJob` are the two BullMQ jobs of each attempt and
`gen` the worker of the second. Workers are named by their attempt, as the jobIds are.

- `create`: `BeginCreate`, `StoreCv`, then `Claim` and `Enqueue`, which the retry shares: the
  claim is a conditional update, the enqueue a call of Redis after it, which reads the attempt
  again; `Undo` and `Release` are the catch block.
- `retryAnalysis`: `Retry`, `Reserve`. The admin's retry does not charge.
- profile job: `StartJob`, `ReadJob`, `Conclude`, then `Prepare`, or `Release`; `JobFailed` is
  `onFailed`.
- `ensureQueued`: `Take`, `Missed`, `Drop`, `EnqueueSet`, `UndoSet`, for its three callers: the
  profile worker, `Start` (`Hold` reserves) and `AdminQuestions`.
- question job: `StartQuestionJob`, `StoreSet`, `FailSet`, `Consume`, `ReleaseSet`.
- interviews: `Open` is `createOrGetActiveInterview`, `SubmitInterview` the end of one.
- removal: `Remove`, `RemoveJobs`, `Delete`, by the user or by the admin ("purge"). The model's
  removals refuse a running interview (IN_PROGRESS). The user's refuses a submitted one as well
  (`mock-cv-analysis.service.ts:329-333`), which the model leaves out: it has more removals than the
  code, and what holds of them holds of the code's.
- `RequestFails`, `ProfileFails`, `QuestionFails`: processes that die, calls that throw, jobs that
  stall. `LockExpires` while its holder is at work, `ReservationExpires`, `BecomeStale`.

Worth knowing, as no comment promises otherwise: `ensureQueued` may release the credits a worker
is about to consume, and a questions set is then free; the release of an old attempt may give
back credits that a retry has just reserved again; the admin's removal does not give back
credits at all. A removal that is refused because a job is active has removed the waiting ones by
then, and leaves a PENDING analysis without a job: that, and a process that dies between the
claim and the enqueue, is what `WaitingHasJob` excepts and `StrandedForGood` speaks of.

### MockCvInterview

One interview. `status` and `overview` are columns of `mock_cv_interviews`, `scoring[q]` and
`scored` those of a question and the Score of its session, `summary` the questions whose scores
are in the result, `job[q]` and `oJob` the BullMQ jobs, `at[x]` the place of the submitter, of the
retry or of the worker of a question, `oAt`, `oSeen` that of the overview job and what it has read.

- `Answer` and `Submit` are the transactions; `QueueAnswered` and `EnqueueScores` follow it.
- scoring job: `StartScore`, `Score`, `Mark`, `Check` and `Claim` (`tryQueueOverview`),
  `QueueOverview` or `GiveUp`, `EndScore`.
- overview job: `StartOverview`, `WriteOverview`, `SettleOverview`; `MarkFailed` is `onFailed`.
- retry: `RetryRead` and `RetryWrite`, a transaction that no job waits for; it queues questions or,
  when only the overview is missing, the overview.
- `RequestDies`, `WorkerFails`, `OverviewFails`.

The status alone does not tell an interview from itself before a retry. A retry that starts while
a job is deciding (`overtaken` remembers it) leads to a result without the score it asked for, or
to a QUEUED question that was scored since the retry read it; both properties say so where they
except it. A submitter, or the last worker, that dies in SCORING before the questions are marked
leaves nothing to retry, as in `MockInterview`; in SUBMITTED every fault can be retried. The
reads of the retry's transaction are one step. Credits are only what makes a call throw.

### Explanations

`status`, `key`, `text`, `owner`, `into` are columns of `technical_terms`, `alias` the texts that were
merged, `rsv[u][t]` the reservation of user u for term t, `used` and `reserved` the counters of
the user's credit cycle, `job`, `gen` and `answer` the BullMQ job of u for t, where its worker is
and what the provider said, `at[u]` where the request of u is, `rec[t]` and `exp` what the
recovery and the expiry of reservations have read.

- request: `Ask`, `Claim`, `Reserve`, `Enqueue`; `Undo` and `GiveBack` are the catch block.
- worker: `Generate`, `Merge` (another term has the canonical name), `Store`, `StoreAlias`,
  `Charge`; `Fail` and `Release` when something throws.
- crons: `ListStale`, `RecoverTerm`, `RecoverCredit`; `ReadToExpire`, `Expire`.
- `WorkerFails`: a stalled job, run again or given up.

`finalize` decides from the reservation it read before the billing lock, as `consume` does in
`AiCredits`: settlements that overlap lower `reservedCredits` twice, below zero in the end, or turn
a CONSUMED reservation into RELEASED. `overtaken` remembers the users this happened to:
`ReservedExact` says that the counter is the number of PENDING reservations of everybody else, and
never more than that for anybody; the comment at `explanation-credits.service.ts:110`, that the
counter does not go below zero in parallel, is `QuotaNotNegative`, which fails. CONSUMED means
stored in any case (`PaidIsStored`). Other things to know: a request that is refused
with 402 leaves its term PENDING until the recovery; the recovery gives back the credit of a term
that has become READY meanwhile, which is then free; a job that was given up keeps its id for a
day, so that a retry of the term is dropped as a duplicate and has to wait for the recovery
again; and `generateInWorker` tests READY only (`explanations.service.ts:117`), so two users can
pay for one merged term. Each user has one credit cycle that does not end; the admin's edits,
the Redis slots for provider calls and the daily counter are left out.

## 3. Runs

| Run | Instance | What it shows |
|---|---|---|
| `credits` | 2 keys (1 and 2 credits), a worker and the cron on the same keys, a purchase, 3 instants | whatever the races do: `WithinGrant`, `CurrentCycleUsable`, `PurchaseNeverConflicts`, and `DueIsSettled` under fairness; up to the first step that acts on an overtaken read: `LedgerExact`, `NoOverspend`, `ChargedOnce`, `ReleasedOnce` and refinement of `CreditLedger` |
| `credits_charged_once` | 1 key, a worker, a request and the cron | finding: `ConsumeIsIdempotent` fails when two consumes overlap |
| `billing_payments` | 2 orders, a grant, a short and a full transfer for one order and a full one for the other, 2 requests at once, 3 instants | `PeriodsDisjoint`, `AccessIsPaid`, `RunningNotExpired`, `AnsweredIsSettled`, `ReceiptKept`, and refinement of `Access` |
| `billing_reminder` | 1 order, a grant, 1 request, 4 instants | finding: `ReminderOfThisPeriod` fails |
| `mock_interview` | 2 questions, 3 uploads of which 2 are for one question, a retry and a crash, from five starts | `SkippedIffUnanswered`, `SessionHasAudio` and refinement of `Interview`, always; one overview, from every score, until somebody retries or dies (`OneOverview`, `ResultComplete`), which is final until somebody retries (`ResultFinal`); every started mock is submitted, every submitted one ends with a result or is at rest and retryable, unless a process died or a retry queued a question that was scored since it was read |
| `mock_queued` | 2 questions, a retry, no crash | finding: `QueuedIsRetryable` fails |
| `mock_stuck` | 2 questions, no retry, a crash | finding: `StuckIsRetryable` fails |
| `mock_overwrite` | 2 answered questions just handed in, a retry, no crash | finding: `ResultKept` fails |
| `mock_cv_analysis` | 2 requests at a time, 2 more after the upload, 2 attempts of each phase, a fault, an expired lock | `VerdictOfCurrentAttempt`, `OneQuestionSet`, `ChargedForQuestions`, `WaitingHasJob`, `StrandedForGood`, `RunningInterviewKept`, refinement of `CvOffer`, and `AnalysisSettles` under fairness |
| `mock_cv_interview` | 2 questions, a retry, a fault | `ResultComplete`, refinement of `Interview` with reopening; `SubmittedSettles` under fairness |
| `explanations` | 2 users, 2 texts, 2 terms, a credit each, 2 requests, a fault, from two starts | `PaidIsStored`, `OnePayer`, `ReservedExact`, `MergedIntoReady`, `ReadyKept`, and `PendingSettles` under fairness |
| `explanations_quota` | the same | finding: `QuotaNotNegative` fails |

Bounds. The free grant (2) pays for the mock overview or the answer but not both, the plan (3)
for both, so reservations are refused on one kind of cycle and accepted on the other. A day and
a plan last two ticks and a hold one, so with `MaxClock` 2 a hold expires within a cycle
and across the end of one, the day changes, a subscription ends and another is bought, and a
key is reactivated on a new cycle; an extension asks for nothing or for the last instant
(`Minimums`). `MaxSkew` bounds how far racing settlements can drive a
counter down: `Reserve` is only followed from counters of at least `-MaxSkew`. With 0, runs go
on below zero through settlements but are not extended by reservations; every race of two
transactions is already there, and until the first of them the bound cuts nothing, as the counters
are never negative. Two settlers are enough for one stale read; more of them repeat the same
race.

In `billing_payments` a plan and the validity of an order last one tick and the clean-up waits no
longer (`OrderTtl` 1, `Grace` 0), so within `MaxClock` 2 an order expires, is deleted and is paid
for late, a period ends and up to two others follow it. Two requests are what it takes for one
to work with a `now` that the other has made old; the proofs cover any number. The two requests
are interchangeable (`SYMMETRY`); the run checks invariants, an action property and a refinement that
name no request.

A mock needs two questions for jobs that end together and for a job that fails beside one that
succeeds, and two uploads of one question for the lock. The product of all of it, a retry and a
death is out of reach, so `MCMockInterview` has five starts, states that a mock reaches from its
beginning, each with its own `limit`: `FromDraft` (a whole round without retries and deaths),
`InGrace` (the time is up, two uploads race for the first question, a process may die),
`BothPrepared` (two answers about to be committed beside the hand-in, the timer lost), and two of
`ToBeRetried`, just handed in: with both questions answered and a retry, and with one answered, a
retry and a death. What no start joins is a race of uploads with a retry, which the hand-in
separates in the code as well, and two questions with a retry and a death. The proofs start from
`Init`, with any number of everything.

A CV needs two attempts for a worker that is overtaken, and two requests at a time for a start that
meets a removal, or two that prepare questions beside the profile worker; two calls after the
upload are a start and a removal, or a retry and another one. One fault is a process that dies
between two steps, one expiry a lock that is lost. The proofs cover any number of all of these. Two
questions, one retry and one fault give `MockCvInterview` jobs that end together, a retry beside
any of them, and a worker that dies at any step; with two questions a job can fail beside one that
succeeds. Two users and two texts are what it takes for a term to be taken over and for one to be
merged into another; to have both in the bound of two requests, the run starts either from nothing
or from a term of bob's that was stored after its recovery (`KeyTwoStored`, a state that the first
start reaches with more requests). As users and texts are interchangeable, alice asks first.
`CHECK_DEADLOCK FALSE` is set because the bounded instances do stop: the clock ends, every order
is settled, the mock is finished, uploads are used up, the CV is deleted, the terms are stored.

Fairness. In `AiCredits` only the cron is fair: the scheduler calls it every five minutes for ever,
so `WF` on `ReadToExpire`; each pass is a new transaction, and one that keeps being able to commit
does so in the end though single passes may roll back, so `SF` on `Commit(Cron)`. Users, workers and
requests owe nothing. `Billing` states no liveness and no fairness. In `MockInterview` deadlines
pass, the queue delivers what it holds, `recoverExpiredMocks` is called every five minutes, and a
handler whose process lives reaches its end (`WF` per submitter and per scoring job). There is no
fairness on answers, on submission by hand, on retries, on crashes, or on which outcome a call has.
`MockCvAnalysis` and `MockCvInterview` are fair to what a living process does next and to the queue
(`WF` per request and per job), and to nothing else: time need not pass, a lock need not expire.
`Explanations` needs less: `PendingSettles` rests on the recovery cron alone, however many requests
and workers stop for ever.

## 4. Findings

- `consume` is documented as idempotent (`ai-credits.service.ts:310`) but decides from a read
  made before the lock (`:313`). Two consumes of one key that both read PENDING charge it
  twice (`credits_charged_once`). The same stale read lets `release`, `extendReservation` and
  the cron overlap; `LedgerExactAlways` and its neighbours prove that a step that acts on such a read
  is the only thing that can make the ledger wrong, and `IsolatedNeverRaces` that it takes two
  settlers of one key.
- `retryScoringTargets` tests the mock's status and writes later without testing again, and
  `completeIfReady` takes no advisory lock. A mock can end SCORED with a question QUEUED, for
  which no retry is ever accepted (`mock_queued`). `QueuedRetryableBeforeRetry` proves that the retry
  is what it takes: deaths alone never lead there.
- `submit` commits SCORING in one transaction and marks the questions QUEUED in a later
  statement. A process that dies in between leaves a mock that nothing submits, scores or
  retries (`mock_stuck`). `NoDeadEnd` proves that without deaths and retries no mock comes to rest
  like that. The retry can lead there as well, when it queues a question that was scored since it
  read it and the queue drops the job as a duplicate of the one that is ending.
- `completeIfReady` claims the overview on a condition, and writes it by id alone
  (`ai-jobs/services/mock-interview-scoring.service.ts:166`, the fallback at `:186`). A retry that
  interferes puts a mock back to SCORING while a job is past its claim; another job claims it again
  and writes SCORED, and the first one then writes its own result over that (`mock_overwrite`), where
  `src/README.md:131` says that retries resume "without overwriting completed results".
  `FinalWithoutRetry` proves that the retry is what it takes; an interview about a CV tests the status
  when it writes, and `InterviewImplemented` of `MockCvInterviewProofs` that it is never overwritten.
- `finalize` of the credits of explanations decides from a read made before the lock
  (`explanation-credits.service.ts:117`), so that a request that gives back and the expiry cron each
  take one credit from `reservedCredits` for one reservation. It goes to -1 (`explanations_quota`),
  which the comment at `:110` excludes, and the user has a credit too many. `ReservedExactAlways`
  proves that the counter is exact for everybody whom no such overlap has met.
- `sendRenewalReminders` marks the row it read before it sent the mail, without testing that it
  still is the same period. A row renewed meanwhile has its reset mark (`schema.prisma:686-687`)
  overwritten, and its new period is never reminded (`billing_reminder`). `OnlyLateReminders` proves
  that nothing else puts a wrong mark there.

## 5. Proofs

`AiCreditsProofs` holds for every set of keys, prices, grants, settlers, scopes, purchases and
bounds that satisfies `CostAssumption` (finitely many keys, prices from 1 to `MaxCost`),
`SettlersAssumption`, `GrantAssumption` (grants are natural numbers), `TimeAssumption` and
`NoRefAssumption`.

- `TypeCorrect`: `[](TypeOK /\ Backed)`. `TypeOK` alone is not inductive: `Commit` indexes
  `cycles` by the cycle of the snapshot, which is a cycle only because PENDING reservations and
  PENDING snapshots have one (`Backed`).
- `NeverOverpromised`: `[]WithinGrant`. Inductive on top of `TypeOK /\ Backed`, with no
  hypothesis on the races: settlements only lower `used + reserved` or keep it, and `Reserve`
  raises it under its own condition.
- `LedgerExactAlways`: `[]LedgerExact`, from `LedgerUntilRace`: until `raced`, `LedgerInv` holds. Its
  parts are the sums themselves (`LedgerSums`), `OnOpenCycle` (a reservation that counts is on an
  opened cycle, so opening a cycle disturbs no sum) and `KnownGrants`. `CommitWithoutRace` is what
  the history variable buys: a commit that does not set it changes no status and no counter, or
  settles a reservation that still is PENDING on the cycle that was read. Sums of prices are
  cardinalities of sets of units, so that adding and removing a key are facts about finite sets
  (`CreditsWith`, `CreditsWithout`) with no recursion.
- `NoOverspendAlways`: from the sums and `WithinGrant`.
- `ChargedOnceAlways`, `ReleasedOnceAlways`: action properties from the same invariant.
- `LedgerImplemented`: `Spec => ImplementsLedger`; one lemma per kind of step (stutter, open, hold,
  settle).
- `IsolatedNeverRaces`: when no two settlers share a key (`Isolated`), `raced` stays false and the
  ledger is exact for good. Its invariant is `SnapshotsFresh`: a PENDING snapshot still agrees with
  the table.
- `PurchaseNeverConflictsAlways`: from `PaidWithSub`, a paid cycle that has the activeKey ends
  with the subscription. `StepKinds` sorts the steps: those that meet the current cycle, a
  purchase, and the rest, which leave the end and the grant of every cycle alone.
- `CurrentCycleUsableAlways`: under `WholeDays` (a plan lasts a day at least, `@Min(1)` of
  `durationDays`; a plan of less could end on the day whose free cycle it had replaced, and the
  fallback would return that closed cycle). The invariant is `CycleInv`: once the cycle of the
  subscription or of the day was opened, some cycle has the activeKey until the subscription or
  the day is over (`SubOnce`, `DayOnce`), and no free cycle is opened before its day (`PastDays`).

`BillingProofs` holds for every set of orders, grants, transfers, requests and plans that
satisfies `BillingAssumption` (orders and grants are different, plans last at least a tick).

- `BillingTypeCorrect`: `[](TypeOK /\ Planned)`; a payment adds the days of the plan of a pending
  order, so that a pending order has one (`Planned`) is part of the induction.
- `PeriodsNeverOverlap`, `AccessAlwaysPaid`: from `RequestsSound` (the `now` of a request is in
  the past, an order that is being granted is not made yet) and `PeriodInv`: every period ends
  with the subscription or before, and the subscription ends with a period. `OpenStep` sorts the
  steps: each leaves the periods alone or opens one whose `now` is not before the end of the
  subscription, hence not before the end of any period, although `now` may be old. The
  comparison with `now` and not with the present is what the argument rests on.
- `RunningNeverExpired`: inductive with the types.
- `OnlyLateReminders`: an action property: the step that makes `ReminderOfThisPeriod` false is the
  marking of a reminder that was begun before the running period, and no other.
- `ReceiptAlwaysKept`: `OrderMoves` lists what a step may do to an order, and `NoReceiptYet` says
  that an order that may still be deleted or settled has received nothing.
- `AnsweredAlwaysSettled`: from `OrderMoves` and `Delivered` (a transfer is made for an order
  that exists), as an order never becomes pending again.
- `AccessImplemented`: `Spec => Sale!Spec`, the refinement of `Access`. Each step maps to a tick of
  the clock, a sale, money that buys nothing, or a stutter. It needs `RequestsSound` (the period
  that is opened begins no later than now), `PeriodInv`, `NoReceiptYet` and `OrderMoves`: a step
  writes one receipt at most, of an order that had none (`OneReceipt`), and the row runs exactly
  while a sold period does, before the step and after it, though the row is reused, cancelled,
  activated again and closed by a cron that may come late.

`ExplanationsProofs` holds for every set of users and texts and every bound that satisfies the
assumption of the module.

- `TypeCorrect`: `[]TypeOK`, from `Shape`: the types, that a worker or a request under way is about
  a text (`Asked`), and that a cron that is between its steps has read a user (`UserRead`).
- `PaidIsStoredAlways`, `OnePayerAlways`, `MergedIntoReadyAlways`: from one invariant, `IInv`. That
  two users never both pay is not inductive. It needs that a term has one job, whoever asked
  (`OneWorker`: the jobId is the term's), that a worker stores only where nothing is stored and
  settles only what is (`WorkInOrder`), that a MERGED term points somewhere (`MergedSomewhere`), and
  that nobody has paid for the term a worker is at except its own user (`PayerWorks`).
- `ReadyKeptAlways`: an action property from the same invariant.
- `ReservedExactAlways`: inductive with the types; every step takes as many from the counter as from
  the set of PENDING reservations of a user, unless it settles one that is not PENDING any more,
  and then it takes more and the user is `overtaken`.

`MockCvAnalysisProofs` holds for every set of requests and every bound (`AnalysisAssumption`).

- `TypeCorrect`: `[]TypeOK`, in six parts (`Parts`), since most steps touch one or two of them.
- `VerdictOfCurrentAttemptAlways`: inductive by itself; what the proof shows is that no other step
  than those that test the attempt writes the columns (`RowMoves`).
- `OneQuestionSetAlways`: from `SetIsReady`, which holds of a CV that is not stored as well.
- `ChargedForQuestionsAlways`: from `Charged`: a worker that is about to consume, and a CONSUMED
  reservation, have a stored set or a deleted CV.
- `RunningInterviewKeptAlways`: from `Base`, the part of the invariant about who is at work:
  nothing happens before the CV is stored (`Creation`), a worker has an active job that began its
  own attempt (`Workers`), the first attempt is claimed by the upload alone (`FirstAttempt`), and
  who starts or removes holds the lock as long as none has expired (`Locked`).
- `WaitingHasJobAlways`: from `Base`; `Neutral` collects the steps that change nothing of what
  carries a PENDING analysis, the others are taken one by one.
- `StrandedForGoodAlways`: an action property, from `Base` in the same way.
- `OfferImplemented`: `Spec => Offer!LooseSpec`, from `Base`, `Charged` and `Dues`: one question worker
  at most is between storing the set and consuming, a CV that is not stored has no set and no
  running interview, and nothing is reserved before the upload.
- `RemovalWaits`: `MaxExpiries = 0 => (Spec => Offer!Spec)`. With no lock expired under its holder,
  `Locked` excludes that an interview is opened between the check of a removal and its deletion.

`MockInterviewProofs` holds for every finite set of questions, every set of uploads and every
bound (`MockAssumption`).

- `TypeCorrect`: `[]TypeOK`, in nine parts (`Types`).
- `SessionHasAudioAlways`: from `Audio`: an upload that is ready to commit has its audio, and the
  one a question points to has left the place from which `answer()` deletes.
- `SkippedIffUnansweredAlways`: not inductive alone. It needs that nothing is queued, scored or
  under way before the submission (`Asleep`) and that only an answered question has a job or one
  to come, from a submitter or from a retry (`Handed`), so that no worker marks a skipped question.
- `ResultCompleteAlways`, and the half of `OneOverviewAlways` that SUBMITTED means a claimant at work,
  hold until somebody retries or a process dies (`Undisturbed`): after a retry a result may be
  missing while jobs of the first round still write, and a claimant that dies leaves SUBMITTED
  behind. The inductive invariant is `Round`: one submitter got past the claim and scoring begins
  after it (`OneSubmitter`, `ClaimedIsFirst`), a job is created once for a question that is QUEUED
  (`TodoIsNew`), a question is QUEUED until its job has marked it (`QueuedUntilMarked`), and so a job
  that found every question at its end has seen all the scores there will be (`SeenIsAll`). That one
  worker at most writes the overview holds through deaths as well, from `OneWriter` below.
- `NoDeadEnd`: `Spec => [](Undisturbed => StuckIsRetryable)`, the safety half of `SubmittedSettles`.
  `Going`, on top of `Round`: a mock in SCORING has a submitter at its claim, a job that will look for
  the last score, or a question that waits for one (`Underway`); a question with a score is
  QUEUED only while its job is about to mark it (`ScoredIsMarked`). So a mock at rest has an answered
  question without a score, which the retry accepts.
- `QueuedRetryableBeforeRetry`: `Spec => [](retries = 0 => QueuedIsRetryable)`, whatever dies, from
  `DecidedIsMarked`: whoever decides a result has every question at its end.
- `InterviewImplemented`: `Spec => Promise!Init /\ ImplementsInterview`, with any number of retries
  and deaths. What is needed beyond the types and `OneWriter` is `Traced`: a summary, and what any
  worker has read for one, consists of scores that are in the table, and a score has a session. That
  scores only grow, and only where a session is, is a lemma on every step (`ScoresGrow`).
- `FinalWithoutRetry`: `Spec => ResultFinal`, with any number of deaths. `OneWriter`: as long as
  nobody retries one worker at most is past the claim, a worker that is to write the overview finds
  SUBMITTED, and one that is paying finds SCORED with the very scores it has read, so that the
  fallback changes nothing.

`MockCvInterviewProofs` holds for every finite set of questions and every bound
(`InterviewAssumption`), retries and faults included.

- `TypeCorrect`: `[]TypeOK`, in six parts (`Types`).
- `FailedIsSubmittedAlways`: part of `Base`, which says who is at work: nothing before the
  submission (`Asleep`), nothing but the claim before the answers are queued (`Claimed`), the worker
  of a question while its job is active (`Working`), and a retry of the overview alone only of an
  interview with every question at its end (`RetryOfOverview`).
- `ResultCompleteAlways`: from `Decided`, which holds until `overtaken`: whoever decides a result
  has every question at its end (`AllMarked`), a question whose job waits or is with the provider is
  not at its end (`StillOpen`), and so the scores the overview worker has read are all there will be
  (`FromAllScores`). The history variable is what the induction needs: RetryWrite tests nothing
  again, and `overtaken` names the three moments in which that matters.
- `InterviewImplemented`: `Spec => ImplementsInterview`, from `Base` and `Grounded`: jobs, Scores
  and what an overview worker has read are about answered questions. The overview worker writes only
  while the status is SUBMITTED, so there is no `Revise` as in `MockInterview`.
- `FinalWithoutRetry`: as long as nobody retries a result stays as it was decided, with any number of
  faults; from the refinement, as only `Reopen` would change it.
- `NoDeadEnd`: an interview at rest without a result can be retried, for any number of retries and
  faults, except that in SCORING a fault or an overtaking retry may have left nothing to retry: the
  safety half of `SubmittedSettles`, from `Going` as in `MockInterviewProofs`.

The type invariants are proved for every value of the constants, so no run spends its time on them.

Only model-checked: liveness (`DueIsSettled`, `SubmittedSettles` of both interviews,
`StartedIsSubmitted`, `AnalysisSettles`, `PendingSettles`), which needs ENABLED. Of the two
`SubmittedSettles` the safety half is a theorem, `NoDeadEnd`. Every safety property of a passing run
is a theorem of every instance; only `CurrentCycleUsable` has a hypothesis, `WholeDays`.

## 6. Not modelled

- Parts of modelled components: `create` and `hardDeleteAdmin` of a mock interview,
  `hardDeleteInterview` of an admin, the admin's edits of terms, credit cycles of explanations that
  end. The removals check, remove jobs and delete rows in the order that `MockCvAnalysis` has.
- Practice sessions. Creation is an insert between a reserve and a consume of `AiCredits`; the score
  job is that of a mock without the mock. The score request for the session of a running mock
  (`sessions.service.ts:418`), which scores before the hand-in and deletes the session of an empty
  answer, is the one thing in it that is new: it would need its own instances of `MockInterview`,
  which already take minutes.
- Refresh tokens, verification codes, the token budget and the cache: short sequences of Redis
  commands, apart from the rest. A refresh in flight survives `removeAll`
  (`auth/refresh-token.store.ts:58`), which the list of hazards keeps.
- Storage clean-up: deletion is idempotent and retried until storage confirms.
- `Billing` composed with `AiCredits`: the credit effect of a payment is `BuyPlan` of `AiCredits`, and
  that no two periods overlap is a theorem about `Billing`; the product of the two is out of TLC's
  reach.
- Prompts, parsing and HTTP calls of the AI providers, password hashing and Google verification
  (external calls that succeed or fail), single-statement CRUD, WebSocket notifications (results
  are read from the database as well), throttling and connection set-up, the web client.
