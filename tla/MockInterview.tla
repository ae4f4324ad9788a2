---------------------------- MODULE MockInterview ----------------------------
(* One mock interview from start to result: the answers of the candidate,    *)
(* the submission by hand or by the expiry timer, the scoring jobs of the AI *)
(* queue, the overview the last of them writes, and the retry of scoring.    *)
(*                                                                           *)
(* A statement or transaction of Postgres, a command of Redis and a call of  *)
(* the queue is one step; what a handler read before a step may be stale in  *)
(* it.  Calls to the AI providers take place between steps.                  *)
EXTENDS Integers, FiniteSets

CONSTANTS Questions,   \* questions of the mock
          Requests,    \* answer uploads
          Target,      \* Target[a]: the question upload a answers
          MaxRetries,  \* the bound on retries of scoring
          MaxCrashes,  \* the bound on processes that die
          None         \* no lock holder, no session

ASSUME MockAssumption ==
  /\ IsFiniteSet(Questions)
  /\ Target \in [Requests -> Questions]
  /\ MaxRetries \in Nat /\ MaxCrashes \in Nat
  /\ None \notin Requests

VARIABLES
  status,     \* mock_interviews.status
  phase,      \* now, against expiresAt and the grace window after it
  session,    \* session[q]: the upload whose Session the item points to
  scoring,    \* scoring[q]: mock_interview_questions.scoreStatus
  scored,     \* scored[q]: a Score row exists for the session
  summary,    \* the questions the overview was computed from
  stale,      \* updatedAt of the mock is 2 minutes old
  cooling,    \* lastScoringRetryAt is less than a minute old
  lock,       \* lock[q]: the upload that holds the Redis lock of the question
  media,      \* media[a]: the audio of upload a is in storage
  upload,     \* upload[a]: where answer() is
  timer,      \* the delayed auto-submit job
  starting,   \* start() has yet to create that job
  at,         \* at[p]: where a submitter or the retry handler is
  todo,       \* todo[p]: the scoring jobs it has yet to enqueue
  job,        \* job[q]: the scoring job of the question's session
  worker,     \* worker[q]: where the handler of that job is
  retries,    \* how often scoring was retried
  crashes,    \* how many processes have died
  limit       \* how many of each this behaviour has at most

mockVars == <<status, summary, stale, cooling>>
itemVars == <<session, scoring, scored>>
answerVars == <<lock, media, upload>>
submitVars == <<at, todo>>
jobVars == <<job, worker>>
timerVars == <<timer, starting>>
boundVars == <<retries, crashes, limit>>
vars == <<mockVars, itemVars, answerVars, submitVars, jobVars, timerVars,
          boundVars, phase>>

Submitters == {"user", "timer"}
Enqueuers == Submitters \cup {"retry"}

NoWork == [at |-> "none", ok |-> FALSE, seen |-> {}]
Work == [at : {"none", "provider", "mark", "check", "claim", "overview", "paying",
               "leaving"},
         ok : BOOLEAN, seen : SUBSET Questions]

TypeOK ==
  /\ status \in {"DRAFT", "IN_PROGRESS", "SCORING", "SUBMITTED", "SCORED"}
  /\ phase \in {"running", "grace", "buffer", "closed"}
  /\ session \in [Questions -> Requests \cup {None}]
  /\ scoring \in [Questions -> {"PENDING", "QUEUED", "SCORED", "FAILED", "SKIPPED"}]
  /\ scored \in [Questions -> BOOLEAN]
  /\ summary \in SUBSET Questions
  /\ stale \in BOOLEAN /\ cooling \in BOOLEAN
  /\ lock \in [Questions -> Requests \cup {None}]
  /\ media \in [Requests -> BOOLEAN]
  /\ upload \in [Requests -> {"idle", "checked", "preparing", "prepared", "leaving",
                             "done"}]
  /\ timer \in {"none", "delayed", "active"}
  /\ starting \in BOOLEAN
  /\ at \in [Enqueuers -> {"idle", "claimed", "read", "enqueueing"}]
  /\ todo \in [Enqueuers -> SUBSET Questions]
  /\ job \in [Questions -> {"none", "waiting", "active", "failed"}]
  /\ worker \in [Questions -> Work]
  /\ limit \in [retries : 0..MaxRetries, crashes : 0..MaxCrashes]
  /\ retries \in 0..limit.retries
  /\ crashes \in 0..limit.crashes

Init ==
  /\ status = "DRAFT"
  /\ phase = "running"
  /\ session = [q \in Questions |-> None]
  /\ scoring = [q \in Questions |-> "PENDING"]
  /\ scored = [q \in Questions |-> FALSE]
  /\ summary = {}
  /\ stale = FALSE /\ cooling = FALSE
  /\ lock = [q \in Questions |-> None]
  /\ media = [a \in Requests |-> FALSE]
  /\ upload = [a \in Requests |-> "idle"]
  /\ timer = "none" /\ starting = FALSE
  /\ at = [p \in Enqueuers |-> "idle"]
  /\ todo = [p \in Enqueuers |-> {}]
  /\ job = [q \in Questions |-> "none"]
  /\ worker = [q \in Questions |-> NoWork]
  /\ retries = 0 /\ crashes = 0
  /\ limit \in [retries : 0..MaxRetries, crashes : 0..MaxCrashes]

-----------------------------------------------------------------------------
(* Time.                                                                     *)

\* expiresAt passes, then the grace window, then the auto-submit buffer.
Following(ph) == CASE ph = "running" -> "grace"
                   [] ph = "grace"   -> "buffer"
                   [] OTHER          -> "closed"

PassDeadline ==
  /\ status # "DRAFT" /\ phase # "closed"
  /\ phase' = Following(phase)
  /\ UNCHANGED <<mockVars, itemVars, answerVars, submitVars, jobVars, timerVars,
                 boundVars>>

\* isMockScoringStale: two minutes in SCORING without an update of the mock.
BecomeStale ==
  /\ status = "SCORING" /\ ~ stale
  /\ stale' = TRUE
  /\ UNCHANGED <<status, summary, cooling, itemVars, answerVars, submitVars,
                 jobVars, timerVars, boundVars, phase>>

\* mockScoringRetryWaitSeconds reaches 0.
CoolDown ==
  /\ cooling
  /\ cooling' = FALSE
  /\ UNCHANGED <<status, summary, stale, itemVars, answerVars, submitVars,
                 jobVars, timerVars, boundVars, phase>>

-----------------------------------------------------------------------------
(* start().                                                                  *)

Start ==
  /\ status = "DRAFT"
  /\ status' = "IN_PROGRESS"
  /\ starting' = TRUE
  /\ UNCHANGED <<summary, stale, cooling, itemVars, answerVars, submitVars,
                 jobVars, timer, boundVars, phase>>

\* enqueueDelayedAutoSubmit after the commit: an existing job is kept.  The call
\* is lost when Redis fails or the process dies.
StartTimer ==
  /\ starting
  /\ starting' = FALSE
  /\ timer' \in {timer, IF timer = "none" THEN "delayed" ELSE timer}
  /\ UNCHANGED <<mockVars, itemVars, answerVars, submitVars, jobVars, boundVars,
                 phase>>

-----------------------------------------------------------------------------
(* answer().                                                                 *)

\* assertMockCanAnswer.
CanAnswer == status = "IN_PROGRESS" /\ phase \in {"running", "grace"}

\* retryScoringTargets keeps the advisory lock between its read and its write.
AdvisoryLockFree == at["retry"] # "read"

\* The checks before the work.
BeginAnswer(a) ==
  /\ upload[a] = "idle"
  /\ CanAnswer
  /\ session[Target[a]] = None
  /\ upload' = [upload EXCEPT ![a] = "checked"]
  /\ UNCHANGED <<mockVars, itemVars, lock, media, submitVars, jobVars, timerVars,
                 boundVars, phase>>

\* SET NX of the Redis lock; a request that misses it is refused.
TakeLock(a) ==
  LET q == Target[a] IN
  /\ upload[a] = "checked"
  /\ \/ /\ lock[q] = None
        /\ lock' = [lock EXCEPT ![q] = a]
        /\ upload' = [upload EXCEPT ![a] = "preparing"]
     \/ /\ lock[q] # None
        /\ upload' = [upload EXCEPT ![a] = "done"]
        /\ UNCHANGED lock
  /\ UNCHANGED <<mockVars, itemVars, media, submitVars, jobVars, timerVars,
                 boundVars, phase>>

\* The lock lives 300 s, however long transcription and upload take.
LockExpires(q) ==
  /\ lock[q] # None
  /\ lock' = [lock EXCEPT ![q] = None]
  /\ UNCHANGED <<mockVars, itemVars, media, upload, submitVars, jobVars,
                 timerVars, boundVars, phase>>

\* Credit, transcription and upload to storage; a failure leaves no audio.
Prepare(a) ==
  /\ upload[a] = "preparing"
  /\ \/ /\ media' = [media EXCEPT ![a] = TRUE]
        /\ upload' = [upload EXCEPT ![a] = "prepared"]
     \/ /\ upload' = [upload EXCEPT ![a] = "leaving"]
        /\ UNCHANGED media
  /\ UNCHANGED <<mockVars, itemVars, lock, submitVars, jobVars, timerVars,
                 boundVars, phase>>

\* Mutant: the transaction does not check the mock again.
CommitAnswerUnchecked(a) ==
  LET q == Target[a] IN
  /\ upload[a] = "prepared"
  /\ AdvisoryLockFree
  /\ session[q] = None
  /\ session' = [session EXCEPT ![q] = a]
  /\ upload' = [upload EXCEPT ![a] = "leaving"]
  /\ UNCHANGED <<mockVars, scoring, scored, lock, media, submitVars, jobVars,
                 timerVars, boundVars, phase>>

\* The transaction under the advisory lock, which checks everything again.
CommitAnswer(a) ==
  LET q == Target[a] IN
  /\ upload[a] = "prepared"
  /\ AdvisoryLockFree
  /\ CanAnswer
  /\ session[q] = None
  /\ session' = [session EXCEPT ![q] = a]
  /\ upload' = [upload EXCEPT ![a] = "leaving"]
  /\ UNCHANGED <<mockVars, scoring, scored, lock, media, submitVars, jobVars,
                 timerVars, boundVars, phase>>

\* Mutant: the clean-up does not look at `committed`.
DiscardAnyAnswer(a) ==
  /\ upload[a] \in {"prepared", "leaving"}
  /\ upload' = [upload EXCEPT ![a] = "leaving"]
  /\ media' = [media EXCEPT ![a] = FALSE]
  /\ UNCHANGED <<mockVars, itemVars, lock, submitVars, jobVars, timerVars,
                 boundVars, phase>>

\* The transaction is refused, or an earlier call fails: the audio is deleted,
\* if storage lets it.
DiscardAnswer(a) ==
  /\ upload[a] = "prepared"
  /\ upload' = [upload EXCEPT ![a] = "leaving"]
  /\ media' \in {media, [media EXCEPT ![a] = FALSE]}
  /\ UNCHANGED <<mockVars, itemVars, lock, submitVars, jobVars, timerVars,
                 boundVars, phase>>

\* Compare-and-delete of the Redis lock.
LeaveAnswer(a) ==
  LET q == Target[a] IN
  /\ upload[a] = "leaving"
  /\ upload' = [upload EXCEPT ![a] = "done"]
  /\ lock' = [lock EXCEPT ![q] = IF @ = a THEN None ELSE @]
  /\ UNCHANGED <<mockVars, itemVars, media, submitVars, jobVars, timerVars,
                 boundVars, phase>>

-----------------------------------------------------------------------------
(* submit(), by the user or by the auto-submit job.                          *)

Answered == {q \in Questions : session[q] # None}

\* The transaction that claims the submission and skips what has no session.
ClaimSubmit(p) ==
  /\ status = "IN_PROGRESS"
  /\ at[p] = "idle"
  /\ AdvisoryLockFree
  /\ \/ p = "user" /\ UNCHANGED timer
     \/ p = "timer" /\ timer = "delayed" /\ phase = "closed" /\ timer' = "active"
  /\ status' = "SCORING" /\ stale' = FALSE
  /\ scoring' = [q \in Questions |->
                   IF session[q] = None THEN "SKIPPED" ELSE scoring[q]]
  /\ at' = [at EXCEPT ![p] = "claimed"]
  /\ UNCHANGED <<summary, cooling, session, scored, answerVars, todo, jobVars,
                 starting, boundVars, phase>>

\* No answer: an empty result at once.  Otherwise the answered questions are
\* QUEUED, and their scoring jobs are to be created.
QueueAnswered(p) ==
  /\ p \in Submitters
  /\ at[p] = "claimed"
  /\ at' = [at EXCEPT ![p] = "enqueueing"]
  /\ \/ /\ Answered = {}
        /\ status' = "SCORED" /\ stale' = FALSE
        /\ UNCHANGED <<scoring, todo>>
     \/ /\ Answered # {}
        /\ scoring' = [q \in Questions |->
                         IF q \in Answered /\ scoring[q] = "PENDING"
                           THEN "QUEUED" ELSE scoring[q]]
        /\ todo' = [todo EXCEPT ![p] = Answered]
        /\ UNCHANGED <<status, stale>>
  /\ UNCHANGED <<summary, cooling, session, scored, answerVars, jobVars,
                 timerVars, boundVars, phase>>

\* enqueueOnQueue with the session's jobId: a failed job is replaced, any other
\* is left alone.  A call that fails is only logged.
EnqueueScore(p, q) ==
  /\ at[p] = "enqueueing" /\ q \in todo[p]
  /\ todo' = [todo EXCEPT ![p] = @ \ {q}]
  /\ \/ job' = [job EXCEPT ![q] = IF @ \in {"none", "failed"} THEN "waiting" ELSE @]
     \/ UNCHANGED job
  /\ UNCHANGED <<mockVars, itemVars, answerVars, at, worker, timerVars, boundVars,
                 phase>>

FinishEnqueue(p) ==
  /\ at[p] = "enqueueing" /\ todo[p] = {}
  /\ at' = [at EXCEPT ![p] = "idle"]
  /\ timer' = IF p = "timer" THEN "none" ELSE timer
  /\ UNCHANGED <<mockVars, itemVars, answerVars, todo, jobVars, starting,
                 boundVars, phase>>

\* autoSubmitExpired of a mock that is no longer IN_PROGRESS.
SkipTimer ==
  /\ timer = "delayed" /\ phase = "closed" /\ at["timer"] = "idle"
  /\ status # "IN_PROGRESS"
  /\ timer' = "none"
  /\ UNCHANGED <<mockVars, itemVars, answerVars, submitVars, jobVars, starting,
                 boundVars, phase>>

\* Mutant: the recovery looks for mocks that were not started.
RecoverDrafts ==
  /\ status = "DRAFT" /\ phase # "running"
  /\ timer = "none"
  /\ timer' = "delayed"
  /\ UNCHANGED <<mockVars, itemVars, answerVars, submitVars, jobVars, starting,
                 boundVars, phase>>

\* recoverExpiredMocks, every five minutes.
RecoverTimer ==
  /\ status = "IN_PROGRESS" /\ phase # "running"
  /\ timer = "none"
  /\ timer' = "delayed"
  /\ UNCHANGED <<mockVars, itemVars, answerVars, submitVars, jobVars, starting,
                 boundVars, phase>>

-----------------------------------------------------------------------------
(* The scoring job of a question.                                            *)

Goto(q, w) == worker' = [worker EXCEPT ![q] = w]

\* Left unchanged by the steps of a worker that touch no table.
AllButJobs == UNCHANGED <<mockVars, itemVars, answerVars, submitVars, timerVars,
                          boundVars, phase>>

BeginScore(q) ==
  /\ job[q] = "waiting"
  /\ job' = [job EXCEPT ![q] = "active"]
  /\ Goto(q, [NoWork EXCEPT !.at = "provider"])
  /\ AllButJobs

\* extendByIdempotencyKey throws before the owner of the session is known: the
\* item is not marked.
BeginScoreFails(q) ==
  /\ job[q] = "waiting"
  /\ job' = [job EXCEPT ![q] = "failed"]
  /\ UNCHANGED worker
  /\ AllButJobs

\* A Score is found or created, and charged if the ledger accepts it; or the
\* provider fails.
Score(q) ==
  /\ worker[q].at = "provider"
  /\ \/ /\ scored' = [scored EXCEPT ![q] = TRUE]
        /\ \E ok \in BOOLEAN : Goto(q, [worker[q] EXCEPT !.at = "mark", !.ok = ok])
     \/ /\ Goto(q, [worker[q] EXCEPT !.at = "mark"])
        /\ UNCHANGED scored
  /\ UNCHANGED <<mockVars, session, scoring, answerVars, submitVars, job, timerVars,
                 boundVars, phase>>

\* Mutant: markFailure does not go on to completeIfReady.
MarkWithoutCheck(q) ==
  /\ worker[q].at = "mark"
  /\ scoring' = [scoring EXCEPT ![q] = IF worker[q].ok THEN "SCORED" ELSE "FAILED"]
  /\ Goto(q, [worker[q] EXCEPT !.at = IF worker[q].ok THEN "check" ELSE "leaving"])
  /\ UNCHANGED <<mockVars, session, scored, answerVars, submitVars, job, timerVars,
                 boundVars, phase>>

\* markSuccess, or markFailure in the catch block.
Mark(q) ==
  /\ worker[q].at = "mark"
  /\ scoring' = [scoring EXCEPT ![q] = IF worker[q].ok THEN "SCORED" ELSE "FAILED"]
  /\ Goto(q, [worker[q] EXCEPT !.at = "check"])
  /\ UNCHANGED <<mockVars, session, scored, answerVars, submitVars, job, timerVars,
                 boundVars, phase>>

Terminal == {"SCORED", "FAILED", "SKIPPED"}

\* Mutant: one finished question is enough.
CheckAnyReady(q) ==
  /\ worker[q].at = "check"
  /\ UNCHANGED job
  /\ LET ready == status = "SCORING" /\ \E p \in Questions : scoring[p] \in Terminal
     IN Goto(q, IF ready
                  THEN [worker[q] EXCEPT !.at = "claim",
                                         !.seen = {p \in Questions : scored[p]}]
                  ELSE [worker[q] EXCEPT !.at = "leaving"])
  /\ AllButJobs

\* completeIfReady reads the mock, its questions and their scores.
CheckReady(q) ==
  /\ worker[q].at = "check"
  /\ UNCHANGED job
  /\ LET ready == status = "SCORING" /\ \A p \in Questions : scoring[p] \in Terminal
     IN Goto(q, IF ready
                  THEN [worker[q] EXCEPT !.at = "claim",
                                         !.seen = {p \in Questions : scored[p]}]
                  ELSE [worker[q] EXCEPT !.at = "leaving"])
  /\ AllButJobs

\* Mutant: the claim does not test the status.
ClaimOverviewAlways(q) ==
  /\ worker[q].at = "claim"
  /\ status' = "SUBMITTED" /\ stale' = FALSE
  /\ Goto(q, [worker[q] EXCEPT !.at = "overview"])
  /\ UNCHANGED <<summary, cooling, itemVars, answerVars, submitVars, job, timerVars,
                 boundVars, phase>>

\* SCORING -> SUBMITTED, for one job only.
ClaimOverview(q) ==
  /\ worker[q].at = "claim"
  /\ \/ /\ status = "SCORING"
        /\ status' = "SUBMITTED" /\ stale' = FALSE
        /\ Goto(q, [worker[q] EXCEPT !.at = "overview"])
     \/ /\ status # "SCORING"
        /\ Goto(q, [worker[q] EXCEPT !.at = "leaving"])
        /\ UNCHANGED <<status, stale>>
  /\ UNCHANGED <<summary, cooling, itemVars, answerVars, submitVars, job, timerVars,
                 boundVars, phase>>

WriteResult(q) == status' = "SCORED" /\ summary' = worker[q].seen /\ stale' = FALSE

\* The overview of the provider, which is then charged; or the fallback, as ever
\* when nothing was scored.
WriteOverview(q) ==
  /\ worker[q].at = "overview"
  /\ WriteResult(q)
  /\ \E next \in {"paying", "leaving"} :
       /\ next = "paying" => worker[q].seen # {}
       /\ Goto(q, [worker[q] EXCEPT !.at = next])
  /\ UNCHANGED <<cooling, itemVars, answerVars, submitVars, job, timerVars,
                 boundVars, phase>>

\* When the charge fails, the catch block writes the fallback over the result.
PayOverview(q) ==
  /\ worker[q].at = "paying"
  /\ WriteResult(q) \/ UNCHANGED <<status, summary, stale>>
  /\ Goto(q, [worker[q] EXCEPT !.at = "leaving"])
  /\ UNCHANGED <<cooling, itemVars, answerVars, submitVars, job, timerVars,
                 boundVars, phase>>

\* The queue removes a job that returned and keeps one that threw.
EndScore(q) ==
  /\ worker[q].at = "leaving"
  /\ job' = [job EXCEPT ![q] = IF worker[q].ok THEN "none" ELSE "failed"]
  /\ Goto(q, NoWork)
  /\ AllButJobs

-----------------------------------------------------------------------------
(* retryScoring().                                                           *)

CanRetry(q) ==
  /\ session[q] # None /\ ~ scored[q]
  /\ \/ scoring[q] = "FAILED"
     \/ scoring[q] = "QUEUED" /\ stale

\* The reads of the transaction, which holds the advisory lock.
RetryRead ==
  LET targets == {q \in Questions : CanRetry(q)} IN
  /\ at["retry"] = "idle" /\ retries < limit.retries
  /\ status \in {"SCORING", "SCORED"}
  /\ targets # {} /\ ~ cooling
  /\ at' = [at EXCEPT !["retry"] = "read"]
  /\ todo' = [todo EXCEPT !["retry"] = targets]
  /\ retries' = retries + 1
  /\ UNCHANGED <<mockVars, itemVars, answerVars, jobVars, timerVars, crashes, limit,
                 phase>>

\* Its writes, which no worker waits for and which test nothing again.
RetryWrite ==
  /\ at["retry"] = "read"
  /\ scoring' = [q \in Questions |->
                   IF q \in todo["retry"] THEN "QUEUED" ELSE scoring[q]]
  /\ status' = "SCORING" /\ summary' = {}
  /\ stale' = FALSE /\ cooling' = TRUE
  /\ at' = [at EXCEPT !["retry"] = "enqueueing"]
  /\ UNCHANGED <<session, scored, answerVars, todo, jobVars, timerVars, boundVars,
                 phase>>

-----------------------------------------------------------------------------
(* A process dies.                                                           *)

Dies ==
  /\ crashes < limit.crashes /\ crashes' = crashes + 1
  /\ UNCHANGED <<retries, limit>>

\* During submit(): the queue runs an auto-submit job again.
SubmitterDies(p) ==
  /\ Dies
  /\ at[p] \in {"claimed", "enqueueing"}
  /\ at' = [at EXCEPT ![p] = "idle"]
  /\ todo' = [todo EXCEPT ![p] = {}]
  /\ timer' = IF p = "timer" THEN "delayed" ELSE timer
  /\ UNCHANGED <<mockVars, itemVars, answerVars, jobVars, starting, phase>>

\* During a scoring job, which is stalled: run again, or given up.
WorkerDies(q) ==
  /\ Dies
  /\ job[q] = "active"
  /\ \E after \in {"waiting", "failed"} : job' = [job EXCEPT ![q] = after]
  /\ Goto(q, NoWork)
  /\ UNCHANGED <<mockVars, itemVars, answerVars, submitVars, timerVars, phase>>

\* During answer(): the lock and the audio stay.
AnswerDies(a) ==
  /\ Dies
  /\ upload[a] \in {"preparing", "prepared", "leaving"}
  /\ upload' = [upload EXCEPT ![a] = "done"]
  /\ UNCHANGED <<mockVars, itemVars, lock, media, submitVars, jobVars, timerVars,
                 phase>>

-----------------------------------------------------------------------------
ScoreStep(q) ==
  \/ BeginScore(q) \/ BeginScoreFails(q) \/ Score(q) \/ Mark(q)
  \/ CheckReady(q) \/ ClaimOverview(q) \/ WriteOverview(q) \/ PayOverview(q)
  \/ EndScore(q)

SubmitStep(p) ==
  \/ QueueAnswered(p)
  \/ \E q \in Questions : EnqueueScore(p, q)
  \/ FinishEnqueue(p)

AnswerStep(a) ==
  \/ BeginAnswer(a) \/ TakeLock(a) \/ Prepare(a)
  \/ CommitAnswer(a) \/ DiscardAnswer(a) \/ LeaveAnswer(a)

Next ==
  \/ PassDeadline \/ BecomeStale \/ CoolDown
  \/ Start \/ StartTimer \/ RecoverTimer \/ SkipTimer
  \/ \E a \in Requests : AnswerStep(a) \/ AnswerDies(a)
  \/ \E q \in Questions : LockExpires(q) \/ ScoreStep(q) \/ WorkerDies(q)
  \/ \E p \in Submitters : ClaimSubmit(p) \/ SubmitterDies(p)
  \/ \E p \in Enqueuers : SubmitStep(p)
  \/ RetryRead \/ RetryWrite

Spec == Init /\ [][Next]_vars

\* Time passes, the queues run their jobs, the recovery scheduler comes round,
\* and a handler that lives reaches its end.
Fairness ==
  /\ WF_vars(PassDeadline)
  /\ WF_vars(StartTimer) /\ WF_vars(RecoverTimer)
  /\ WF_vars(ClaimSubmit("timer")) /\ WF_vars(SkipTimer)
  /\ WF_vars(RetryWrite)
  /\ \A p \in Enqueuers : WF_vars(SubmitStep(p))
  /\ \A q \in Questions : WF_vars(ScoreStep(q))

FairSpec == Spec /\ Fairness

-----------------------------------------------------------------------------
(* Properties.                                                               *)

Submitted == status \in {"SCORING", "SUBMITTED", "SCORED"}

\* Nothing is in flight: no handler is running and no job waits.
Quiet ==
  /\ \A p \in Enqueuers : at[p] = "idle"
  /\ \A q \in Questions : job[q] \in {"none", "failed"}

\* What isMockScoringStale will let the user retry, once two minutes have passed.
Retryable ==
  \/ status = "SCORED" /\ \E q \in Questions : CanRetry(q)
  \/ /\ status = "SCORING"
     /\ \E q \in Questions :
          session[q] # None /\ ~ scored[q] /\ scoring[q] \in {"FAILED", "QUEUED"}

\* However an answer races the submission, by hand or by the timer, a submitted
\* mock skips exactly the questions it has no session for: the advisory lock of
\* answer() and submit() lets no answer be lost or slip in afterwards.
SkippedIffUnanswered ==
  Submitted => \A q \in Questions : scoring[q] = "SKIPPED" <=> session[q] = None

\* The audio of a committed answer is never deleted, whichever upload of the
\* question loses the Redis lock, expires or is discarded: answer() cleans up
\* only what its own transaction has not committed.
SessionHasAudio ==
  \A q \in Questions : session[q] # None => media[session[q]]

\* No retry so far, and no process that died.
Undisturbed == retries = 0 /\ crashes = 0

\* Jobs that end together write one overview: completeIfReady lets a single one
\* past SCORING -> SUBMITTED, whatever dies, until a retry goes back to SCORING.
\* SUBMITTED means that the one is at work, unless it has died.
OneOverview ==
  /\ retries = 0 => Cardinality({q \in Questions : worker[q].at = "overview"}) <= 1
  /\ Undisturbed =>
       (status = "SUBMITTED" <=> \E q \in Questions : worker[q].at = "overview")

\* The result a candidate sees was computed from every score of the mock, and no
\* answered question is still waiting for one.
ResultComplete ==
  Undisturbed /\ status = "SCORED" =>
    /\ summary = {q \in Questions : scored[q]}
    /\ \A q \in Questions : scoring[q] \in Terminal

\* A submitted mock ends with a result, or with everything at rest and a retry
\* that the code will accept, though jobs fail and calls to the queue are lost.
\* Two things may leave it with neither: a death, and a retry that has QUEUED a
\* question scored since it was read.
SubmittedSettles ==
  Submitted ~>
    \/ status = "SCORED"
    \/ Quiet /\ Retryable
    \/ Quiet /\ crashes > 0
    \/ Quiet /\ retries > 0 /\ \E q \in Questions : scored[q] /\ scoring[q] = "QUEUED"

\* A mock that was started is submitted, by its user, its timer or the recovery
\* of lost timers, though the call that creates the timer is lost.
StartedIsSubmitted == status = "IN_PROGRESS" ~> Submitted

\* mock-core.constants.ts:14 says a QUEUED question without a score counts as
\* stuck after two minutes, and can be scored again.
QueuedIsRetryable ==
  Quiet => \A q \in Questions :
    scoring[q] = "QUEUED" /\ ~ scored[q] => status = "SCORING"

\* mock-interviews.service.ts:738 offers the retry to a submitted mock that has no
\* result because a job failed or got stuck.
StuckIsRetryable ==
  Submitted /\ status # "SCORED" /\ Quiet => Retryable

\* What the candidate sees of a mock is an Interview, whatever is retried, dies or
\* is lost: no answer after it was handed in, no result but of the scores of
\* answers, no way back and no other result unless somebody has asked for a retry.
Stage == CASE status \in {"DRAFT", "IN_PROGRESS"} -> "open"
           [] status \in {"SCORING", "SUBMITTED"} -> "scoring"
           [] status = "SCORED" -> "decided"
Scores == {q \in Questions : scored[q]}
Result == IF status = "SCORED" THEN summary ELSE {}

Promise == INSTANCE Interview WITH
  stage <- Stage, answers <- Answered, scores <- Scores, result <- Result,
  asked <- retries > 0

ImplementsInterview == Promise!RevisingSteps

\* As long as nobody retries, what was decided stays as it is: no job that ends late,
\* or is run again, opens the mock again or writes another result.
ResultFinal ==
  [][status = "SCORED" /\ retries = 0 => UNCHANGED <<status, summary>>]_vars

\* README.md:131 says that retries resume without overwriting completed results:
\* only the retry itself withdraws a result, and none takes the place of another.
ResultKept ==
  [][status = "SCORED" /\ status' = "SCORED" => UNCHANGED summary]_vars
=============================================================================
