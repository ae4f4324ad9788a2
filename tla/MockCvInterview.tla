--------------------------- MODULE MockCvInterview ---------------------------
(* One interview about a CV, from its first answer to its result.  Unlike    *)
(* MockInterview, where the last scoring job writes the overview itself, the *)
(* overview has a job and a status of its own: the last scoring job, or the  *)
(* retry of scoring, queues it.                                              *)
(*                                                                           *)
(* A statement or transaction of Postgres and a call of a queue is one step, *)
(* and so are the calls of one Promise.allSettled; what was read before a    *)
(* step may be stale in it.  Credits are the business of AiCredits: here its *)
(* calls only succeed or throw.  The audio of the answers, the lock on a     *)
(* question and the timer are shared with MockInterview and modelled there:  *)
(* here the answer is its transaction, and whoever submits may do so at any  *)
(* moment.  The minute between two retries may be over at any moment too.    *)
EXTENDS Integers, FiniteSets

CONSTANTS Questions,
          Submitter, Retrier, \* the two requests that work beside the jobs
          MaxRetries,         \* the bound on retries of scoring
          MaxFaults           \* the bound on processes that die and calls that throw

\* Whoever may queue the overview: the worker of a question, or the retry.
Carriers == Questions \cup {Retrier}
Actors == Carriers \cup {Submitter}

ASSUME InterviewAssumption ==
  /\ IsFiniteSet(Questions)
  /\ Submitter \notin Questions /\ Retrier \notin Questions /\ Submitter # Retrier
  /\ MaxRetries \in Nat /\ MaxFaults \in Nat

VARIABLES
  status,     \* mock_cv_interviews.status
  overview,   \* .overviewStatus
  summary,    \* the questions whose scores are in the result
  stale,      \* .updatedAt is 2 minutes old
  answered,   \* the questions that have a session
  scoring,    \* scoring[q]: mock_cv_interview_questions.scoreStatus
  scored,     \* the questions whose session has a Score row
  at,         \* at[x]: where a request, or the worker of a question, is
  ok,         \* ok[q]: the worker of q has charged the score
  todo,       \* todo[x]: the scoring jobs a request has yet to enqueue
  job,        \* job[q]: the scoring job of q
  oJob,       \* the overview job
  oAt,        \* where its worker is
  oSeen,      \* the scored questions that worker has read
  failing,    \* onFailed() of the overview job is running
  overtaken,  \* history: a question is scored again while a result is decided
  retries, faults

mockVars == <<status, overview, summary, stale>>
itemVars == <<answered, scoring, scored>>
actorVars == <<at, ok, todo, job>>
overviewVars == <<oJob, oAt, oSeen, failing>>
boundVars == <<retries, faults>>
vars == <<mockVars, itemVars, actorVars, overviewVars, boundVars, overtaken>>

TypeOK ==
  /\ status \in {"IN_PROGRESS", "SCORING", "SUBMITTED", "SCORED"}
  /\ overview \in {"PENDING", "GENERATED", "FALLBACK", "FAILED"}
  /\ summary \in SUBSET Questions
  /\ stale \in BOOLEAN
  /\ answered \in SUBSET Questions
  /\ scoring \in [Questions -> {"PENDING", "QUEUED", "SCORED", "FAILED", "SKIPPED"}]
  /\ scored \in SUBSET Questions
  /\ at \in [Actors -> {"idle", "claimed", "read", "enqueue", "provider", "mark",
                        "check", "claim", "queue", "give_up", "leaving"}]
  /\ ok \in [Questions -> BOOLEAN]
  /\ todo \in [{Submitter, Retrier} -> SUBSET Questions]
  /\ job \in [Questions -> {"none", "waiting", "active", "failed"}]
  /\ oJob \in {"none", "waiting", "active", "failed"}
  /\ oAt \in {"idle", "write", "settle"}
  /\ oSeen \in SUBSET Questions
  /\ failing \in BOOLEAN
  /\ overtaken \in BOOLEAN
  /\ retries \in 0..MaxRetries /\ faults \in 0..MaxFaults

Init ==
  /\ status = "IN_PROGRESS" /\ overview = "PENDING" /\ summary = {} /\ stale = FALSE
  /\ answered = {} /\ scored = {}
  /\ scoring = [q \in Questions |-> "PENDING"]
  /\ at = [x \in Actors |-> "idle"] /\ ok = [q \in Questions |-> FALSE]
  /\ todo = [x \in {Submitter, Retrier} |-> {}]
  /\ job = [q \in Questions |-> "none"]
  /\ oJob = "none" /\ oAt = "idle" /\ oSeen = {} /\ failing = FALSE
  /\ overtaken = FALSE
  /\ retries = 0 /\ faults = 0

\* The next step of x.
Go(x, place) == at' = [at EXCEPT ![x] = place] /\ UNCHANGED <<ok, todo, job>>

-----------------------------------------------------------------------------
(* Time.                                                                     *)

BecomeStale ==
  /\ status \in {"SCORING", "SUBMITTED"} /\ ~ stale
  /\ stale' = TRUE
  /\ UNCHANGED <<status, overview, summary, itemVars, actorVars, overviewVars,
                 boundVars, overtaken>>

-----------------------------------------------------------------------------
(* answer() and submit().                                                    *)

\* Mutant: the transaction trusts the status read before it.
AnswerUnchecked(q) ==
  /\ q \notin answered
  /\ answered' = answered \cup {q}
  /\ UNCHANGED <<mockVars, scoring, scored, actorVars, overviewVars, boundVars,
                 overtaken>>

\* The transaction of answer(), which checks everything again.
Answer(q) ==
  /\ status = "IN_PROGRESS" /\ q \notin answered
  /\ answered' = answered \cup {q}
  /\ UNCHANGED <<mockVars, scoring, scored, actorVars, overviewVars, boundVars,
                 overtaken>>

\* The transaction that claims the submission, by the user or by the timer.
Submit ==
  /\ status = "IN_PROGRESS"
  /\ status' = "SCORING" /\ overview' = "PENDING" /\ stale' = FALSE
  /\ scoring' = [q \in Questions |-> IF q \in answered THEN scoring[q] ELSE "SKIPPED"]
  /\ Go(Submitter, "claimed")
  /\ UNCHANGED <<summary, answered, scored, overviewVars, boundVars, overtaken>>

\* No answer: an empty result at once.  Otherwise the answered questions are
\* QUEUED, and their scoring jobs are to be created.
QueueAnswered ==
  /\ at[Submitter] = "claimed"
  /\ at' = [at EXCEPT ![Submitter] = "enqueue"]
  /\ todo' = [todo EXCEPT ![Submitter] = answered]
  /\ scoring' = [q \in Questions |-> IF q \in answered /\ scoring[q] = "PENDING"
                                       THEN "QUEUED" ELSE scoring[q]]
  /\ IF answered = {}
       THEN status' = "SCORED" /\ overview' = "FALLBACK" /\ stale' = FALSE
       ELSE UNCHANGED <<status, overview, stale>>
  /\ UNCHANGED <<summary, answered, scored, ok, job, overviewVars, boundVars,
                 overtaken>>

Terminal == {"SCORED", "FAILED", "SKIPPED"}

\* Scoring jobs enter the queue; a question may have been marked already.
Wait(qs) ==
  /\ job' = [q \in Questions |-> IF q \in qs THEN "waiting" ELSE job[q]]
  /\ overtaken' = (overtaken \/ \E q \in qs : scoring[q] \in Terminal)

\* enqueueScoreJobs: a failed job is replaced, any other is left alone.  Calls
\* that fail are only logged.
EnqueueScores(x) ==
  /\ at[x] = "enqueue"
  /\ \E sent \in SUBSET todo[x] :
       Wait({q \in sent : job[q] \in {"none", "failed"}})
  /\ at' = [at EXCEPT ![x] = "idle"] /\ todo' = [todo EXCEPT ![x] = {}]
  /\ UNCHANGED <<mockVars, itemVars, ok, overviewVars, boundVars>>

-----------------------------------------------------------------------------
(* The scoring job of a question.                                            *)

\* It fails without marking the question when extendByIdempotencyKey throws.
StartScore(q) ==
  /\ job[q] = "waiting"
  /\ \/ /\ job' = [job EXCEPT ![q] = "active"]
        /\ at' = [at EXCEPT ![q] = "provider"]
     \/ job' = [job EXCEPT ![q] = "failed"] /\ UNCHANGED at
  /\ UNCHANGED <<mockVars, itemVars, ok, todo, overviewVars, boundVars, overtaken>>

\* A Score is found or created, and charged if the ledger accepts it; or the
\* provider fails.
Score(q) ==
  /\ at[q] = "provider"
  /\ at' = [at EXCEPT ![q] = "mark"]
  /\ \/ /\ scored' = scored \cup {q}
        /\ \E charged \in BOOLEAN : ok' = [ok EXCEPT ![q] = charged]
     \/ UNCHANGED <<scored, ok>>
  /\ UNCHANGED <<mockVars, answered, scoring, todo, job, overviewVars, boundVars,
                 overtaken>>

\* markSuccess, or markFailure in the catch block.
Mark(q) ==
  /\ at[q] = "mark"
  /\ scoring' = [scoring EXCEPT ![q] = IF ok[q] THEN "SCORED" ELSE "FAILED"]
  /\ Go(q, "check")
  /\ UNCHANGED <<mockVars, answered, scored, overviewVars, boundVars, overtaken>>

CheckAnyReady(q) ==
  /\ at[q] = "check"
  /\ IF status = "SCORING" /\ \E p \in Questions : scoring[p] \in Terminal
       THEN Go(q, "claim") ELSE Go(q, "leaving")
  /\ UNCHANGED <<mockVars, itemVars, overviewVars, boundVars, overtaken>>

\* tryQueueOverview reads the interview and its questions ...
Check(q) ==
  /\ at[q] = "check"
  /\ IF status = "SCORING" /\ \A p \in Questions : scoring[p] \in Terminal
       THEN Go(q, "claim") ELSE Go(q, "leaving")
  /\ UNCHANGED <<mockVars, itemVars, overviewVars, boundVars, overtaken>>

\* ... and takes SCORING to SUBMITTED, which one worker only can.
Claim(q) ==
  /\ at[q] = "claim"
  /\ IF status = "SCORING" /\ overview = "PENDING"
       THEN status' = "SUBMITTED" /\ stale' = FALSE /\ Go(q, "queue")
       ELSE UNCHANGED <<status, stale>> /\ Go(q, "leaving")
  /\ UNCHANGED <<overview, summary, itemVars, overviewVars, boundVars, overtaken>>

\* The queue removes a job that returned and keeps one that threw.
EndScore(q) ==
  /\ at[q] = "leaving"
  /\ at' = [at EXCEPT ![q] = "idle"] /\ ok' = [ok EXCEPT ![q] = FALSE]
  /\ job' = [job EXCEPT ![q] = IF ok[q] THEN "none" ELSE "failed"]
  /\ UNCHANGED <<mockVars, itemVars, todo, overviewVars, boundVars, overtaken>>

-----------------------------------------------------------------------------
(* The overview is queued, by the last worker or by enqueueOverview().       *)

Over(c) == IF c = Retrier THEN "idle" ELSE "leaving"

\* One job per interview, with the same rules as for scores; or the credit is
\* refused or a call throws.
QueueOverview(c) ==
  /\ at[c] = "queue"
  /\ \/ /\ oJob' = IF oJob \in {"none", "failed"} THEN "waiting" ELSE oJob
        /\ Go(c, Over(c))
     \/ UNCHANGED oJob /\ Go(c, "give_up")
  /\ UNCHANGED <<mockVars, itemVars, oAt, oSeen, failing, boundVars, overtaken>>

\* The overview is FAILED, if it still is what was queued.
GiveUp(c) ==
  /\ at[c] = "give_up"
  /\ IF status = "SUBMITTED" /\ overview = "PENDING"
       THEN overview' = "FAILED" /\ stale' = FALSE
       ELSE UNCHANGED <<overview, stale>>
  /\ Go(c, Over(c))
  /\ UNCHANGED <<status, summary, itemVars, overviewVars, boundVars, overtaken>>

-----------------------------------------------------------------------------
(* The overview job.                                                         *)

\* It reads the scores of an interview that is SUBMITTED, unless the extension
\* of its reservation throws.
StartOverview ==
  /\ oJob = "waiting"
  /\ \/ /\ status = "SUBMITTED"
        /\ oJob' = "active" /\ oAt' = "write" /\ oSeen' = scored
        /\ UNCHANGED failing
     \/ /\ status # "SUBMITTED"
        /\ oJob' = "none"
        /\ UNCHANGED <<oAt, oSeen, failing>>
     \/ /\ oJob' = "failed" /\ failing' = TRUE
        /\ UNCHANGED <<oAt, oSeen>>
  /\ UNCHANGED <<mockVars, itemVars, actorVars, boundVars, overtaken>>

EndOverview == oJob' = "none" /\ oAt' = "idle" /\ oSeen' = {} /\ UNCHANGED failing

\* The result, with the overview of the provider or, when that fails or nothing
\* was scored, with the fallback.
WriteOverview ==
  /\ oAt = "write"
  /\ \/ /\ status = "SUBMITTED"
        /\ status' = "SCORED" /\ summary' = oSeen /\ stale' = FALSE
        /\ \/ overview' = "GENERATED" /\ oSeen # {}
           \/ overview' = "FALLBACK"
        /\ oAt' = "settle" /\ UNCHANGED <<oJob, oSeen, failing>>
     \/ /\ status # "SUBMITTED"
        /\ EndOverview
        /\ UNCHANGED mockVars
  /\ UNCHANGED <<itemVars, actorVars, boundVars, overtaken>>

\* A job that throws is kept as failed, and onFailed() is called.
OverviewThrows ==
  /\ oJob' = "failed" /\ oAt' = "idle" /\ oSeen' = {} /\ failing' = TRUE

\* The credit is consumed, or given back for the fallback.
SettleOverview ==
  /\ oAt = "settle"
  /\ EndOverview \/ OverviewThrows
  /\ UNCHANGED <<mockVars, itemVars, actorVars, boundVars, overtaken>>

\* onFailed()
MarkFailed ==
  /\ failing
  /\ IF status = "SUBMITTED"
       THEN overview' = "FAILED" /\ stale' = FALSE
       ELSE UNCHANGED <<overview, stale>>
  /\ failing' = FALSE
  /\ UNCHANGED <<status, summary, itemVars, actorVars, oJob, oAt, oSeen, boundVars,
                 overtaken>>

-----------------------------------------------------------------------------
(* retryScoring(), by the user or by an admin.                               *)

\* old: the interview has not changed for 2 minutes.
CanRetry(q, old) ==
  /\ q \in answered /\ q \notin scored
  /\ \/ scoring[q] = "FAILED"
     \/ scoring[q] = "QUEUED" /\ status = "SCORING" /\ old

OnlyFailedOverview(old) == overview = "FAILED"

CanRetryOverview(old) == overview = "FAILED" \/ (status = "SUBMITTED" /\ old)

\* The reads of the transaction: questions come before the overview.
RetryRead ==
  LET targets == {q \in Questions : CanRetry(q, stale)}
  IN /\ at[Retrier] = "idle" /\ retries < MaxRetries
     /\ status # "IN_PROGRESS"
     /\ targets # {} \/ CanRetryOverview(stale)
     /\ retries' = retries + 1
     /\ at' = [at EXCEPT ![Retrier] = "read"]
     /\ todo' = [todo EXCEPT ![Retrier] = targets]
     /\ UNCHANGED <<mockVars, itemVars, ok, job, overviewVars, faults, overtaken>>

\* Its writes, which no job waits for and which test nothing again.
RetryWrite ==
  /\ at[Retrier] = "read"
  /\ stale' = FALSE /\ overview' = "PENDING"
  /\ overtaken' = \/ overtaken
                   \/ oAt = "write" \/ \E q \in Questions : at[q] = "claim"
                   \/ todo[Retrier] \cap scored # {}
  /\ IF todo[Retrier] = {}
       THEN /\ status' = "SUBMITTED"
            /\ Go(Retrier, "queue")
            /\ UNCHANGED <<summary, scoring>>
       ELSE /\ status' = "SCORING" /\ summary' = {}
            /\ scoring' = [q \in Questions |->
                             IF q \in todo[Retrier] THEN "QUEUED" ELSE scoring[q]]
            /\ Go(Retrier, "enqueue")
  /\ UNCHANGED <<answered, scored, overviewVars, boundVars>>

-----------------------------------------------------------------------------
(* A process dies, or a call throws.                                         *)

Fault == faults < MaxFaults /\ faults' = faults + 1

RequestDies(x) ==
  /\ Fault
  /\ at[x] # "idle"
  /\ at' = [at EXCEPT ![x] = "idle"] /\ todo' = [todo EXCEPT ![x] = {}]
  /\ UNCHANGED <<mockVars, itemVars, ok, job, overviewVars, retries, overtaken>>

\* A stalled job is run again or given up.  What tryQueueOverview throws reaches
\* the catch block of the job, which marks the question FAILED.
WorkerFails(q) ==
  /\ Fault
  /\ job[q] = "active"
  /\ ok' = [ok EXCEPT ![q] = FALSE]
  /\ \/ /\ at' = [at EXCEPT ![q] = "idle"]
        /\ \/ job' = [job EXCEPT ![q] = "failed"] /\ UNCHANGED overtaken
           \/ Wait({q})
     \/ /\ at[q] \in {"check", "claim", "give_up"}
        /\ at' = [at EXCEPT ![q] = IF ok[q] THEN "mark" ELSE "leaving"]
        /\ UNCHANGED <<job, overtaken>>
  /\ UNCHANGED <<mockVars, itemVars, todo, overviewVars, retries>>

OverviewFails ==
  /\ Fault
  /\ \/ /\ oJob = "active"
        /\ \/ oJob' = "waiting" /\ oAt' = "idle" /\ oSeen' = {} /\ UNCHANGED failing
           \/ OverviewThrows
     \/ failing /\ failing' = FALSE /\ UNCHANGED <<oJob, oAt, oSeen>>
  /\ UNCHANGED <<mockVars, itemVars, actorVars, retries, overtaken>>

-----------------------------------------------------------------------------
SubmitStep == QueueAnswered \/ EnqueueScores(Submitter)

CarryStep(c) == QueueOverview(c) \/ GiveUp(c)

ScoreStep(q) ==
  \/ StartScore(q) \/ Score(q) \/ Mark(q) \/ Check(q) \/ Claim(q)
  \/ CarryStep(q) \/ EndScore(q)

RetryStep == RetryWrite \/ EnqueueScores(Retrier) \/ CarryStep(Retrier)

OverviewStep == StartOverview \/ WriteOverview \/ SettleOverview

Next ==
  \/ BecomeStale
  \/ Submit \/ SubmitStep \/ RetryRead \/ RetryStep
  \/ OverviewStep \/ MarkFailed \/ OverviewFails
  \/ \E q \in Questions : Answer(q) \/ ScoreStep(q) \/ WorkerFails(q)
  \/ \E x \in {Submitter, Retrier} : RequestDies(x)

Spec == Init /\ [][Next]_vars

\* Handlers that live reach their end, and the queue runs its jobs.  Nothing is
\* assumed of users, of time or of faults.
Fairness ==
  /\ WF_vars(SubmitStep) /\ WF_vars(RetryStep)
  /\ \A q \in Questions : WF_vars(ScoreStep(q))
  /\ WF_vars(OverviewStep) /\ WF_vars(MarkFailed)

FairSpec == Spec /\ Fairness

-----------------------------------------------------------------------------
(* Properties.                                                               *)

\* The result was computed from every score there is, and no answer waits for
\* one.  The test of SUBMITTED before the result is written tells an interview
\* from itself before a retry only when no job had decided already: a retry that
\* overtakes such a job leads to a result without the scores it asked for.
ResultComplete ==
  status = "SCORED" /\ ~ overtaken =>
    /\ summary = scored
    /\ \A q \in Questions : scoring[q] \in Terminal

\* Nothing is in flight.
Quiet ==
  /\ \A x \in Actors : at[x] = "idle"
  /\ \A q \in Questions : job[q] \in {"none", "failed"}
  /\ oJob \in {"none", "failed"} /\ ~ failing

\* What the retry accepts, once two minutes have passed.
Retryable == CanRetryOverview(TRUE) \/ \E q \in Questions : CanRetry(q, TRUE)

\* An interview that was handed in ends with a result, or at rest with a retry
\* that the code accepts.  Once it is SUBMITTED no fault can change that: a
\* worker that dies between the claim and the overview leaves what the retry
\* finds stale.  In SCORING, a fault may leave it with nothing to retry, and so
\* may a retry that has QUEUED a question scored since it was read.
SubmittedSettles ==
  status \in {"SCORING", "SUBMITTED"} ~>
    \/ status = "SCORED"
    \/ Quiet /\ Retryable
    \/ Quiet /\ status = "SCORING" /\ (faults > 0 \/ overtaken)

\* What the candidate sees is an Interview, whatever is retried, dies or throws:
\* no answer after it was handed in, no result but of the scores of answers, none
\* withdrawn unless somebody has asked for a retry, and none that takes the place
\* of another: an overview is written to an interview that waits for it, and to no
\* other.
Stage == CASE status = "IN_PROGRESS" -> "open"
           [] status \in {"SCORING", "SUBMITTED"} -> "scoring"
           [] status = "SCORED" -> "decided"

Result == IF status = "SCORED" THEN summary ELSE {}

Promise == INSTANCE Interview WITH
  stage <- Stage, answers <- answered, scores <- scored, result <- Result,
  asked <- retries > 0

ImplementsInterview == Promise!Spec
=============================================================================
