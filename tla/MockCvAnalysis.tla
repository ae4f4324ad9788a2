---------------------------- MODULE MockCvAnalysis ----------------------------
(* One CV from upload to removal: the analysis of the profile, the question  *)
(* set that is prepared after it, the interviews started from it and the     *)
(* credits held for it.                                                      *)
(*                                                                           *)
(* Requests and the jobs of two queues work on one row with a status and an  *)
(* attempt number for each of the two phases.  A statement or transaction of *)
(* Postgres, a command of Redis and a call of a queue is one step; what was  *)
(* read before a step may be stale in it.  One step are, too, the lock with  *)
(* the first read under it, the start of a job with its first statement, the *)
(* end of a request or a job with its last one, and the read of an attempt   *)
(* with the call of the queue that follows it.  A request that its first     *)
(* read refuses is no step.  A call of AiCreditsService is one step: the     *)
(* races within such a call are the subject of AiCredits.                    *)
EXTENDS Integers, FiniteSets

CONSTANTS Requests,     \* HTTP requests that can be under way at once
          MaxAttempts,  \* the bound on the attempts of either phase
          MaxCalls,     \* the bound on requests after the upload
          MaxFaults,    \* the bound on processes that die and calls that throw
          MaxExpiries,  \* the bound on locks that expire under their holder
          None          \* the lock is free

Attempts == 1..MaxAttempts

\* Whoever prepares questions: a request, or the profile worker of an attempt.
Callers == Requests \cup Attempts

ASSUME AnalysisAssumption ==
  /\ MaxAttempts \in Nat \ {0}
  /\ MaxCalls \in Nat /\ MaxFaults \in Nat /\ MaxExpiries \in Nat
  /\ Requests \cap Attempts = {}
  /\ None \notin Requests

VARIABLES
  cv,         \* the mock_cvs row
  status,     \* mock_cv_analyses.status
  attempt,    \* .analysisAttempt
  stale,      \* ANALYZING since 5 minutes or more (.analysisStartedAt)
  author,     \* history: the attempt whose worker wrote the verdict
  qStatus,    \* .questionGenerationStatus
  qAttempt,   \* .questionGenerationAttempt
  qStale,     \* GENERATING since 15 minutes or more
  sets,       \* the attempts whose question set is stored
  running,    \* an interview of the CV is IN_PROGRESS
  rsv,        \* the reservation of MOCK_CV_ANALYSIS; "none" when given back
  lock,       \* the Redis lock of operations on the CV
  at,         \* at[x]: where a request or a profile worker is
  op,         \* op[x]: what it is doing
  seen,       \* seen[x]: the analysis attempt it read
  qSeen,      \* qSeen[x]: the question attempt it read
  job,        \* job[n]: the profile job of attempt n
  qJob,       \* qJob[n]: the question job of attempt n
  gen,        \* gen[n]: where the worker of that job is
  lost,       \* history: a removal took the job of the current attempt away
  calls, faults, expiries

rowVars == <<cv, status, attempt, stale, author>>
setVars == <<qStatus, qAttempt, qStale, sets>>
callVars == <<at, op, seen, qSeen, lock, job>>
genVars == <<qJob, gen>>
boundVars == <<calls, faults, expiries>>
vars == <<rowVars, setVars, callVars, genVars, boundVars, running, rsv, lost>>

Preparing == {"prepare", "take", "missed", "drop", "enqueue_set", "undo_set"}
Verdicts == {"READY", "UNSUPPORTED", "NEEDS_REUPLOAD"}

TypeOK ==
  /\ cv \in {"absent", "creating", "stored", "deleted"}
  /\ status \in Verdicts \cup {"PENDING", "ANALYZING", "FAILED"}
  /\ attempt \in 0..MaxAttempts
  /\ stale \in BOOLEAN
  /\ author \in 0..MaxAttempts
  /\ qStatus \in {"PENDING", "GENERATING", "READY", "FAILED"}
  /\ qAttempt \in 0..MaxAttempts
  /\ qStale \in BOOLEAN
  /\ sets \in SUBSET Attempts
  /\ running \in BOOLEAN
  /\ rsv \in {"none", "PENDING", "CONSUMED"}
  /\ lock \in Requests \cup {None}
  /\ at \in [Callers -> Preparing \cup
               {"idle", "store", "reserve", "claim", "enqueue", "undo",
                "release", "read_job", "analyze", "job_failed",
                "hold", "open", "jobs", "delete"}]
  /\ op \in [Callers -> {"none", "create", "retry", "questions", "start",
                         "remove", "purge"}]
  /\ seen \in [Callers -> 0..MaxAttempts]
  /\ qSeen \in [Callers -> 0..MaxAttempts]
  /\ job \in [Attempts -> {"none", "waiting", "active"}]
  /\ qJob \in [Attempts -> {"none", "waiting", "active"}]
  /\ gen \in [Attempts -> {"idle", "generate", "consume", "release", "job_failed"}]
  /\ lost \in BOOLEAN
  /\ calls \in 0..MaxCalls
  /\ faults \in 0..MaxFaults /\ expiries \in 0..MaxExpiries

Init ==
  /\ cv = "absent"
  /\ status = "PENDING" /\ attempt = 0 /\ stale = FALSE
  /\ author = 0
  /\ qStatus = "PENDING" /\ qAttempt = 0 /\ qStale = FALSE /\ sets = {}
  /\ running = FALSE
  /\ rsv = "none"
  /\ lock = None
  /\ at = [x \in Callers |-> "idle"] /\ op = [x \in Callers |-> "none"]
  /\ seen = [x \in Callers |-> 0] /\ qSeen = [x \in Callers |-> 0]
  /\ job = [n \in Attempts |-> "none"]
  /\ qJob = [n \in Attempts |-> "none"] /\ gen = [n \in Attempts |-> "idle"]
  /\ lost = FALSE
  /\ calls = 0 /\ faults = 0 /\ expiries = 0

\* The next step of x.
Go(x, place) ==
  /\ at' = [at EXCEPT ![x] = place]
  /\ UNCHANGED <<op, seen, qSeen, lock, job>>

\* x forgets what it was doing.
Forget(x) ==
  /\ at' = [at EXCEPT ![x] = "idle"] /\ op' = [op EXCEPT ![x] = "none"]
  /\ seen' = [seen EXCEPT ![x] = 0] /\ qSeen' = [qSeen EXCEPT ![x] = 0]

\* Compare-and-delete.
Unlocked(x) == IF lock = x THEN None ELSE lock

\* A request ends, with its lock; or a worker, with its job.
End(x) ==
  /\ Forget(x)
  /\ lock' = Unlocked(x)
  /\ job' = [n \in Attempts |-> IF n = x THEN "none" ELSE job[n]]

\* The row of the analysis, which is deleted with the CV.
IsAnalysis(s, n) == cv = "stored" /\ status = s /\ attempt = n

-----------------------------------------------------------------------------
(* Time.                                                                     *)

BecomeStale ==
  /\ \/ /\ status = "ANALYZING" /\ ~ stale
        /\ stale' = TRUE /\ UNCHANGED qStale
     \/ /\ qStatus = "GENERATING" /\ ~ qStale
        /\ qStale' = TRUE /\ UNCHANGED stale
  /\ UNCHANGED <<cv, status, attempt, author, qStatus, qAttempt, sets,
                 callVars, genVars, boundVars, running, rsv, lost>>

\* expireReservations gives back credits that were held for too long.
ReservationExpires ==
  /\ rsv = "PENDING"
  /\ rsv' = "none"
  /\ UNCHANGED <<rowVars, setVars, callVars, genVars, boundVars, running, lost>>

\* The lock lives 120 s, whatever its holder still has to do.
LockExpires ==
  /\ lock # None /\ expiries < MaxExpiries
  /\ lock' = None
  /\ expiries' = expiries + 1
  /\ UNCHANGED <<rowVars, setVars, at, op, seen, qSeen, job, genVars, calls, faults,
                 running, rsv, lost>>

\* submit() of the interview, which is MockCvInterview's from here on.
SubmitInterview ==
  /\ running
  /\ running' = FALSE
  /\ UNCHANGED <<rowVars, setVars, callVars, genVars, boundVars, rsv, lost>>

-----------------------------------------------------------------------------
(* Credits.                                                                  *)

\* reserve: a key that is PENDING or CONSUMED is returned as it is.
Held == IF rsv = "none" THEN "PENDING" ELSE rsv

\* releaseByReference and consumeByReference: of a PENDING reservation only.
Released == IF rsv = "PENDING" THEN "none" ELSE rsv
Consumed == IF rsv = "PENDING" THEN "CONSUMED" ELSE rsv

Release(x) ==
  /\ at[x] = "release"
  /\ rsv' = Released
  /\ End(x)
  /\ UNCHANGED <<rowVars, setVars, genVars, boundVars, running, lost>>

\* The request reserves, or is refused for lack of credits.
ReserveThen(r, from, place) ==
  /\ at[r] = from
  /\ \/ rsv' = Held /\ Go(r, place)
     \/ rsv = "none" /\ UNCHANGED rsv /\ End(r)
  /\ UNCHANGED <<rowVars, setVars, genVars, boundVars, running, lost>>

-----------------------------------------------------------------------------
(* create().                                                                 *)

\* The credits come first.
BeginCreate(r) ==
  /\ cv = "absent" /\ at[r] = "idle"
  /\ cv' = "creating"
  /\ rsv' = "PENDING"
  /\ at' = [at EXCEPT ![r] = "store"] /\ op' = [op EXCEPT ![r] = "create"]
  /\ UNCHANGED <<status, attempt, stale, author, setVars, seen, qSeen, lock, job,
                 genVars, boundVars, running, lost>>

\* Upload and insert; a failure of either gives the credits back.
StoreCv(r) ==
  /\ at[r] = "store"
  /\ \/ cv' = "stored" /\ Go(r, "claim")
     \/ cv' = "deleted" /\ Go(r, "release")
  /\ UNCHANGED <<status, attempt, stale, author, setVars, genVars, boundVars, running,
                 rsv, lost>>

-----------------------------------------------------------------------------
(* Requests for a CV that the user, or an admin, can see.                    *)

Call(r, o, place) ==
  /\ cv = "stored" /\ at[r] = "idle"
  /\ calls < MaxCalls /\ calls' = calls + 1
  /\ at' = [at EXCEPT ![r] = place] /\ op' = [op EXCEPT ![r] = o]
  /\ UNCHANGED <<rowVars, setVars, job, genVars, faults, expiries, running, rsv, lost>>

\* Mutant: the removals do not wait for the lock.
LockUnlessRemoving(r) ==
  lock' = IF op'[r] \in {"remove", "purge"} /\ lock # None THEN lock ELSE r

\* SET NX; a request that misses the lock is refused.
Lock(r) == lock = None /\ lock' = r

-----------------------------------------------------------------------------
(* retryAnalysis(), by the user or by an admin who does not charge.          *)

\* assertCanRetry: a PENDING analysis is "waiting its turn" and refused.  So is a
\* retry less than a minute after the last one.
CanRetry == status = "FAILED" \/ (status = "ANALYZING" /\ stale)

\* Mutant: the retry of a waiting analysis queues its job again.
RetryWaiting(r) ==
  /\ \/ CanRetry /\ Call(r, "retry", "claim")
     \/ status = "PENDING" /\ attempt > 0 /\ Call(r, "retry", "enqueue")
  /\ Lock(r)
  /\ UNCHANGED <<seen, qSeen>>

Retry(r) ==
  /\ CanRetry
  /\ Call(r, "retry", "reserve") \/ Call(r, "retry", "claim")
  /\ Lock(r)
  /\ UNCHANGED <<seen, qSeen>>

Reserve(r) == ReserveThen(r, "reserve", "claim")

\* The condition of the updateMany of claimAndEnqueue.
Claimable ==
  /\ cv = "stored"
  /\ \/ status = "FAILED"
     \/ status = "PENDING" /\ attempt = 0
     \/ status = "ANALYZING" /\ stale

\* Every claim is a new attempt.  MaxAttempts bounds them: a claim beyond it
\* misses.
Claim(r) ==
  /\ at[r] = "claim"
  /\ \/ /\ Claimable /\ attempt < MaxAttempts
        /\ status' = "PENDING" /\ attempt' = attempt + 1 /\ stale' = FALSE
        /\ lost' = FALSE
        /\ Go(r, "enqueue")
     \/ /\ ~ (Claimable /\ attempt < MaxAttempts)
        /\ End(r)
        /\ UNCHANGED <<status, attempt, stale, lost>>
  /\ UNCHANGED <<cv, author, setVars, genVars, boundVars, running, rsv>>

\* The attempt is read again, and not as part of the claim; the jobId carries
\* it.  A failed job is replaced, so it counts as none.
Enqueue(r) ==
  /\ at[r] = "enqueue"
  /\ \/ /\ cv = "stored"
        /\ job' = [job EXCEPT ![attempt] = IF @ = "none" THEN "waiting" ELSE @]
        /\ Forget(r) /\ lock' = Unlocked(r)
     \/ /\ cv = "stored"
        /\ at' = [at EXCEPT ![r] = "undo"] /\ seen' = [seen EXCEPT ![r] = attempt]
        /\ UNCHANGED <<op, qSeen, lock, job>>
     \/ cv # "stored" /\ End(r)
  /\ UNCHANGED <<rowVars, setVars, genVars, boundVars, running, rsv, lost>>

\* Mutant: a claim that could not be enqueued is left PENDING.
UndoNothing(r) ==
  /\ at[r] = "undo"
  /\ Go(r, "release")
  /\ UNCHANGED <<rowVars, setVars, genVars, boundVars, running, rsv, lost>>

\* Nothing was enqueued: FAILED, if it still is this attempt.
Undo(r) ==
  /\ at[r] = "undo"
  /\ status' = IF IsAnalysis("PENDING", seen[r]) THEN "FAILED" ELSE status
  /\ Go(r, "release")
  /\ UNCHANGED <<cv, attempt, stale, author, setVars, genVars, boundVars, running,
                 rsv, lost>>

-----------------------------------------------------------------------------
(* The profile job of attempt n.                                             *)

\* PENDING -> ANALYZING of its own attempt, or the job is over.
StartJob(n) ==
  /\ job[n] = "waiting"
  /\ \/ /\ IsAnalysis("PENDING", n)
        /\ status' = "ANALYZING"
        /\ job' = [job EXCEPT ![n] = "active"]
        /\ at' = [at EXCEPT ![n] = "read_job"]
     \/ /\ ~ IsAnalysis("PENDING", n)
        /\ job' = [job EXCEPT ![n] = "none"]
        /\ UNCHANGED <<status, at>>
  /\ UNCHANGED <<cv, attempt, stale, author, setVars, op, seen, qSeen, lock, genVars,
                 boundVars, running, rsv, lost>>

\* A job of an older attempt or of a deleted CV stops here.  extendByReference
\* lies outside the try: when it throws, the queue reports the job as failed.
ReadJob(n) ==
  /\ at[n] = "read_job"
  /\ IF cv = "stored" /\ attempt = n
       THEN \E place \in {"analyze", "job_failed"} : Go(n, place)
       ELSE End(n)
  /\ UNCHANGED <<rowVars, setVars, genVars, boundVars, running, rsv, lost>>

\* Mutant: the verdict is written by whoever comes.
ConcludeAnyAttempt(n) ==
  /\ at[n] = "analyze"
  /\ cv = "stored" /\ status = "ANALYZING"
  /\ \E verdict \in Verdicts \cup {"FAILED"} :
       /\ status' = verdict /\ stale' = FALSE
       /\ author' = IF verdict \in Verdicts THEN n ELSE author
       /\ Go(n, IF verdict = "READY" THEN "prepare" ELSE "release")
  /\ UNCHANGED <<cv, attempt, setVars, genVars, boundVars, running, rsv, lost>>

\* The provider's verdict on the CV, or an error, written if the row still is
\* ANALYZING this attempt.  Anything but READY gives the credits back.
Conclude(n) ==
  /\ at[n] = "analyze"
  /\ \/ /\ IsAnalysis("ANALYZING", n)
        /\ \E verdict \in Verdicts \cup {"FAILED"} :
             /\ status' = verdict /\ stale' = FALSE
             /\ author' = IF verdict \in Verdicts THEN n ELSE author
             /\ Go(n, IF verdict = "READY" THEN "prepare" ELSE "release")
     \/ /\ ~ IsAnalysis("ANALYZING", n)
        /\ End(n)
        /\ UNCHANGED <<status, stale, author>>
  /\ UNCHANGED <<cv, attempt, setVars, genVars, boundVars, running, rsv, lost>>

\* Mutant: onFailed only gives back the credits.
JobFailedReleaseOnly(n) ==
  /\ at[n] = "job_failed"
  /\ Go(n, "release")
  /\ UNCHANGED <<rowVars, setVars, genVars, boundVars, running, rsv, lost>>

\* onFailed: the same for a job that threw, or stalled too often; it counts as
\* active until then.
JobFailed(n) ==
  /\ at[n] = "job_failed"
  /\ \/ /\ IsAnalysis("ANALYZING", n)
        /\ status' = "FAILED" /\ stale' = FALSE
        /\ Go(n, "release")
     \/ /\ ~ IsAnalysis("ANALYZING", n)
        /\ End(n)
        /\ UNCHANGED <<status, stale>>
  /\ UNCHANGED <<cv, attempt, author, setVars, genVars, boundVars, running, rsv, lost>>

-----------------------------------------------------------------------------
(* ensureQueued(), called by the profile job, start() and an admin.          *)

\* Whether the first read finds questions to be prepared.
Unprepared ==
  /\ cv = "stored" /\ status = "READY"
  /\ qStatus \in {"PENDING", "FAILED"} \/ (qStatus = "GENERATING" /\ qStale)

\* The first read, which decides and whose attempt is kept.
Prepare(n) ==
  /\ at[n] = "prepare"
  /\ \/ /\ Unprepared
        /\ at' = [at EXCEPT ![n] = "take"] /\ qSeen' = [qSeen EXCEPT ![n] = qAttempt]
        /\ UNCHANGED <<op, seen, lock, job>>
     \/ ~ Unprepared /\ End(n)
  /\ UNCHANGED <<rowVars, setVars, genVars, boundVars, running, rsv, lost>>

\* The admin's retry of the questions takes no lock and charges nobody.
AdminQuestions(r) ==
  /\ Unprepared
  /\ Call(r, "questions", "take")
  /\ qSeen' = [qSeen EXCEPT ![r] = qAttempt]
  /\ UNCHANGED <<seen, lock>>

\* start(): questions that are ready are used, others prepared and charged for.
Start(r) ==
  /\ status = "READY"
  /\ \/ qStatus = "READY" /\ Call(r, "start", "open") /\ UNCHANGED qSeen
     \/ /\ Unprepared
        /\ Call(r, "start", "hold")
        /\ qSeen' = [qSeen EXCEPT ![r] = qAttempt]
  /\ Lock(r)
  /\ UNCHANGED seen

Hold(r) == ReserveThen(r, "hold", "take")

\* The condition of the updateMany, on the attempt read before.
Takeable(x) == Unprepared /\ qAttempt = qSeen[x] /\ qAttempt < MaxAttempts

\* MaxAttempts bounds these attempts as well.
Take(x) ==
  /\ at[x] = "take"
  /\ \/ /\ Takeable(x)
        /\ qStatus' = "GENERATING" /\ qAttempt' = qAttempt + 1 /\ qStale' = FALSE
        /\ Go(x, "enqueue_set")
     \/ /\ ~ Takeable(x)
        /\ Go(x, "missed")
        /\ UNCHANGED <<qStatus, qAttempt, qStale>>
  /\ UNCHANGED <<rowVars, sets, genVars, boundVars, running, rsv, lost>>

\* The claim missed, and the row is read again.
Missed(x) ==
  /\ at[x] = "missed"
  /\ IF cv = "stored" /\ qStatus = "READY" THEN Go(x, "drop") ELSE End(x)
  /\ UNCHANGED <<rowVars, setVars, genVars, boundVars, running, rsv, lost>>

\* A parallel caller has completed the set: the credits are given back, though
\* they may be those its worker has yet to consume.
Drop(x) ==
  /\ at[x] = "drop"
  /\ rsv' = Released
  /\ IF op[x] = "start" THEN Go(x, "open") ELSE End(x)
  /\ UNCHANGED <<rowVars, setVars, genVars, boundVars, running, lost>>

EnqueueSet(x) ==
  /\ at[x] = "enqueue_set"
  /\ \/ /\ cv = "stored"
        /\ qJob' = [qJob EXCEPT ![qAttempt] = IF @ = "none" THEN "waiting" ELSE @]
        /\ End(x)
     \/ /\ cv = "stored"
        /\ at' = [at EXCEPT ![x] = "undo_set"]
        /\ qSeen' = [qSeen EXCEPT ![x] = qAttempt]
        /\ UNCHANGED <<op, seen, lock, job, qJob>>
     \/ cv # "stored" /\ UNCHANGED qJob /\ End(x)
  /\ UNCHANGED <<rowVars, setVars, gen, boundVars, running, rsv, lost>>

UndoSet(x) ==
  LET mine == cv = "stored" /\ qStatus = "GENERATING" /\ qAttempt = qSeen[x]
  IN /\ at[x] = "undo_set"
     /\ qStatus' = (IF mine THEN "FAILED" ELSE qStatus)
     /\ qStale' = (~ mine /\ qStale)
     /\ Go(x, "release")
     /\ UNCHANGED <<rowVars, qAttempt, sets, genVars, boundVars, running, rsv, lost>>

-----------------------------------------------------------------------------
(* The question job of attempt n.                                            *)

\* What the guards of the job's writes ask for.
IsGenerating(n) ==
  cv = "stored" /\ status = "READY" /\ qStatus = "GENERATING" /\ qAttempt = n

Generate(n, place) == gen' = [gen EXCEPT ![n] = place] /\ UNCHANGED qJob

EndQuestionJob(n) ==
  gen' = [gen EXCEPT ![n] = "idle"] /\ qJob' = [qJob EXCEPT ![n] = "none"]

\* The job reads its row; extendByReference may throw.
StartQuestionJob(n) ==
  /\ qJob[n] = "waiting"
  /\ \/ /\ IsGenerating(n)
        /\ qJob' = [qJob EXCEPT ![n] = "active"]
        /\ \E place \in {"generate", "job_failed"} : gen' = [gen EXCEPT ![n] = place]
     \/ ~ IsGenerating(n) /\ EndQuestionJob(n)
  /\ UNCHANGED <<rowVars, setVars, callVars, boundVars, running, rsv, lost>>

\* Mutant: the transaction does not ask which attempt it writes for.
StoreAnySet(n) ==
  /\ gen[n] = "generate"
  /\ cv = "stored" /\ status = "READY" /\ qStatus = "GENERATING" /\ sets = {}
  /\ qStatus' = "READY" /\ qStale' = FALSE /\ sets' = {n}
  /\ Generate(n, "consume")
  /\ UNCHANGED <<rowVars, qAttempt, callVars, boundVars, running, rsv, lost>>

\* One transaction: READY and the questions, of this attempt and of no other.
StoreSet(n) ==
  /\ gen[n] = "generate"
  /\ \/ /\ IsGenerating(n) /\ sets = {}
        /\ qStatus' = "READY" /\ qStale' = FALSE /\ sets' = {n}
        /\ Generate(n, "consume")
     \/ /\ ~ IsGenerating(n)
        /\ EndQuestionJob(n)
        /\ UNCHANGED <<qStatus, qStale, sets>>
  /\ UNCHANGED <<rowVars, qAttempt, callVars, boundVars, running, rsv, lost>>

\* The provider fails, or the job threw, or a set is there already.
FailSet(n) ==
  /\ gen[n] \in {"generate", "job_failed"}
  /\ \/ /\ IsGenerating(n)
        /\ qStatus' = "FAILED" /\ qStale' = FALSE
        /\ Generate(n, "release")
     \/ /\ ~ IsGenerating(n)
        /\ EndQuestionJob(n)
        /\ UNCHANGED <<qStatus, qStale>>
  /\ UNCHANGED <<rowVars, qAttempt, sets, callVars, boundVars, running, rsv, lost>>

\* Mutant: the credits are consumed before the questions are stored.
ConsumeFirst(n) ==
  /\ gen[n] \in {"generate", "consume"}
  /\ rsv' = Consumed
  /\ IF gen[n] = "consume" THEN EndQuestionJob(n) ELSE UNCHANGED genVars
  /\ UNCHANGED <<rowVars, setVars, callVars, boundVars, running, lost>>

\* A reservation that is no longer PENDING is left alone.
Consume(n) ==
  /\ gen[n] = "consume"
  /\ rsv' = Consumed
  /\ EndQuestionJob(n)
  /\ UNCHANGED <<rowVars, setVars, callVars, boundVars, running, lost>>

ReleaseSet(n) ==
  /\ gen[n] = "release"
  /\ rsv' = Released
  /\ EndQuestionJob(n)
  /\ UNCHANGED <<rowVars, setVars, callVars, boundVars, running, lost>>

-----------------------------------------------------------------------------
(* The interviews.                                                           *)

\* Mutant: the transaction trusts what start() has read.
OpenUnchecked(r) ==
  /\ at[r] = "open"
  /\ running' = TRUE
  /\ End(r)
  /\ UNCHANGED <<rowVars, setVars, genVars, boundVars, rsv, lost>>

\* createOrGetActiveInterview, a transaction under an advisory lock: the running
\* interview is returned, else one is created from a complete set.
Open(r) ==
  /\ at[r] = "open"
  /\ running' = \/ running
                \/ /\ cv = "stored" /\ status = "READY"
                   /\ qStatus = "READY" /\ sets # {}
  /\ End(r)
  /\ UNCHANGED <<rowVars, setVars, genVars, boundVars, rsv, lost>>

-----------------------------------------------------------------------------
(* remove() by the user, hardDelete() ("purge") by an admin.                 *)

\* A CV with an interview IN_PROGRESS is not removed.  An admin may not delete
\* one either while a phase of its analysis is under way.  The user's removal also
\* refuses a CV whose interview is SUBMITTED or SCORING: such an interview is not
\* followed here, and the model removes the CV all the same.
Remove(r) ==
  /\ ~ running
  /\ \/ Call(r, "remove", "jobs")
     \/ /\ status = "ANALYZING" => stale
        /\ qStatus = "GENERATING" => qStale
        /\ Call(r, "purge", "jobs")
  /\ Lock(r)
  /\ seen' = [seen EXCEPT ![r] = attempt] /\ qSeen' = [qSeen EXCEPT ![r] = qAttempt]

\* removeJobsOrThrow: every job that waits is removed, then an active one makes
\* the request fail with 409.  A job that scores an interview, which only a CV
\* with questions has, may be active as well.
RemoveJobs(r) ==
  LET mine == 1..seen[r]
      qMine == 1..qSeen[r]
      busy == \/ \E n \in mine : job[n] = "active"
              \/ \E n \in qMine : qJob[n] = "active"
      Without(jobs, gone) ==
        [n \in Attempts |-> IF n \in gone /\ jobs[n] = "waiting" THEN "none" ELSE jobs[n]]
  IN /\ at[r] = "jobs"
     /\ job' = Without(job, mine)
     /\ qJob' = Without(qJob, qMine)
     /\ lost' = (lost \/ (attempt \in mine /\ job[attempt] = "waiting"))
     /\ \/ /\ ~ busy
           /\ at' = [at EXCEPT ![r] = "delete"]
           /\ UNCHANGED <<op, seen, qSeen, lock>>
        \/ /\ busy \/ sets # {}
           /\ Forget(r) /\ lock' = Unlocked(r)
     /\ UNCHANGED <<rowVars, setVars, gen, boundVars, running, rsv>>

\* The row goes, with everything that hangs on it (the columns read as at first).
\* Only the user's removal gives back the credits.
Delete(r) ==
  /\ at[r] = "delete"
  /\ IF cv = "stored" /\ op[r] = "remove" THEN Go(r, "release") ELSE End(r)
  /\ cv' = "deleted" /\ running' = FALSE /\ lost' = FALSE
  /\ status' = "PENDING" /\ attempt' = 0 /\ stale' = FALSE
  /\ author' = 0
  /\ qStatus' = "PENDING" /\ qAttempt' = 0 /\ qStale' = FALSE /\ sets' = {}
  /\ UNCHANGED <<genVars, boundVars, rsv>>

-----------------------------------------------------------------------------
(* A process dies, or a call to Postgres or Redis throws.                    *)

Fault == faults < MaxFaults /\ faults' = faults + 1

\* The lock of a request that throws is released, that of one that dies stays.
RequestFails(r) ==
  /\ Fault
  /\ at[r] # "idle"
  /\ Forget(r)
  /\ lock' \in {lock, Unlocked(r)}
  /\ UNCHANGED <<rowVars, setVars, job, genVars, calls, expiries, running, rsv, lost>>

\* A stalled job is run again or given up; two workers never have it at once.  A
\* first statement, a release or an ensureQueued that throws ends the profile job
\* without a trace.
ProfileFails(n) ==
  /\ Fault
  /\ \/ /\ job[n] = "active"
        /\ job' = [job EXCEPT ![n] = "waiting"] /\ Forget(n) /\ UNCHANGED lock
     \/ job[n] = "active" /\ Go(n, "job_failed")
     \/ (at[n] \in Preparing \cup {"release"} \/ job[n] = "waiting") /\ End(n)
  /\ UNCHANGED <<rowVars, setVars, genVars, calls, expiries, running, rsv, lost>>

QuestionFails(n) ==
  /\ Fault
  /\ qJob[n] # "none"
  /\ \/ qJob' = [qJob EXCEPT ![n] = "waiting"] /\ gen' = [gen EXCEPT ![n] = "idle"]
     \/ qJob' = [qJob EXCEPT ![n] = "active"] /\ gen' = [gen EXCEPT ![n] = "job_failed"]
  /\ UNCHANGED <<rowVars, setVars, callVars, calls, expiries, running, rsv, lost>>

-----------------------------------------------------------------------------
PrepareStep(x) ==
  \/ Take(x) \/ Missed(x) \/ Drop(x) \/ EnqueueSet(x) \/ UndoSet(x)
  \/ Release(x)

RequestStep(r) ==
  \/ StoreCv(r) \/ Claim(r) \/ Enqueue(r) \/ Undo(r)
  \/ Reserve(r) \/ Hold(r) \/ Open(r) \/ RemoveJobs(r) \/ Delete(r)
  \/ PrepareStep(r)

ProfileStep(n) ==
  \/ StartJob(n) \/ ReadJob(n) \/ Conclude(n) \/ JobFailed(n)
  \/ Prepare(n) \/ PrepareStep(n)

QuestionStep(n) ==
  \/ StartQuestionJob(n) \/ StoreSet(n) \/ FailSet(n)
  \/ Consume(n) \/ ReleaseSet(n)

Next ==
  \/ BecomeStale \/ ReservationExpires \/ LockExpires \/ SubmitInterview
  \/ \E r \in Requests :
       \/ BeginCreate(r) \/ Retry(r) \/ Start(r) \/ AdminQuestions(r) \/ Remove(r)
       \/ RequestStep(r) \/ RequestFails(r)
  \/ \E n \in Attempts :
       ProfileStep(n) \/ ProfileFails(n) \/ QuestionStep(n) \/ QuestionFails(n)

Spec == Init /\ [][Next]_vars

\* Handlers that live reach their end, and the queues run their jobs.  Nothing is
\* assumed of users, of time or of faults.
Fairness ==
  /\ \A r \in Requests : WF_vars(RequestStep(r))
  /\ \A n \in Attempts : WF_vars(ProfileStep(n)) /\ WF_vars(QuestionStep(n))

FairSpec == Spec /\ Fairness

-----------------------------------------------------------------------------
(* Properties.                                                               *)

\* A job that was overtaken by a retry never decides: the verdict on the CV was
\* written by the worker of the current attempt, although a stale attempt may
\* still be running when the next one has started.
VerdictOfCurrentAttempt == status \in Verdicts => author = attempt

\* mock-cv-question-generation-job.handler.ts:144 promises that READY always
\* means a complete set.  However the profile job, start() and the admin race to
\* prepare the questions, one set is stored, by the current attempt, with READY.
OneQuestionSet ==
  cv = "stored" => sets = IF qStatus = "READY" THEN {qAttempt} ELSE {}

\* Nobody pays for an analysis that has not produced its questions.
ChargedForQuestions == rsv = "CONSUMED" /\ cv = "stored" => sets # {}

\* What is still going to bring a PENDING analysis to the queue or to a worker.
Carried ==
  \/ \E r \in Requests :
       \/ at[r] = "claim" /\ op[r] = "create" /\ attempt = 0
       \/ at[r] = "enqueue"
       \/ at[r] = "undo" /\ seen[r] = attempt
  \/ attempt \in Attempts /\ job[attempt] = "waiting"

\* An analysis that says it is waiting its turn has a job, or a request about to
\* create or undo it, although the claim and the queue are two systems: only a
\* fault in between, or a removal that is refused after it has taken the job
\* away, can strand it.
WaitingHasJob ==
  cv = "stored" /\ status = "PENDING" /\ faults = 0 /\ ~ lost => Carried

\* A PENDING analysis that nothing carries.
Stranded == cv = "stored" /\ status = "PENDING" /\ ~ Carried

\* No retry, by the user or by an admin, and no job gets such an analysis going
\* again: all that can be done with the CV is to delete it.
StrandedForGood == [][Stranded => Stranded' \/ cv' = "deleted"]_vars

\* An analysis that a dead worker has left: it can be retried when it is stale.
Abandoned ==
  status = "ANALYZING" /\ faults > 0 /\ job[attempt] # "active"

\* An analysis under way ends with a verdict or a failure that can be retried,
\* unless faults or a refused removal get in its way.
AnalysisSettles ==
  (cv = "stored" /\ status \in {"PENDING", "ANALYZING"}) ~>
    (\/ cv = "deleted" \/ status \in Verdicts \cup {"FAILED"}
     \/ Stranded \/ Abandoned)

\* While no lock has expired under its holder, a CV is never deleted with an
\* interview under way: start() and the two removals exclude each other.
RunningInterviewKept ==
  [][expiries' = 0 /\ running => cv' = "stored"]_vars
-----------------------------------------------------------------------------
(* The refinement.                                                           *)

\* Whatever is claimed, retried or lost on the way, the CV has no verdict yet, or
\* the one it will keep.
Stage == CASE cv = "absent" -> "absent"
           [] cv = "creating" -> "uploading"
           [] cv = "stored" -> (IF status \in Verdicts THEN status ELSE "pending")
           [] cv = "deleted" -> "removed"

\* The worker that stored the questions has yet to consume the credits.
Due == \E n \in Attempts : gen[n] = "consume"

Offer == INSTANCE CvOffer WITH
  stage <- Stage, questions <- sets # {}, due <- Due, interview <- running,
  credit <- rsv

(* The verdict is final, the questions are stored once, by a suitable CV, and *)
(* stay as long as it does; interviews are opened from them only; the credits *)
(* are consumed once, for questions that were delivered, and never given back *)
(* afterwards: through stale workers, retries, crons, parallel callers of     *)
(* ensureQueued(), removals and faults.                                       *)
ImplementsOffer == Offer!LooseSpec
=============================================================================
