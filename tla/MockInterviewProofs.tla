-------------------------- MODULE MockInterviewProofs --------------------------
(* Theorems about MockInterview, for every set of questions and uploads.      *)
EXTENDS MockInterview, FiniteSetTheorems, TLAPS

-----------------------------------------------------------------------------
(* Types.                                                                    *)

Places == {"none", "provider", "mark", "check", "claim", "overview", "paying", "leaving"}

MockOK ==
  /\ status \in {"DRAFT", "IN_PROGRESS", "SCORING", "SUBMITTED", "SCORED"}
  /\ summary \in SUBSET Questions
  /\ stale \in BOOLEAN /\ cooling \in BOOLEAN

ItemOK ==
  /\ session \in [Questions -> Requests \cup {None}]
  /\ scoring \in [Questions -> {"PENDING", "QUEUED", "SCORED", "FAILED", "SKIPPED"}]
  /\ scored \in [Questions -> BOOLEAN]

AnswerOK ==
  /\ lock \in [Questions -> Requests \cup {None}]
  /\ media \in [Requests -> BOOLEAN]
  /\ upload \in [Requests -> {"idle", "checked", "preparing", "prepared", "leaving",
                             "done"}]

SubmitOK ==
  /\ at \in [Enqueuers -> {"idle", "claimed", "read", "enqueueing"}]
  /\ todo \in [Enqueuers -> SUBSET Questions]

JobOK == job \in [Questions -> {"none", "waiting", "active", "failed"}]

WorkerOK == worker \in [Questions -> Work]

TimerOK == timer \in {"none", "delayed", "active"} /\ starting \in BOOLEAN

BoundOK ==
  /\ limit \in [retries : 0..MaxRetries, crashes : 0..MaxCrashes]
  /\ retries \in 0..limit.retries /\ crashes \in 0..limit.crashes

PhaseOK == phase \in {"running", "grace", "buffer", "closed"}

Types == /\ MockOK /\ ItemOK /\ AnswerOK /\ SubmitOK /\ JobOK /\ WorkerOK
         /\ TimerOK /\ BoundOK /\ PhaseOK

LEMMA TypeParts == Types => TypeOK
  BY DEF Types, TypeOK, MockOK, ItemOK, AnswerOK, SubmitOK, JobOK, WorkerOK, TimerOK,
         BoundOK, PhaseOK

LEMMA TypeInit == Init => Types
<1> SUFFICES ASSUME Init PROVE Types
  OBVIOUS
<1>1. MockOK /\ ItemOK /\ AnswerOK /\ JobOK /\ TimerOK /\ PhaseOK
  BY DEF Init, MockOK, ItemOK, AnswerOK, JobOK, TimerOK, PhaseOK
<1>2. SubmitOK
  BY DEF Init, SubmitOK
<1>3. WorkerOK
  BY DEF Init, WorkerOK, Work, NoWork
<1>4. BoundOK
  BY MockAssumption DEF Init, BoundOK
<1> QED
  BY <1>1, <1>2, <1>3, <1>4 DEF Types

\* What a step leaves alone keeps its type.
LEMMA TypeStays ==
  ASSUME Types
  PROVE  /\ UNCHANGED mockVars => MockOK'
         /\ UNCHANGED itemVars => ItemOK'
         /\ UNCHANGED answerVars => AnswerOK'
         /\ UNCHANGED submitVars => SubmitOK'
         /\ UNCHANGED job => JobOK'
         /\ UNCHANGED worker => WorkerOK'
         /\ UNCHANGED timerVars => TimerOK'
         /\ UNCHANGED boundVars => BoundOK'
         /\ UNCHANGED phase => PhaseOK'
  BY DEF Types, MockOK, ItemOK, AnswerOK, SubmitOK, JobOK, WorkerOK, TimerOK, BoundOK, PhaseOK,
         mockVars, itemVars, answerVars, submitVars, timerVars, boundVars

LEMMA GotoType ==
  ASSUME Types, NEW q \in Questions, NEW w \in Work, Goto(q, w)
  PROVE  WorkerOK'
  BY DEF Types, WorkerOK, Goto

LEMMA PlaceType ==
  ASSUME NEW w \in Work, NEW place \in Places
  PROVE  /\ [w EXCEPT !.at = place] \in Work
         /\ [w EXCEPT !.at = place].at = place
         /\ [w EXCEPT !.at = place].ok = w.ok
         /\ [w EXCEPT !.at = place].seen = w.seen
  BY DEF Work, Places

\* The next place of a worker that keeps what it has read.
LEMMA WorkType ==
  ASSUME Types, NEW q \in Questions, NEW place \in Places,
         Goto(q, [worker[q] EXCEPT !.at = place])
  PROVE  WorkerOK'
<1>1. worker[q] \in Work
  BY DEF Types, WorkerOK
<1> QED
  BY <1>1, PlaceType, GotoType

LEMMA NoWorkType == NoWork \in Work
  BY DEF NoWork, Work

LEMMA AnswerType ==
  ASSUME Types, NEW a \in Requests, AnswerStep(a) \/ AnswerDies(a)
  PROVE  Types'
<1>0. Target[a] \in Questions
  BY MockAssumption
<1>1. /\ AnswerStep(a) => BoundOK'
      /\ AnswerDies(a) => BoundOK'
  BY MockAssumption, TypeStays
     DEF AnswerStep, BeginAnswer, TakeLock, Prepare, CommitAnswer, DiscardAnswer,
         LeaveAnswer, AnswerDies, Dies, Types, BoundOK
<1>2. MockOK' /\ SubmitOK' /\ JobOK' /\ WorkerOK' /\ TimerOK' /\ PhaseOK'
  BY TypeStays
     DEF AnswerStep, BeginAnswer, TakeLock, Prepare, CommitAnswer, DiscardAnswer,
         LeaveAnswer, AnswerDies, jobVars
<1>3. ItemOK'
  BY <1>0, TypeStays
     DEF AnswerStep, BeginAnswer, TakeLock, Prepare, CommitAnswer, DiscardAnswer,
         LeaveAnswer, AnswerDies, Types, ItemOK
<1>4. AnswerOK'
  BY <1>0
     DEF AnswerStep, BeginAnswer, TakeLock, Prepare, CommitAnswer, DiscardAnswer,
         LeaveAnswer, AnswerDies, Types, AnswerOK
<1> QED
  BY <1>1, <1>2, <1>3, <1>4 DEF Types

LEMMA SubmitType ==
  ASSUME Types, NEW p \in Enqueuers,
         \/ p \in Submitters /\ (ClaimSubmit(p) \/ SubmitterDies(p))
         \/ SubmitStep(p)
  PROVE  Types'
<1> USE DEF SubmitStep
<1>1. BoundOK' /\ AnswerOK' /\ WorkerOK' /\ PhaseOK'
  BY MockAssumption, TypeStays
     DEF ClaimSubmit, SubmitterDies, Dies, QueueAnswered, EnqueueScore, FinishEnqueue,
         Types, BoundOK, jobVars
<1>2. MockOK'
  BY TypeStays
     DEF ClaimSubmit, SubmitterDies, QueueAnswered, EnqueueScore, FinishEnqueue, Types,
         MockOK
<1>3. ItemOK'
  BY TypeStays
     DEF ClaimSubmit, SubmitterDies, QueueAnswered, EnqueueScore, FinishEnqueue, Types,
         ItemOK
<1>4. SubmitOK'
  BY DEF ClaimSubmit, SubmitterDies, QueueAnswered, EnqueueScore, FinishEnqueue, Types,
         SubmitOK, Answered
<1>5. JobOK'
  BY TypeStays
     DEF ClaimSubmit, SubmitterDies, QueueAnswered, EnqueueScore, FinishEnqueue, Types,
         JobOK, jobVars
<1>6. TimerOK'
  BY TypeStays
     DEF ClaimSubmit, SubmitterDies, QueueAnswered, EnqueueScore, FinishEnqueue, Types,
         TimerOK, timerVars
<1> QED
  BY <1>1, <1>2, <1>3, <1>4, <1>5, <1>6 DEF Types

LEMMA ScoreType ==
  ASSUME Types, NEW q \in Questions, ScoreStep(q) \/ WorkerDies(q)
  PROVE  Types'
<1> USE DEF ScoreStep
<1>1. AnswerOK' /\ SubmitOK' /\ TimerOK' /\ PhaseOK'
  BY TypeStays
     DEF BeginScore, BeginScoreFails, Score, Mark, CheckReady, ClaimOverview, WriteOverview,
         PayOverview, EndScore, WorkerDies, AllButJobs
<1>2. BoundOK'
  <2>1. ScoreStep(q) => UNCHANGED boundVars
    BY DEF BeginScore, BeginScoreFails, Score, Mark, CheckReady, ClaimOverview,
           WriteOverview, PayOverview, EndScore, AllButJobs
  <2>2. WorkerDies(q) => BoundOK'
    BY MockAssumption DEF WorkerDies, Dies, Types, BoundOK
  <2> QED
    BY <2>1, <2>2, TypeStays
<1>3. worker[q] \in Work /\ worker[q].seen \in SUBSET Questions
  BY DEF Types, WorkerOK, Work
<1>4. MockOK'
  BY <1>3, TypeStays
     DEF BeginScore, BeginScoreFails, Score, Mark, CheckReady, ClaimOverview, WriteOverview,
         PayOverview, EndScore, WorkerDies, AllButJobs, WriteResult, Types, MockOK
<1>5. ItemOK'
  BY TypeStays
     DEF BeginScore, BeginScoreFails, Score, Mark, CheckReady, ClaimOverview, WriteOverview,
         PayOverview, EndScore, WorkerDies, AllButJobs, Types, ItemOK
<1>6. JobOK'
  BY TypeStays
     DEF BeginScore, BeginScoreFails, Score, Mark, CheckReady, ClaimOverview, WriteOverview,
         PayOverview, EndScore, WorkerDies, AllButJobs, Types, JobOK
<1>7. WorkerOK'
  <2>1. CASE BeginScore(q)
    <3>1. [NoWork EXCEPT !.at = "provider"] \in Work
      BY NoWorkType, PlaceType DEF Places
    <3> QED
      BY <2>1, <3>1, GotoType DEF BeginScore
  <2>2. CASE BeginScoreFails(q)
    BY <2>2, TypeStays DEF BeginScoreFails
  <2>3. CASE Score(q)
    <3>1. \A ok \in BOOLEAN : [worker[q] EXCEPT !.at = "mark", !.ok = ok] \in Work
      BY <1>3 DEF Work
    <3>2. [worker[q] EXCEPT !.at = "mark"] \in Work
      BY <1>3, PlaceType DEF Places
    <3> QED
      BY <2>3, <3>1, <3>2, GotoType DEF Score
  <2>4. CASE CheckReady(q)
    <3>1. [worker[q] EXCEPT !.at = "claim", !.seen = {p \in Questions : scored[p]}] \in Work
      BY <1>3 DEF Work
    <3>2. [worker[q] EXCEPT !.at = "leaving"] \in Work
      BY <1>3, PlaceType DEF Places
    <3> QED
      BY <2>4, <3>1, <3>2, GotoType DEF CheckReady
  <2>5. CASE Mark(q) \/ ClaimOverview(q) \/ WriteOverview(q) \/ PayOverview(q)
    BY <2>5, WorkType
       DEF Mark, ClaimOverview, WriteOverview, PayOverview, Places
  <2>6. CASE EndScore(q) \/ WorkerDies(q)
    BY <2>6, NoWorkType, GotoType DEF EndScore, WorkerDies
  <2> QED
    BY <2>1, <2>2, <2>3, <2>4, <2>5, <2>6
<1> QED
  BY <1>1, <1>4, <1>5, <1>6, <1>7, <1>2 DEF Types

LEMMA RestType ==
  ASSUME Types,
         \/ PassDeadline \/ BecomeStale \/ CoolDown \/ Start \/ StartTimer
         \/ RecoverTimer \/ SkipTimer \/ RetryRead \/ RetryWrite
         \/ \E q \in Questions : LockExpires(q)
         \/ UNCHANGED vars
  PROVE  Types'
<1>1. ItemOK' /\ JobOK' /\ WorkerOK'
  BY TypeStays
     DEF PassDeadline, BecomeStale, CoolDown, Start, StartTimer, RecoverTimer, SkipTimer,
         RetryRead, RetryWrite, LockExpires, vars, jobVars, Types, ItemOK
<1>2. MockOK' /\ TimerOK' /\ PhaseOK'
  BY TypeStays
     DEF PassDeadline, BecomeStale, CoolDown, Start, StartTimer, RecoverTimer, SkipTimer,
         RetryRead, RetryWrite, LockExpires, vars, mockVars, timerVars, Following, Types,
         MockOK, TimerOK, PhaseOK
<1>3. AnswerOK'
  BY TypeStays
     DEF PassDeadline, BecomeStale, CoolDown, Start, StartTimer, RecoverTimer, SkipTimer,
         RetryRead, RetryWrite, LockExpires, vars, Types, AnswerOK
<1>4. SubmitOK' /\ BoundOK'
  BY MockAssumption, TypeStays
     DEF PassDeadline, BecomeStale, CoolDown, Start, StartTimer, RecoverTimer, SkipTimer,
         RetryRead, RetryWrite, LockExpires, vars, submitVars, boundVars, Types, SubmitOK,
         BoundOK, Enqueuers
<1> QED
  BY <1>1, <1>2, <1>3, <1>4 DEF Types

LEMMA TypeStep == Types /\ [Next]_vars => Types'
  BY AnswerType, SubmitType, ScoreType, RestType DEF Next, Enqueuers

\* The type invariant, for every instance.
THEOREM TypeCorrect == Spec => []TypeOK
  BY TypeInit, TypeStep, TypeParts, PTL DEF Spec

-----------------------------------------------------------------------------
(* Audio.                                                                    *)

\* An upload that is ready to commit has its audio, and the one a question points to
\* has left the place from which answer() deletes.
Audio ==
  /\ \A a \in Requests : upload[a] = "prepared" => media[a]
  /\ \A q \in Questions :
       session[q] # None => media[session[q]] /\ upload[session[q]] \in {"leaving", "done"}

LEMMA AudioAnswer ==
  ASSUME Types, Audio, NEW a \in Requests, AnswerStep(a) \/ AnswerDies(a)
  PROVE  Audio'
<1>0. Target[a] \in Questions /\ a # None
  BY MockAssumption
<1> USE DEF Types, ItemOK, AnswerOK, Audio, itemVars
<1>1. CASE BeginAnswer(a)
  BY <1>1, <1>0 DEF BeginAnswer
<1>2. CASE TakeLock(a)
  BY <1>2, <1>0 DEF TakeLock
<1>3. CASE Prepare(a)
  BY <1>3 DEF Prepare
<1>4. CASE CommitAnswer(a)
  BY <1>4, <1>0 DEF CommitAnswer
<1>5. CASE DiscardAnswer(a)
  BY <1>5 DEF DiscardAnswer
<1>6. CASE LeaveAnswer(a)
  BY <1>6 DEF LeaveAnswer
<1>7. CASE AnswerDies(a)
  BY <1>7 DEF AnswerDies
<1> QED
  BY <1>1, <1>2, <1>3, <1>4, <1>5, <1>6, <1>7 DEF AnswerStep

LEMMA AudioStep == Types /\ Audio /\ [Next]_vars => Audio'
<1> SUFFICES ASSUME Types, Audio, [Next]_vars PROVE Audio'
  OBVIOUS
<1>1. ASSUME UNCHANGED <<session, media, upload>> PROVE Audio'
  BY <1>1 DEF Audio
<1>2. CASE PassDeadline \/ BecomeStale \/ CoolDown \/ Start \/ StartTimer \/ RecoverTimer
           \/ SkipTimer \/ RetryRead \/ RetryWrite \/ UNCHANGED vars
  BY <1>1, <1>2
     DEF PassDeadline, BecomeStale, CoolDown, Start, StartTimer, RecoverTimer, SkipTimer,
         RetryRead, RetryWrite, itemVars, answerVars, vars
<1>3. CASE \E a \in Requests : AnswerStep(a) \/ AnswerDies(a)
  BY <1>3, AudioAnswer
<1>4. ASSUME NEW q \in Questions, LockExpires(q) \/ ScoreStep(q) \/ WorkerDies(q)
      PROVE  Audio'
  BY <1>1, <1>4
     DEF LockExpires, ScoreStep, BeginScore, BeginScoreFails, Score, Mark, CheckReady,
         ClaimOverview, WriteOverview, PayOverview, EndScore, WorkerDies, AllButJobs,
         itemVars, answerVars
<1>5. ASSUME NEW p \in Enqueuers, ClaimSubmit(p) \/ SubmitterDies(p) \/ SubmitStep(p)
      PROVE  Audio'
  BY <1>1, <1>5
     DEF ClaimSubmit, SubmitterDies, SubmitStep, QueueAnswered, EnqueueScore,
         FinishEnqueue, itemVars, answerVars
<1> QED
  BY <1>2, <1>3, <1>4, <1>5 DEF Next, Enqueuers

\* However uploads of a question race for its lock, outlive it, are refused or die:
\* the audio a committed answer points to is never deleted.
THEOREM SessionHasAudioAlways == Spec => []SessionHasAudio
<1>1. Init => Audio
  BY DEF Init, Audio
<1>2. Audio => SessionHasAudio
  BY DEF Audio, SessionHasAudio
<1> QED
  BY TypeInit, TypeStep, AudioStep, <1>1, <1>2, PTL DEF Spec

-----------------------------------------------------------------------------
(* Submission.                                                               *)

\* Before the submission nothing is scored, queued or under way.
Asleep ==
  ~ Submitted =>
    /\ summary = {}
    /\ \A p \in Enqueuers : at[p] = "idle" /\ todo[p] = {}
    /\ \A q \in Questions : /\ scoring[q] = "PENDING" /\ ~ scored[q]
                            /\ job[q] = "none" /\ worker[q].at = "none"

\* Only an answered question has a scoring job, or one to come.
Handed ==
  \A q \in Questions :
    \/ job[q] # "none" \/ worker[q].at # "none"
    \/ \E p \in Enqueuers : q \in todo[p]
    => session[q] # None

Submission == Asleep /\ Handed /\ SkippedIffUnanswered

\* The steps that take no part in scoring: of time, of answers, of the timer.
LEMMA SubmissionElsewhere ==
  ASSUME Types, Submission,
         UNCHANGED <<scoring, scored, summary, at, todo, job, worker>>,
         \/ UNCHANGED <<status, session>>
         \/ status = "DRAFT" /\ status' = "IN_PROGRESS" /\ UNCHANGED session
         \/ /\ status = "IN_PROGRESS" /\ UNCHANGED status
            /\ \E a \in Requests, q \in Questions : session' = [session EXCEPT ![q] = a]
  PROVE  Submission'
<1>1. \A q \in Questions : session[q] # None => session'[q] # None
  BY MockAssumption DEF Types, ItemOK
<1>2. Submitted => UNCHANGED session
  BY DEF Submitted
<1>3. Submitted <=> Submitted'
  BY DEF Submitted
<1>4. Asleep'
  BY <1>3 DEF Submission, Asleep
<1>5. Handed'
  BY <1>1 DEF Submission, Handed
<1>6. SkippedIffUnanswered'
  BY <1>2, <1>3 DEF Submission, SkippedIffUnanswered
<1> QED
  BY <1>4, <1>5, <1>6 DEF Submission

LEMMA SubmissionEnqueuer ==
  ASSUME Types, Submission, NEW p \in Enqueuers,
         \/ p \in Submitters /\ (ClaimSubmit(p) \/ SubmitterDies(p))
         \/ SubmitStep(p)
  PROVE  Submission'
<1> USE DEF Types, MockOK, ItemOK, SubmitOK, JobOK, Submission
<1>1. CASE p \in Submitters /\ ClaimSubmit(p)
  <2>1. ~ Submitted /\ Submitted'
    BY <1>1 DEF ClaimSubmit, Submitted
  <2>2. Asleep'
    BY <2>1 DEF Asleep
  <2>3. Handed'
    BY <1>1, <2>1 DEF ClaimSubmit, Handed, Asleep, jobVars
  <2>4. SkippedIffUnanswered'
    BY <1>1, <2>1 DEF ClaimSubmit, SkippedIffUnanswered, Asleep
  <2> QED
    BY <2>2, <2>3, <2>4
<1>2. CASE p \in Submitters /\ SubmitterDies(p)
  <2>1. Submitted /\ Submitted'
    BY <1>2 DEF SubmitterDies, Asleep, Submitted, mockVars
  <2> QED
    BY <1>2, <2>1
       DEF SubmitterDies, Asleep, Handed, SkippedIffUnanswered, itemVars, jobVars
<1>3. CASE QueueAnswered(p)
  <2>1. Submitted /\ Submitted'
    BY <1>3 DEF QueueAnswered, Asleep, Submitted
  <2>2. Asleep'
    BY <2>1 DEF Asleep
  <2>3. Handed'
    BY <1>3, <2>1 DEF QueueAnswered, Answered, Handed, jobVars
  <2>4. SkippedIffUnanswered'
    BY <1>3, <2>1 DEF QueueAnswered, Answered, SkippedIffUnanswered
  <2> QED
    BY <2>2, <2>3, <2>4
<1>4. ASSUME NEW q \in Questions, EnqueueScore(p, q) PROVE Submission'
  <2>1. Submitted /\ Submitted'
    BY <1>4 DEF EnqueueScore, Asleep, Submitted, mockVars
  <2>2. session[q] # None
    BY <1>4 DEF EnqueueScore, Handed
  <2>3. Handed'
    BY <1>4, <2>2 DEF EnqueueScore, Handed, itemVars
  <2> QED
    BY <1>4, <2>1, <2>3 DEF EnqueueScore, Asleep, SkippedIffUnanswered, itemVars
<1>5. CASE FinishEnqueue(p)
  <2>1. Submitted /\ Submitted'
    BY <1>5 DEF FinishEnqueue, Asleep, Submitted, mockVars
  <2> QED
    BY <1>5, <2>1
       DEF FinishEnqueue, Asleep, Handed, SkippedIffUnanswered, itemVars, jobVars
<1> QED
  BY <1>1, <1>2, <1>3, <1>4, <1>5 DEF SubmitStep

LEMMA SubmissionScore ==
  ASSUME Types, Submission, NEW q \in Questions, ScoreStep(q) \/ WorkerDies(q)
  PROVE  Submission'
<1> USE DEF Types, MockOK, ItemOK, SubmitOK, JobOK, WorkerOK
<1>1. Submitted /\ session[q] # None
  BY DEF Submission, Asleep, Handed, ScoreStep, BeginScore, BeginScoreFails, Score, Mark,
         CheckReady, ClaimOverview, WriteOverview, PayOverview, EndScore, WorkerDies
<1>2. UNCHANGED <<session, at, todo>>
  BY DEF ScoreStep, BeginScore, BeginScoreFails, Score, Mark, CheckReady, ClaimOverview,
         WriteOverview, PayOverview, EndScore, WorkerDies, AllButJobs, itemVars, submitVars
<1>3. Submitted'
  BY <1>1
     DEF Submitted, WriteResult, ScoreStep, BeginScore, BeginScoreFails, Score, Mark,
         CheckReady, ClaimOverview, WriteOverview, PayOverview, EndScore, WorkerDies,
         AllButJobs, mockVars
<1>4. \A r \in Questions \ {q} : UNCHANGED <<job[r], worker[r], scoring[r]>>
  BY DEF Goto, ScoreStep, BeginScore, BeginScoreFails, Score, Mark, CheckReady,
         ClaimOverview, WriteOverview, PayOverview, EndScore, WorkerDies, AllButJobs, itemVars
<1>5. scoring' = scoring \/ scoring'[q] \in {"SCORED", "FAILED"}
  BY DEF ScoreStep, BeginScore, BeginScoreFails, Score, Mark, CheckReady, ClaimOverview,
         WriteOverview, PayOverview, EndScore, WorkerDies, AllButJobs, itemVars
<1>6. Handed'
  BY <1>1, <1>2, <1>4 DEF Submission, Handed
<1>7. SkippedIffUnanswered'
  BY <1>1, <1>2, <1>4, <1>5 DEF Submission, SkippedIffUnanswered
<1> QED
  BY <1>3, <1>6, <1>7 DEF Submission, Asleep

LEMMA SubmissionRetry ==
  ASSUME Types, Submission, RetryRead \/ RetryWrite
  PROVE  Submission'
<1> USE DEF Types, MockOK, ItemOK, SubmitOK, Submission
<1>0. "retry" \in Enqueuers
  BY DEF Enqueuers
<1>1. Submitted /\ Submitted'
  BY <1>0 DEF RetryRead, RetryWrite, Asleep, Submitted, mockVars
<1>2. CASE RetryRead
  <2>1. Handed'
    BY <1>2, <1>0 DEF RetryRead, CanRetry, Handed, itemVars, jobVars
  <2> QED
    BY <1>2, <1>1, <2>1 DEF RetryRead, Asleep, SkippedIffUnanswered, itemVars
<1>3. CASE RetryWrite
  <2>1. \A q \in todo["retry"] : q \in Questions /\ session[q] # None
    BY <1>0 DEF Handed
  <2>2. Handed'
    BY <1>3 DEF RetryWrite, Handed, jobVars
  <2>3. SkippedIffUnanswered'
    BY <1>3, <1>1, <2>1 DEF RetryWrite, SkippedIffUnanswered
  <2> QED
    BY <1>1, <2>2, <2>3 DEF Asleep
<1> QED
  BY <1>2, <1>3

LEMMA SubmissionStep == Types /\ Submission /\ [Next]_vars => Submission'
<1> SUFFICES ASSUME Types, Submission, [Next]_vars PROVE Submission'
  OBVIOUS
<1>1. CASE PassDeadline \/ BecomeStale \/ CoolDown \/ Start \/ StartTimer \/ RecoverTimer
           \/ SkipTimer \/ UNCHANGED vars
  BY <1>1, SubmissionElsewhere
     DEF PassDeadline, BecomeStale, CoolDown, Start, StartTimer, RecoverTimer, SkipTimer,
         mockVars, itemVars, submitVars, jobVars, vars
<1>2. ASSUME NEW a \in Requests, AnswerStep(a) \/ AnswerDies(a) PROVE Submission'
  <2>1. CASE CommitAnswer(a)
    <3>1. Target[a] \in Questions
      BY MockAssumption
    <3> QED
      BY <2>1, <3>1, SubmissionElsewhere
         DEF CommitAnswer, CanAnswer, mockVars, submitVars, jobVars
  <2>2. CASE ~ CommitAnswer(a)
    BY <1>2, <2>2, SubmissionElsewhere
       DEF AnswerStep, BeginAnswer, TakeLock, Prepare, DiscardAnswer, LeaveAnswer,
           AnswerDies, mockVars, itemVars, submitVars, jobVars
  <2> QED
    BY <2>1, <2>2
<1>3. ASSUME NEW q \in Questions, LockExpires(q) PROVE Submission'
  BY <1>3, SubmissionElsewhere DEF LockExpires, mockVars, itemVars, submitVars, jobVars
<1>4. CASE \E q \in Questions : ScoreStep(q) \/ WorkerDies(q)
  BY <1>4, SubmissionScore
<1>5. CASE \/ \E p \in Submitters : ClaimSubmit(p) \/ SubmitterDies(p)
           \/ \E p \in Enqueuers : SubmitStep(p)
  BY <1>5, SubmissionEnqueuer DEF Enqueuers
<1>6. CASE RetryRead \/ RetryWrite
  BY <1>6, SubmissionRetry
<1> QED
  BY <1>1, <1>2, <1>3, <1>4, <1>5, <1>6 DEF Next

LEMMA SubmissionInit == Init => Submission
  BY DEF Init, Submission, Asleep, Handed, SkippedIffUnanswered, Submitted, NoWork

\* However answers race the submission, by the user or by the timer, and whatever the
\* scoring, its retries and deaths do afterwards: a submitted mock skips exactly the
\* questions it has no session for.
THEOREM SkippedIffUnansweredAlways == Spec => []SkippedIffUnanswered
<1>1. Submission => SkippedIffUnanswered
  BY DEF Submission
<1> QED
  BY TypeInit, TypeStep, SubmissionInit, SubmissionStep, <1>1, PTL DEF Spec

-----------------------------------------------------------------------------
(* One round of scoring: no retry so far, and no process that died.          *)

\* A retry and a death are counted, once and for good.
LEMMA CountsGrow ==
  ASSUME Types, [Next]_vars
  PROVE  /\ retries \in Nat /\ crashes \in Nat
         /\ retries' = IF RetryRead THEN retries + 1 ELSE retries
         /\ crashes' = IF Dies THEN crashes + 1 ELSE crashes
<1>1. retries \in Nat /\ crashes \in Nat
  BY MockAssumption DEF Types, BoundOK
<1>2. Dies => crashes' = crashes + 1 /\ UNCHANGED retries
  BY DEF Dies
<1>3. RetryRead => retries' = retries + 1 /\ UNCHANGED crashes
  BY DEF RetryRead
<1>4. Dies \/ RetryRead \/ UNCHANGED <<retries, crashes>>
  BY DEF Next, vars, boundVars, PassDeadline, BecomeStale, CoolDown, Start, StartTimer,
         RecoverTimer, SkipTimer, AnswerStep, BeginAnswer, TakeLock, Prepare, CommitAnswer,
         DiscardAnswer, LeaveAnswer, AnswerDies, LockExpires, ScoreStep, BeginScore,
         BeginScoreFails, Score, Mark, CheckReady, ClaimOverview, WriteOverview,
         PayOverview, EndScore, WorkerDies, AllButJobs, ClaimSubmit, SubmitterDies,
         SubmitStep, QueueAnswered, EnqueueScore, FinishEnqueue, RetryWrite
<1> QED
  BY <1>1, <1>2, <1>3, <1>4

LEMMA Undisturbedly ==
  ASSUME Types, [Next]_vars
  PROVE  /\ retries' = 0 => retries = 0 /\ ~ RetryRead
         /\ Undisturbed' => Undisturbed /\ ~ RetryRead /\ ~ Dies
  BY CountsGrow DEF Undisturbed

\* One submitter got past the claim of the submission.
OneSubmitter ==
  /\ at["retry"] = "idle" /\ todo["retry"] = {}
  /\ \A p, r \in Enqueuers : at[p] # "idle" /\ at[r] # "idle" => p = r

\* Until it has queued the answers, scoring has not begun.
ClaimedIsFirst ==
  \A p \in Enqueuers : at[p] = "claimed" =>
    /\ status = "SCORING" /\ summary = {}
    /\ \A r \in Enqueuers : todo[r] = {}
    /\ \A q \in Questions : /\ scoring[q] \in {"PENDING", "SKIPPED"} /\ ~ scored[q]
                            /\ job[q] = "none" /\ worker[q].at = "none"

\* A job that is still to be created is the first of its question.
TodoIsNew ==
  \A p \in Enqueuers, q \in Questions : q \in todo[p] =>
    /\ at[p] = "enqueueing"
    /\ scoring[q] = "QUEUED" /\ job[q] = "none"

\* A question is QUEUED until its job has marked it.
QueuedUntilMarked ==
  \A q \in Questions :
    /\ job[q] = "active" <=> worker[q].at # "none"
    /\ job[q] = "waiting" \/ worker[q].at \in {"provider", "mark"} => scoring[q] = "QUEUED"

\* A job that found every question at its end has seen all the scores there will be.
SeenIsAll ==
  \A q \in Questions : worker[q].at \in {"claim", "overview", "paying"} =>
    /\ worker[q].seen = {r \in Questions : scored[r]}
    /\ \A r \in Questions : scoring[r] \in Terminal

\* A result was computed from every score, and there is nothing left to score.
ResultIsAll ==
  status = "SCORED" =>
    /\ summary = {q \in Questions : scored[q]}
    /\ \A q \in Questions : scoring[q] \in Terminal

\* SUBMITTED is the claim of the one job that computes the overview.
OneClaim ==
  /\ \A q, r \in Questions : worker[q].at = "overview" /\ worker[r].at = "overview" => q = r
  /\ status = "SUBMITTED" <=> \E q \in Questions : worker[q].at = "overview"
  /\ \A q \in Questions : worker[q].at = "paying" => status = "SCORED"

Round == /\ OneSubmitter /\ ClaimedIsFirst /\ TodoIsNew /\ QueuedUntilMarked
         /\ SeenIsAll /\ OneClaim /\ ResultIsAll

LEMMA NothingDies ==
  ASSUME Types, Round, [Next]_vars, Undisturbed'
  PROVE  ~ Dies /\ ~ RetryRead /\ ~ RetryWrite
  BY Undisturbedly DEF Round, OneSubmitter, RetryWrite

LEMMA RoundInit == Init => Round
<1> SUFFICES ASSUME Init PROVE Round
  OBVIOUS
<1>1. OneSubmitter /\ ClaimedIsFirst /\ TodoIsNew
  BY DEF Init, OneSubmitter, ClaimedIsFirst, TodoIsNew, Enqueuers
<1>2. QueuedUntilMarked /\ SeenIsAll /\ OneClaim /\ ResultIsAll
  BY DEF Init, NoWork, QueuedUntilMarked, SeenIsAll, OneClaim, ResultIsAll
<1> QED
  BY <1>1, <1>2 DEF Round

LEMMA RoundElsewhere ==
  ASSUME Types, Submission, Round,
         UNCHANGED <<scoring, scored, summary, at, todo, job, worker>>,
         status' = status \/ (status = "DRAFT" /\ status' = "IN_PROGRESS")
  PROVE  Round'
<1>1. OneSubmitter' /\ TodoIsNew' /\ QueuedUntilMarked' /\ SeenIsAll'
  BY DEF Round, OneSubmitter, TodoIsNew, QueuedUntilMarked, SeenIsAll
<1>2. ClaimedIsFirst' /\ OneClaim' /\ ResultIsAll'
  BY DEF Round, ClaimedIsFirst, OneClaim, ResultIsAll
<1> QED
  BY <1>1, <1>2 DEF Round

LEMMA RoundClaimSubmit ==
  ASSUME Types, Submission, Round, NEW p \in Submitters, ClaimSubmit(p)
  PROVE  Round'
<1> USE DEF Types, ItemOK, SubmitOK
<1>1. ~ Submitted /\ p \in Enqueuers
  BY DEF ClaimSubmit, Submitted, Enqueuers
<1>2. /\ summary' = {}
      /\ \A r \in Enqueuers : todo'[r] = {} /\ (r # p => at'[r] = "idle")
      /\ \A q \in Questions : /\ scoring'[q] \in {"PENDING", "SKIPPED"} /\ ~ scored'[q]
                              /\ job'[q] = "none" /\ worker'[q].at = "none"
  BY <1>1 DEF ClaimSubmit, Submission, Asleep, jobVars
<1>3. at'["retry"] = "idle" /\ "retry" \in Enqueuers /\ status' = "SCORING"
  BY DEF ClaimSubmit, Round, OneSubmitter, Submitters, Enqueuers
<1>4. OneSubmitter' /\ ClaimedIsFirst' /\ TodoIsNew'
  BY <1>2, <1>3 DEF OneSubmitter, ClaimedIsFirst, TodoIsNew
<1>5. QueuedUntilMarked' /\ SeenIsAll' /\ OneClaim' /\ ResultIsAll'
  BY <1>2, <1>3 DEF QueuedUntilMarked, SeenIsAll, OneClaim, ResultIsAll
<1> QED
  BY <1>4, <1>5 DEF Round

LEMMA RoundQueueAnswered ==
  ASSUME Types, Submission, Round, NEW p \in Enqueuers, QueueAnswered(p)
  PROVE  Round'
<1> USE DEF Types, ItemOK, SubmitOK
<1>1. at[p] = "claimed" /\ p # "retry"
  BY DEF QueueAnswered, Submitters
<1>2. /\ status = "SCORING" /\ summary = {}
      /\ \A r \in Enqueuers : todo[r] = {}
      /\ \A q \in Questions : /\ scoring[q] \in {"PENDING", "SKIPPED"} /\ ~ scored[q]
                              /\ job[q] = "none" /\ worker[q].at = "none"
  BY <1>1 DEF Round, ClaimedIsFirst
<1>3. \A q \in Questions : scoring[q] = "SKIPPED" <=> session[q] = None
  BY <1>2 DEF Submission, SkippedIffUnanswered, Submitted
<1>4. /\ UNCHANGED <<summary, scored, job, worker>>
      /\ \A r \in Enqueuers : at'[r] # "claimed" /\ (r # p => at'[r] = at[r] /\ todo'[r] = {})
      /\ at'[p] = "enqueueing"
  BY <1>1, <1>2 DEF QueueAnswered, jobVars, Round, OneSubmitter
<1>5. \/ /\ status' = "SCORED" /\ todo'[p] = {}
         /\ \A q \in Questions : scoring'[q] = "SKIPPED"
      \/ /\ status' = "SCORING"
         /\ \A q \in todo'[p] : scoring'[q] = "QUEUED"
  BY <1>2, <1>3 DEF QueueAnswered, Answered
<1>6. OneSubmitter' /\ ClaimedIsFirst'
  BY <1>1, <1>4 DEF Round, OneSubmitter, ClaimedIsFirst, Enqueuers
<1>7. TodoIsNew'
  BY <1>2, <1>4, <1>5 DEF TodoIsNew
<1>8. QueuedUntilMarked' /\ SeenIsAll' /\ OneClaim'
  BY <1>2, <1>4, <1>5 DEF QueuedUntilMarked, SeenIsAll, OneClaim
<1>9. ResultIsAll'
  BY <1>2, <1>4, <1>5 DEF ResultIsAll, Terminal
<1> QED
  BY <1>6, <1>7, <1>8, <1>9 DEF Round

LEMMA RoundEnqueueScore ==
  ASSUME Types, Submission, Round, NEW p \in Enqueuers, NEW q \in Questions,
         EnqueueScore(p, q)
  PROVE  Round'
<1> USE DEF Types, SubmitOK, JobOK, EnqueueScore
<1>1. at[p] = "enqueueing" /\ scoring[q] = "QUEUED" /\ job[q] = "none"
  BY DEF Round, TodoIsNew
<1>2. /\ UNCHANGED <<status, summary, scoring, scored, at, worker>>
      /\ \A r \in Questions \ {q} : job'[r] = job[r]
      /\ job'[q] \in {"none", "waiting"}
      /\ todo'[p] = todo[p] \ {q}
      /\ \A r \in Enqueuers \ {p} : todo'[r] = todo[r]
  BY <1>1 DEF mockVars, itemVars
<1>3. \A r \in Enqueuers \ {p} : at[r] = "idle" /\ todo[r] = {}
  BY <1>1 DEF Round, OneSubmitter, TodoIsNew
<1>4. OneSubmitter' /\ ClaimedIsFirst'
  <2>1. OneSubmitter'
    BY <1>2 DEF Round, OneSubmitter, Enqueuers
  <2>2. ClaimedIsFirst'
    BY <1>1, <1>2, <1>3 DEF ClaimedIsFirst
  <2> QED
    BY <2>1, <2>2
<1>5. TodoIsNew'
  BY <1>2, <1>3 DEF Round, TodoIsNew
<1>6. QueuedUntilMarked'
  BY <1>1, <1>2 DEF Round, QueuedUntilMarked
<1>7. SeenIsAll' /\ OneClaim' /\ ResultIsAll'
  BY <1>2 DEF Round, SeenIsAll, OneClaim, ResultIsAll
<1> QED
  BY <1>4, <1>5, <1>6, <1>7 DEF Round

LEMMA RoundFinishEnqueue ==
  ASSUME Types, Submission, Round, NEW p \in Enqueuers, FinishEnqueue(p)
  PROVE  Round'
<1> USE DEF Types, SubmitOK
<1>1. UNCHANGED <<status, summary, scoring, scored, todo, job, worker>>
  BY DEF FinishEnqueue, mockVars, itemVars, jobVars
<1>2. at'[p] = "idle" /\ todo[p] = {} /\ \A r \in Enqueuers \ {p} : at'[r] = at[r]
  BY DEF FinishEnqueue
<1>3. OneSubmitter' /\ ClaimedIsFirst'
  BY <1>1, <1>2 DEF Round, OneSubmitter, ClaimedIsFirst, Enqueuers
<1>4. TodoIsNew'
  BY <1>1, <1>2 DEF Round, TodoIsNew
<1>5. QueuedUntilMarked' /\ SeenIsAll' /\ OneClaim' /\ ResultIsAll'
  BY <1>1 DEF Round, QueuedUntilMarked, SeenIsAll, OneClaim, ResultIsAll
<1> QED
  BY <1>3, <1>4, <1>5 DEF Round

\* What every step of a scoring job leaves alone.
LEMMA ScoreFrame ==
  ASSUME Types, NEW q \in Questions, ScoreStep(q)
  PROVE  /\ UNCHANGED <<session, at, todo>>
         /\ \A r \in Questions \ {q} :
              UNCHANGED <<job[r], worker[r], scoring[r], scored[r]>>
  BY DEF Types, ItemOK, JobOK, WorkerOK, ScoreStep, BeginScore, BeginScoreFails, Score, Mark,
         CheckReady, ClaimOverview, WriteOverview, PayOverview, EndScore, AllButJobs, Goto,
         itemVars, submitVars

\* While a job of scoring is under way or waiting, no submitter is at its claim, and the
\* question is not to be enqueued.
LEMMA ScoreApart ==
  ASSUME Types, Round, NEW q \in Questions, job[q] # "none" \/ worker[q].at # "none"
  PROVE  \A p \in Enqueuers : at[p] # "claimed" /\ q \notin todo[p]
<1>1. job[q] # "none"
  BY DEF Round, QueuedUntilMarked
<1> QED
  BY <1>1 DEF Round, ClaimedIsFirst, TodoIsNew

\* The parts that speak of submitters hold after every step of a job.
LEMMA ScoreSubmitters ==
  ASSUME Types, Round, NEW q \in Questions, ScoreStep(q)
  PROVE  OneSubmitter' /\ ClaimedIsFirst' /\ TodoIsNew'
<1>1. job[q] # "none" \/ worker[q].at # "none"
  BY DEF ScoreStep, BeginScore, BeginScoreFails, Score, Mark, CheckReady, ClaimOverview,
         WriteOverview, PayOverview, EndScore
<1>2. \A p \in Enqueuers : at[p] # "claimed" /\ q \notin todo[p]
  BY <1>1, ScoreApart
<1>3. UNCHANGED <<at, todo>> /\ \A r \in Questions \ {q} : UNCHANGED <<job[r], scoring[r]>>
  BY ScoreFrame
<1> QED
  BY <1>2, <1>3 DEF Round, OneSubmitter, ClaimedIsFirst, TodoIsNew

\* A job begins, or fails before it does.
LEMMA RoundBegin ==
  ASSUME Types, Round, NEW q \in Questions, BeginScore(q) \/ BeginScoreFails(q)
  PROVE  Round'
<1> USE DEF Types, JobOK, WorkerOK
<1>1. OneSubmitter' /\ ClaimedIsFirst' /\ TodoIsNew'
  BY ScoreSubmitters DEF ScoreStep
<1>2. \A r \in Questions \ {q} : UNCHANGED <<job[r], worker[r]>>
  BY ScoreFrame DEF ScoreStep
<1>3. UNCHANGED <<status, summary, scoring, scored>>
  BY DEF BeginScore, BeginScoreFails, AllButJobs, mockVars, itemVars
<1>4. scoring[q] = "QUEUED" /\ worker[q].at = "none"
  BY DEF BeginScore, BeginScoreFails, Round, QueuedUntilMarked
<1>5. \/ job'[q] = "active" /\ worker'[q].at = "provider"
      \/ job'[q] = "failed" /\ worker'[q].at = "none"
  <2>1. CASE BeginScore(q)
    <3>1. worker'[q] = [NoWork EXCEPT !.at = "provider"]
      BY <2>1 DEF BeginScore, Goto
    <3>2. [NoWork EXCEPT !.at = "provider"].at = "provider"
      BY NoWorkType, PlaceType DEF Places
    <3>3. job'[q] = "active"
      BY <2>1 DEF BeginScore
    <3> QED
      BY <3>1, <3>2, <3>3
  <2>2. CASE BeginScoreFails(q)
    BY <2>2, <1>4 DEF BeginScoreFails
  <2> QED
    BY <2>1, <2>2
<1>6. QueuedUntilMarked'
  BY <1>2, <1>3, <1>4, <1>5 DEF Round, QueuedUntilMarked
<1>7. SeenIsAll' /\ OneClaim' /\ ResultIsAll'
  BY <1>2, <1>3, <1>4, <1>5 DEF Round, SeenIsAll, OneClaim, ResultIsAll
<1> QED
  BY <1>1, <1>6, <1>7 DEF Round

\* While a question is QUEUED nobody computes a result, and there is none.
LEMMA QueuedMeansNoResult ==
  ASSUME Round, NEW q \in Questions, scoring[q] = "QUEUED"
  PROVE  /\ \A r \in Questions : worker[r].at \notin {"claim", "overview", "paying"}
         /\ status \notin {"SUBMITTED", "SCORED"}
<1>1. scoring[q] \notin Terminal
  BY DEF Terminal
<1>2. \A r \in Questions : worker[r].at \notin {"claim", "overview", "paying"}
  BY <1>1 DEF Round, SeenIsAll
<1>3. status \notin {"SUBMITTED", "SCORED"}
  BY <1>1, <1>2 DEF Round, OneClaim, ResultIsAll
<1> QED
  BY <1>2, <1>3

\* A job scores its question, and then marks it.
LEMMA RoundScoreMark ==
  ASSUME Types, Round, NEW q \in Questions, Score(q) \/ Mark(q)
  PROVE  Round'
<1> USE DEF Types, WorkerOK
<1>1. OneSubmitter' /\ ClaimedIsFirst' /\ TodoIsNew'
  BY ScoreSubmitters DEF ScoreStep
<1>2. \A r \in Questions \ {q} : UNCHANGED <<job[r], worker[r], scoring[r]>>
  BY ScoreFrame DEF ScoreStep
<1>3. scoring[q] = "QUEUED" /\ job[q] = "active"
  BY DEF Score, Mark, Round, QueuedUntilMarked
<1>4. UNCHANGED <<status, job>>
  BY DEF Score, Mark, mockVars
<1>5. /\ \A r \in Questions : worker[r].at \notin {"claim", "overview", "paying"}
      /\ status \notin {"SUBMITTED", "SCORED"}
  BY <1>3, QueuedMeansNoResult
<1>6. \/ worker'[q].at = "mark" /\ scoring'[q] = "QUEUED"
      \/ worker'[q].at = "check"
  <2>1. worker[q] \in Work
    OBVIOUS
  <2>2. CASE Score(q)
    <3>1. \A ok \in BOOLEAN : [worker[q] EXCEPT !.at = "mark", !.ok = ok].at = "mark"
      BY <2>1 DEF Work
    <3>2. [worker[q] EXCEPT !.at = "mark"].at = "mark"
      BY <2>1 DEF Work
    <3>3. worker'[q].at = "mark"
      BY <2>2, <3>1, <3>2 DEF Score, Goto
    <3> QED
      BY <2>2, <1>3, <3>3 DEF Score
  <2>3. CASE Mark(q)
    BY <2>1, <2>3 DEF Mark, Goto, Work
  <2> QED
    BY <2>2, <2>3
<1>7. QueuedUntilMarked'
  BY <1>2, <1>3, <1>4, <1>6 DEF Round, QueuedUntilMarked
<1>8. SeenIsAll' /\ OneClaim' /\ ResultIsAll'
  BY <1>2, <1>4, <1>5, <1>6 DEF Round, SeenIsAll, OneClaim, ResultIsAll
<1> QED
  BY <1>1, <1>7, <1>8 DEF Round

\* A job looks whether every question is at its end.
LEMMA RoundCheckReady ==
  ASSUME Types, Round, NEW q \in Questions, CheckReady(q)
  PROVE  Round'
<1> USE DEF Types, WorkerOK
<1>1. OneSubmitter' /\ ClaimedIsFirst' /\ TodoIsNew'
  BY ScoreSubmitters DEF ScoreStep
<1>2. \A r \in Questions \ {q} : UNCHANGED worker[r]
  BY ScoreFrame DEF ScoreStep
<1>3. UNCHANGED <<status, summary, scoring, scored, job>>
  BY DEF CheckReady, AllButJobs, mockVars, itemVars
<1>4. worker[q].at = "check"
  BY DEF CheckReady
<1>5. \/ /\ worker'[q].at = "claim"
         /\ worker'[q].seen = {r \in Questions : scored[r]}
         /\ \A r \in Questions : scoring[r] \in Terminal
      \/ worker'[q].at = "leaving"
  <2>1. worker[q] \in Work
    OBVIOUS
  <2>2. CASE status = "SCORING" /\ \A p \in Questions : scoring[p] \in Terminal
    BY <2>1, <2>2 DEF CheckReady, Goto, Work
  <2>3. CASE ~ (status = "SCORING" /\ \A p \in Questions : scoring[p] \in Terminal)
    BY <2>1, <2>3 DEF CheckReady, Goto, Work
  <2> QED
    BY <2>2, <2>3
<1>6. QueuedUntilMarked'
  BY <1>2, <1>3, <1>4, <1>5 DEF Round, QueuedUntilMarked
<1>7. SeenIsAll'
  BY <1>2, <1>3, <1>4, <1>5 DEF Round, SeenIsAll
<1>8. OneClaim' /\ ResultIsAll'
  BY <1>2, <1>3, <1>4, <1>5 DEF Round, OneClaim, ResultIsAll
<1> QED
  BY <1>1, <1>6, <1>7, <1>8 DEF Round

\* A job claims the overview, or finds it claimed.
LEMMA RoundClaimOverview ==
  ASSUME Types, Round, NEW q \in Questions, ClaimOverview(q)
  PROVE  Round'
<1> USE DEF Types, WorkerOK
<1>1. OneSubmitter' /\ ClaimedIsFirst' /\ TodoIsNew'
  BY ScoreSubmitters DEF ScoreStep
<1>2. \A r \in Questions \ {q} : UNCHANGED worker[r]
  BY ScoreFrame DEF ScoreStep
<1>3. UNCHANGED <<summary, scoring, scored, job>> /\ worker[q].at = "claim"
  BY DEF ClaimOverview, itemVars
<1>4. worker[q] \in Work
  OBVIOUS
<1>5. \/ /\ status = "SCORING" /\ status' = "SUBMITTED"
         /\ worker'[q].at = "overview" /\ worker'[q].seen = worker[q].seen
      \/ /\ status # "SCORING" /\ UNCHANGED status
         /\ worker'[q].at = "leaving"
  <2>1. CASE status = "SCORING"
    BY <2>1, <1>4 DEF ClaimOverview, Goto, Work
  <2>2. CASE status # "SCORING"
    BY <2>2, <1>4 DEF ClaimOverview, Goto, Work
  <2> QED
    BY <2>1, <2>2
<1>6. QueuedUntilMarked'
  BY <1>2, <1>3, <1>5 DEF Round, QueuedUntilMarked
<1>7. SeenIsAll'
  BY <1>2, <1>3, <1>5 DEF Round, SeenIsAll
<1>8. OneClaim' /\ ResultIsAll'
  BY <1>2, <1>3, <1>5 DEF Round, OneClaim, ResultIsAll
<1> QED
  BY <1>1, <1>6, <1>7, <1>8 DEF Round

\* The claimant writes its overview, and writes again when the charge fails.
LEMMA RoundOverview ==
  ASSUME Types, Round, NEW q \in Questions, WriteOverview(q) \/ PayOverview(q)
  PROVE  Round'
<1> USE DEF Types, WorkerOK
<1>1. OneSubmitter' /\ ClaimedIsFirst' /\ TodoIsNew'
  BY ScoreSubmitters DEF ScoreStep
<1>2. \A r \in Questions \ {q} : UNCHANGED worker[r]
  BY ScoreFrame DEF ScoreStep
<1>3. UNCHANGED <<scoring, scored, job>> /\ worker[q].at \in {"overview", "paying"}
  BY DEF WriteOverview, PayOverview, itemVars
<1>4. /\ worker[q].seen = {r \in Questions : scored[r]}
      /\ \A r \in Questions : scoring[r] \in Terminal
  BY <1>3 DEF Round, SeenIsAll
<1>5. /\ worker'[q].at \in {"paying", "leaving"}
      /\ worker'[q].seen = worker[q].seen
  <2>1. worker[q] \in Work
    OBVIOUS
  <2>2. PICK next \in {"paying", "leaving"} :
          worker' = [worker EXCEPT ![q] = [worker[q] EXCEPT !.at = next]]
    BY DEF WriteOverview, PayOverview, Goto
  <2> QED
    BY <2>1, <2>2 DEF Work
<1>6. status' = "SCORED" /\ summary' = {r \in Questions : scored[r]}
  <2>1. WriteResult(q) => status' = "SCORED" /\ summary' = {r \in Questions : scored[r]}
    BY <1>4 DEF WriteResult
  <2>2. worker[q].at = "paying" => status = "SCORED" /\ summary = {r \in Questions : scored[r]}
    BY DEF Round, OneClaim, ResultIsAll
  <2> QED
    BY <2>1, <2>2 DEF WriteOverview, PayOverview
<1>7. \A r \in Questions : worker'[r].at # "overview"
  BY <1>2, <1>3, <1>5 DEF Round, OneClaim
<1>8. QueuedUntilMarked'
  BY <1>2, <1>3, <1>5 DEF Round, QueuedUntilMarked
<1>9. SeenIsAll'
  BY <1>2, <1>3, <1>4, <1>5 DEF Round, SeenIsAll
<1>10. OneClaim' /\ ResultIsAll'
  BY <1>3, <1>4, <1>6, <1>7 DEF OneClaim, ResultIsAll
<1> QED
  BY <1>1, <1>8, <1>9, <1>10 DEF Round

\* A job ends.
LEMMA RoundEndScore ==
  ASSUME Types, Round, NEW q \in Questions, EndScore(q)
  PROVE  Round'
<1> USE DEF Types, JobOK, WorkerOK
<1>1. OneSubmitter' /\ ClaimedIsFirst' /\ TodoIsNew'
  BY ScoreSubmitters DEF ScoreStep
<1>2. \A r \in Questions \ {q} : UNCHANGED <<job[r], worker[r]>>
  BY ScoreFrame DEF ScoreStep
<1>3. UNCHANGED <<status, summary, scoring, scored>> /\ worker[q].at = "leaving"
  BY DEF EndScore, AllButJobs, mockVars, itemVars
<1>4. job'[q] \in {"none", "failed"} /\ worker'[q].at = "none"
  BY DEF EndScore, Goto, NoWork
<1>5. QueuedUntilMarked'
  BY <1>2, <1>3, <1>4 DEF Round, QueuedUntilMarked
<1>6. SeenIsAll' /\ OneClaim' /\ ResultIsAll'
  BY <1>2, <1>3, <1>4 DEF Round, SeenIsAll, OneClaim, ResultIsAll
<1> QED
  BY <1>1, <1>5, <1>6 DEF Round

LEMMA RoundStep ==
  Types /\ Submission /\ Round /\ [Next]_vars /\ Undisturbed' => Round'
<1> SUFFICES ASSUME Types, Submission, Round, [Next]_vars, Undisturbed' PROVE Round'
  OBVIOUS
<1>0. ASSUME UNCHANGED <<scoring, scored, summary, at, todo, job, worker>>,
             status' = status \/ (status = "DRAFT" /\ status' = "IN_PROGRESS")
      PROVE  Round'
  BY <1>0, RoundElsewhere
<1>1. CASE PassDeadline \/ BecomeStale \/ CoolDown \/ Start \/ StartTimer \/ RecoverTimer
           \/ SkipTimer \/ UNCHANGED vars
  <2>1. UNCHANGED <<scoring, scored, summary, at, todo, job, worker>>
    BY <1>1
       DEF PassDeadline, BecomeStale, CoolDown, Start, StartTimer, RecoverTimer, SkipTimer,
           mockVars, itemVars, submitVars, jobVars, vars
  <2>2. status' = status \/ (status = "DRAFT" /\ status' = "IN_PROGRESS")
    BY <1>1
       DEF PassDeadline, BecomeStale, CoolDown, Start, StartTimer, RecoverTimer, SkipTimer,
           mockVars, vars
  <2> QED
    BY <1>0, <2>1, <2>2
<1>2. CASE \/ \E a \in Requests : AnswerStep(a) \/ AnswerDies(a)
           \/ \E q \in Questions : LockExpires(q)
  <2>1. UNCHANGED <<status, scoring, scored, summary, at, todo, job, worker>>
    BY <1>2
       DEF AnswerStep, BeginAnswer, TakeLock, Prepare, CommitAnswer, DiscardAnswer,
           LeaveAnswer, AnswerDies, LockExpires, mockVars, itemVars, submitVars, jobVars
  <2> QED
    BY <1>0, <2>1
<1>3. CASE \/ \E p \in Submitters : ClaimSubmit(p)
           \/ \E p \in Enqueuers : SubmitStep(p)
  BY <1>3, RoundClaimSubmit, RoundQueueAnswered, RoundEnqueueScore, RoundFinishEnqueue
     DEF SubmitStep
<1>4. CASE \E q \in Questions : ScoreStep(q)
  BY <1>4, RoundBegin, RoundScoreMark, RoundCheckReady, RoundClaimOverview, RoundOverview,
     RoundEndScore
     DEF ScoreStep
<1>5. CASE \/ RetryRead \/ RetryWrite
           \/ \E q \in Questions : WorkerDies(q)
           \/ \E p \in Submitters : SubmitterDies(p)
  BY <1>5, NothingDies DEF WorkerDies, SubmitterDies
<1> QED
  BY <1>1, <1>2, <1>3, <1>4, <1>5 DEF Next

\* As long as nobody retries and nothing dies, scoring is one Round.
LEMMA RoundAlways == Spec => [](Types /\ Submission /\ (Undisturbed => Round))
<1>1. Types /\ Submission /\ (Undisturbed => Round) /\ [Next]_vars
        => (Undisturbed => Round)'
  BY RoundStep, Undisturbedly
<1> QED
  BY TypeInit, TypeStep, SubmissionInit, SubmissionStep, RoundInit, <1>1, PTL DEF Spec

\* As long as nobody retries and nothing dies, the result was computed from every score of
\* the mock, and no answered question is still waiting for one: no job ends, or is created,
\* behind the overview.
THEOREM ResultCompleteAlways == Spec => []ResultComplete
<1>1. (Undisturbed => Round) => ResultComplete
  BY DEF Round, ResultIsAll, ResultComplete
<1> QED
  BY RoundAlways, <1>1, PTL

-----------------------------------------------------------------------------
(* No dead end: the safety half of SubmittedSettles.                         *)

\* Whoever queues the answers, a job that will look for the last score, or a question
\* that waits for one carries a mock that is being scored.
Underway ==
  status = "SCORING" =>
    \/ \E p \in Enqueuers : at[p] = "claimed"
    \/ \E q \in Questions : worker[q].at \in {"check", "claim"}
    \/ \E q \in Questions : scoring[q] \notin Terminal

\* From the submission on a question is PENDING only until the answers are queued.
NonePending ==
  Submitted /\ (\A p \in Enqueuers : at[p] # "claimed")
    => \A q \in Questions : scoring[q] # "PENDING"

\* A question with a score is QUEUED only while its job is about to mark it.
ScoredIsMarked ==
  \A q \in Questions : scored[q] /\ scoring[q] = "QUEUED" => worker[q].at = "mark"

Going == Underway /\ NonePending /\ ScoredIsMarked

LEMMA GoingInit == Init => Going
  BY DEF Init, Going, Underway, NonePending, ScoredIsMarked, Submitted

LEMMA GoingSubmits ==
  ASSUME Types, Submission, Round, Going, NEW p \in Enqueuers,
         (p \in Submitters /\ ClaimSubmit(p)) \/ SubmitStep(p)
  PROVE  Going'
<1> USE DEF Types, ItemOK, SubmitOK
<1>1. CASE p \in Submitters /\ ClaimSubmit(p)
  <2>1. ~ Submitted
    BY <1>1 DEF ClaimSubmit, Submitted
  <2>2. at'[p] = "claimed" /\ UNCHANGED scored /\ \A q \in Questions : ~ scored[q]
    BY <1>1, <2>1 DEF ClaimSubmit, Submission, Asleep
  <2> QED
    BY <2>2 DEF Going, Underway, NonePending, ScoredIsMarked
<1>2. CASE QueueAnswered(p)
  <2>1. /\ status = "SCORING"
        /\ \A q \in Questions : scoring[q] \in {"PENDING", "SKIPPED"} /\ ~ scored[q]
    BY <1>2 DEF QueueAnswered, Round, ClaimedIsFirst
  <2>2. \A q \in Questions : scoring[q] = "SKIPPED" <=> session[q] = None
    BY <2>1 DEF Submission, SkippedIffUnanswered, Submitted
  <2>3. UNCHANGED scored /\ \A q \in Questions : scoring'[q] # "PENDING"
    BY <1>2, <2>1, <2>2 DEF QueueAnswered, Answered
  <2>4. status' = "SCORING" => \E q \in Questions : scoring'[q] = "QUEUED"
    BY <1>2, <2>1, <2>2 DEF QueueAnswered, Answered
  <2> QED
    BY <2>1, <2>3, <2>4 DEF Going, Underway, NonePending, ScoredIsMarked, Terminal
<1>3. CASE FinishEnqueue(p) \/ \E q \in Questions : EnqueueScore(p, q)
  <2>1. UNCHANGED <<status, scoring, scored, worker>>
    BY <1>3 DEF FinishEnqueue, EnqueueScore, mockVars, itemVars, jobVars
  <2>2. \A r \in Enqueuers : at[r] = "claimed" <=> at'[r] = "claimed"
    BY <1>3 DEF FinishEnqueue, EnqueueScore
  <2> QED
    BY <2>1, <2>2 DEF Going, Underway, NonePending, ScoredIsMarked, Submitted
<1> QED
  BY <1>1, <1>2, <1>3 DEF SubmitStep

LEMMA GoingScores ==
  ASSUME Types, Submission, Round, Going, NEW q \in Questions, ScoreStep(q)
  PROVE  Going'
<1> USE DEF Types, WorkerOK
<1>1. /\ UNCHANGED at
      /\ \A r \in Questions \ {q} : UNCHANGED <<worker[r], scoring[r], scored[r]>>
  BY ScoreFrame
<1>2. Submitted /\ worker[q] \in Work
  BY DEF Submission, Asleep, ScoreStep, BeginScore, BeginScoreFails, Score, Mark, CheckReady,
         ClaimOverview, WriteOverview, PayOverview, EndScore
<1>3. \A p \in Enqueuers : at[p] # "claimed"
  BY ScoreApart DEF ScoreStep, BeginScore, BeginScoreFails, Score, Mark, CheckReady,
         ClaimOverview, WriteOverview, PayOverview, EndScore
<1>4. \A r \in Questions : scoring[r] # "PENDING"
  BY <1>2, <1>3 DEF Going, NonePending
<1>5. scoring'[q] = scoring[q] \/ scoring'[q] \in {"SCORED", "FAILED"}
  BY DEF Types, ItemOK, ScoreStep, BeginScore, BeginScoreFails, Score, Mark, CheckReady,
         ClaimOverview, WriteOverview, PayOverview, EndScore, AllButJobs, itemVars
<1>6. NonePending'
  BY <1>1, <1>4, <1>5 DEF NonePending
<1>7. CASE BeginScore(q) \/ BeginScoreFails(q) \/ EndScore(q)
  <2>1. UNCHANGED <<status, scoring, scored>> /\ worker[q].at \notin {"mark", "check", "claim"}
    BY <1>7 DEF BeginScore, BeginScoreFails, EndScore, AllButJobs, mockVars, itemVars, Round,
                QueuedUntilMarked
  <2> QED
    BY <1>1, <1>6, <2>1 DEF Going, Underway, ScoredIsMarked
<1>8. CASE Score(q)
  <2>1. worker'[q].at = "mark" /\ UNCHANGED <<status, scoring>> /\ worker[q].at = "provider"
    <3>1. \A ok \in BOOLEAN : [worker[q] EXCEPT !.at = "mark", !.ok = ok].at = "mark"
      BY <1>2 DEF Work
    <3>2. [worker[q] EXCEPT !.at = "mark"].at = "mark"
      BY <1>2 DEF Work
    <3>3. worker'[q].at = "mark"
      BY <1>8, <3>1, <3>2 DEF Score, Goto
    <3> QED
      BY <1>8, <3>3 DEF Score, mockVars
  <2> QED
    BY <1>1, <1>6, <2>1 DEF Going, Underway, ScoredIsMarked
<1>9. CASE Mark(q)
  <2>1. worker'[q].at = "check" /\ scoring'[q] \in {"SCORED", "FAILED"}
    BY <1>2, <1>9 DEF Mark, Goto, Work, Types, ItemOK
  <2> QED
    BY <1>1, <1>6, <2>1 DEF Going, Underway, ScoredIsMarked
<1>10. CASE CheckReady(q)
  <2>1. UNCHANGED <<status, scoring, scored>> /\ worker[q].at = "check"
    BY <1>10 DEF CheckReady, AllButJobs, mockVars, itemVars
  <2>2. status = "SCORING" /\ (\A r \in Questions : scoring[r] \in Terminal)
          => worker'[q].at = "claim"
    BY <1>2, <1>10 DEF CheckReady, Goto, Work
  <2> QED
    BY <1>1, <1>6, <2>1, <2>2 DEF Going, Underway, ScoredIsMarked
<1>11. CASE ClaimOverview(q) \/ WriteOverview(q) \/ PayOverview(q)
  <2>1. /\ UNCHANGED <<scoring, scored>> /\ status' # "SCORING"
        /\ worker[q].at \in {"claim", "overview", "paying"}
    BY <1>11 DEF ClaimOverview, WriteOverview, PayOverview, WriteResult, itemVars, Round,
                 OneClaim
  <2> QED
    BY <1>1, <1>6, <2>1 DEF Going, Underway, ScoredIsMarked
<1> QED
  BY <1>7, <1>8, <1>9, <1>10, <1>11 DEF ScoreStep

LEMMA GoingStep ==
  Types /\ Submission /\ Round /\ Going /\ [Next]_vars /\ Undisturbed' => Going'
<1> SUFFICES ASSUME Types, Submission, Round, Going, [Next]_vars, Undisturbed' PROVE Going'
  OBVIOUS
<1>0. ASSUME UNCHANGED <<scoring, scored, at, worker>>,
             status' = status \/ (status = "DRAFT" /\ status' = "IN_PROGRESS")
      PROVE  Going'
  BY <1>0 DEF Going, Underway, NonePending, ScoredIsMarked, Submitted
<1>1. CASE PassDeadline \/ BecomeStale \/ CoolDown \/ Start \/ StartTimer \/ RecoverTimer
           \/ SkipTimer \/ UNCHANGED vars
  <2>1. UNCHANGED <<scoring, scored, at, worker>>
    BY <1>1
       DEF PassDeadline, BecomeStale, CoolDown, Start, StartTimer, RecoverTimer, SkipTimer,
           itemVars, submitVars, jobVars, vars
  <2>2. status' = status \/ (status = "DRAFT" /\ status' = "IN_PROGRESS")
    BY <1>1
       DEF PassDeadline, BecomeStale, CoolDown, Start, StartTimer, RecoverTimer, SkipTimer,
           mockVars, vars
  <2> QED
    BY <1>0, <2>1, <2>2
<1>2. CASE \/ \E a \in Requests : AnswerStep(a) \/ AnswerDies(a)
           \/ \E q \in Questions : LockExpires(q)
  <2>1. UNCHANGED <<status, scoring, scored, at, worker>>
    BY <1>2
       DEF AnswerStep, BeginAnswer, TakeLock, Prepare, CommitAnswer, DiscardAnswer,
           LeaveAnswer, AnswerDies, LockExpires, mockVars, itemVars, submitVars, jobVars
  <2> QED
    BY <1>0, <2>1
<1>3. CASE \/ \E p \in Submitters : ClaimSubmit(p)
           \/ \E p \in Enqueuers : SubmitStep(p)
  BY <1>3, GoingSubmits DEF Enqueuers
<1>4. CASE \E q \in Questions : ScoreStep(q)
  BY <1>4, GoingScores
<1>5. CASE \/ RetryRead \/ RetryWrite
           \/ \E q \in Questions : WorkerDies(q)
           \/ \E p \in Submitters : SubmitterDies(p)
  BY <1>5, NothingDies DEF WorkerDies, SubmitterDies
<1> QED
  BY <1>1, <1>2, <1>3, <1>4, <1>5 DEF Next

\* What the comment at mock-interviews.service.ts:738 promises is kept by every step of the
\* code but two, the death of a process and a retry: as long as there was neither, no mock that
\* was submitted comes to rest with neither a result nor a retry that is accepted, though
\* jobs fail in any number and calls to the queue are lost.
THEOREM NoDeadEnd == Spec => [](Undisturbed => StuckIsRetryable)
<1>1. ASSUME Types, Submission, Round, Going, Submitted, status # "SCORED", Quiet
      PROVE  Retryable
  <2>1. \A q \in Questions : worker[q].at = "none"
    BY <1>1 DEF Quiet, Round, QueuedUntilMarked
  <2>2. \A p \in Enqueuers : at[p] # "claimed"
    BY <1>1 DEF Quiet
  <2>3. status = "SCORING"
    BY <1>1, <2>1 DEF Submitted, Round, OneClaim
  <2>4. PICK q \in Questions : scoring[q] \notin Terminal
    BY <1>1, <2>1, <2>2, <2>3 DEF Going, Underway
  <2>5. scoring[q] = "QUEUED"
    BY <1>1, <2>2, <2>4 DEF Going, NonePending, Types, ItemOK, Terminal
  <2>6. session[q] # None
    BY <1>1, <2>5 DEF Submission, SkippedIffUnanswered
  <2>7. ~ scored[q]
    BY <1>1, <2>1, <2>5 DEF Going, ScoredIsMarked
  <2> QED
    BY <2>3, <2>5, <2>6, <2>7 DEF Retryable
<1>2. Types /\ Submission /\ Round /\ Going => StuckIsRetryable
  BY <1>1 DEF StuckIsRetryable
<1>3. Types /\ Submission /\ (Undisturbed => Round) /\ (Undisturbed => Going) /\ [Next]_vars
        => (Undisturbed => Going)'
  BY GoingStep, Undisturbedly
<1> QED
  BY RoundAlways, GoingInit, <1>2, <1>3, PTL DEF Spec

-----------------------------------------------------------------------------
(* Questions that are left QUEUED.                                           *)

\* No retry is under way, and whoever decides a result, or has decided it, has every
\* question at its end.
DecidedIsMarked ==
  /\ at["retry"] # "read"
  /\ \/ status \in {"SUBMITTED", "SCORED"}
     \/ \E q \in Questions : worker[q].at \in {"claim", "overview", "paying"}
     => \A q \in Questions : scoring[q] \in Terminal

LEMMA DecidedInit == Init => DecidedIsMarked
  BY DEF Init, DecidedIsMarked, NoWork, Enqueuers

LEMMA DecidedSubmits ==
  ASSUME Types, Submission, DecidedIsMarked, NEW p \in Enqueuers,
         (p \in Submitters /\ (ClaimSubmit(p) \/ SubmitterDies(p))) \/ SubmitStep(p)
  PROVE  DecidedIsMarked'
<1> USE DEF Types, ItemOK, SubmitOK
<1>1. at'["retry"] # "read"
  BY DEF ClaimSubmit, SubmitterDies, SubmitStep, QueueAnswered, EnqueueScore, FinishEnqueue,
         DecidedIsMarked, Enqueuers
<1>2. CASE p \in Submitters /\ ClaimSubmit(p)
  <2>1. \A q \in Questions : worker[q].at = "none"
    BY <1>2 DEF ClaimSubmit, Submission, Asleep, Submitted
  <2> QED
    BY <1>1, <1>2, <2>1 DEF ClaimSubmit, jobVars, DecidedIsMarked
<1>3. CASE QueueAnswered(p)
  <2>1. Submitted
    BY <1>3 DEF QueueAnswered, Submission, Asleep
  <2>2. \A q \in Questions : scoring[q] = "SKIPPED" <=> session[q] = None
    BY <2>1 DEF Submission, SkippedIffUnanswered
  <2>3. CASE Answered = {}
    <3>1. UNCHANGED scoring /\ \A q \in Questions : scoring[q] = "SKIPPED"
      BY <1>3, <2>2, <2>3 DEF QueueAnswered, Answered
    <3> QED
      BY <1>1, <3>1 DEF DecidedIsMarked, Terminal
  <2>4. CASE Answered # {}
    <3>1. /\ UNCHANGED <<status, worker>>
          /\ \A q \in Questions : scoring[q] \in Terminal => scoring'[q] = scoring[q]
      BY <1>3, <2>4 DEF QueueAnswered, jobVars, Terminal
    <3> QED
      BY <1>1, <3>1 DEF DecidedIsMarked
  <2> QED
    BY <2>3, <2>4
<1>4. CASE \/ p \in Submitters /\ SubmitterDies(p)
           \/ FinishEnqueue(p) \/ \E q \in Questions : EnqueueScore(p, q)
  <2>1. UNCHANGED <<status, scoring, worker>>
    BY <1>4 DEF SubmitterDies, FinishEnqueue, EnqueueScore, mockVars, itemVars, jobVars
  <2> QED
    BY <1>1, <2>1 DEF DecidedIsMarked
<1> QED
  BY <1>2, <1>3, <1>4 DEF SubmitStep

LEMMA DecidedScores ==
  ASSUME Types, DecidedIsMarked, NEW q \in Questions, ScoreStep(q) \/ WorkerDies(q)
  PROVE  DecidedIsMarked'
<1> USE DEF Types, WorkerOK
<1> DEFINE deciding == {"claim", "overview", "paying"}
<1>1. /\ UNCHANGED at
      /\ \A r \in Questions \ {q} : UNCHANGED <<worker[r], scoring[r]>>
      /\ worker[q] \in Work
  BY ScoreFrame DEF WorkerDies, Goto, submitVars, itemVars
<1>2. scoring'[q] = scoring[q] \/ scoring'[q] \in Terminal
  BY DEF ItemOK, ScoreStep, BeginScore, BeginScoreFails, Score, Mark, CheckReady,
         ClaimOverview, WriteOverview, PayOverview, EndScore, WorkerDies, AllButJobs,
         itemVars, Terminal
<1>3. CASE BeginScore(q) \/ BeginScoreFails(q) \/ EndScore(q) \/ WorkerDies(q)
  <2>1. UNCHANGED status
    BY <1>3 DEF BeginScore, BeginScoreFails, EndScore, WorkerDies, AllButJobs, mockVars
  <2>2. worker'[q] = worker[q] \/ worker'[q].at \in {"none", "provider"}
    <3>1. NoWork.at = "none" /\ [NoWork EXCEPT !.at = "provider"].at = "provider"
      BY NoWorkType DEF NoWork
    <3> QED
      BY <1>3, <3>1 DEF BeginScore, BeginScoreFails, EndScore, WorkerDies, Goto
  <2> QED
    BY <1>1, <1>2, <2>1, <2>2 DEF DecidedIsMarked
<1>4. CASE Score(q) \/ Mark(q)
  <2>1. worker'[q].at \in {"mark", "check"} /\ UNCHANGED status
    <3>1. \A ok \in BOOLEAN : [worker[q] EXCEPT !.at = "mark", !.ok = ok].at = "mark"
      BY <1>1 DEF Work
    <3>2. /\ [worker[q] EXCEPT !.at = "mark"].at = "mark"
          /\ [worker[q] EXCEPT !.at = "check"].at = "check"
      BY <1>1 DEF Work
    <3> QED
      BY <1>4, <3>1, <3>2 DEF Score, Mark, Goto, mockVars
  <2> QED
    BY <1>1, <1>2, <2>1 DEF DecidedIsMarked
<1>5. CASE CheckReady(q)
  <2>1. UNCHANGED <<status, scoring>>
    BY <1>5 DEF CheckReady, AllButJobs, mockVars, itemVars
  <2>2. \/ \A r \in Questions : scoring[r] \in Terminal
        \/ worker'[q].at = "leaving"
    BY <1>1, <1>5 DEF CheckReady, Goto, Work
  <2> QED
    BY <1>1, <2>1, <2>2 DEF DecidedIsMarked
<1>6. CASE ClaimOverview(q) \/ WriteOverview(q) \/ PayOverview(q)
  <2>1. UNCHANGED scoring /\ worker[q].at \in deciding
    BY <1>6 DEF ClaimOverview, WriteOverview, PayOverview, itemVars
  <2> QED
    BY <1>1, <2>1 DEF DecidedIsMarked
<1> QED
  BY <1>3, <1>4, <1>5, <1>6 DEF ScoreStep

LEMMA DecidedStep ==
  Types /\ Submission /\ DecidedIsMarked /\ [Next]_vars /\ retries' = 0 => DecidedIsMarked'
<1> SUFFICES ASSUME Types, Submission, DecidedIsMarked, [Next]_vars, retries' = 0
             PROVE  DecidedIsMarked'
  OBVIOUS
<1>0. ASSUME UNCHANGED <<scoring, at, worker>>,
             status' = status \/ (status = "DRAFT" /\ status' = "IN_PROGRESS")
      PROVE  DecidedIsMarked'
  BY <1>0 DEF DecidedIsMarked
<1>1. CASE PassDeadline \/ BecomeStale \/ CoolDown \/ Start \/ StartTimer \/ RecoverTimer
           \/ SkipTimer \/ UNCHANGED vars
  <2>1. UNCHANGED <<scoring, at, worker>>
    BY <1>1
       DEF PassDeadline, BecomeStale, CoolDown, Start, StartTimer, RecoverTimer, SkipTimer,
           itemVars, submitVars, jobVars, vars
  <2>2. status' = status \/ (status = "DRAFT" /\ status' = "IN_PROGRESS")
    BY <1>1
       DEF PassDeadline, BecomeStale, CoolDown, Start, StartTimer, RecoverTimer, SkipTimer,
           mockVars, vars
  <2> QED
    BY <1>0, <2>1, <2>2
<1>2. CASE \/ \E a \in Requests : AnswerStep(a) \/ AnswerDies(a)
           \/ \E q \in Questions : LockExpires(q)
  <2>1. UNCHANGED <<status, scoring, at, worker>>
    BY <1>2
       DEF AnswerStep, BeginAnswer, TakeLock, Prepare, CommitAnswer, DiscardAnswer,
           LeaveAnswer, AnswerDies, LockExpires, mockVars, itemVars, submitVars, jobVars
  <2> QED
    BY <1>0, <2>1
<1>3. CASE \/ \E p \in Submitters : ClaimSubmit(p) \/ SubmitterDies(p)
           \/ \E p \in Enqueuers : SubmitStep(p)
  BY <1>3, DecidedSubmits DEF Enqueuers
<1>4. CASE \E q \in Questions : ScoreStep(q) \/ WorkerDies(q)
  BY <1>4, DecidedScores
<1>5. CASE RetryRead \/ RetryWrite
  BY <1>5, Undisturbedly DEF RetryWrite, DecidedIsMarked
<1> QED
  BY <1>1, <1>2, <1>3, <1>4, <1>5 DEF Next

\* What mock-core.constants.ts:14 says of a QUEUED question without a score fails after a
\* retry only: as long as nobody retries, and whatever processes die, such a question
\* belongs to a mock in SCORING, where the retry accepts it.
THEOREM QueuedRetryableBeforeRetry == Spec => [](retries = 0 => QueuedIsRetryable)
<1>1. ASSUME Types, Submission, DecidedIsMarked, NEW q \in Questions, scoring[q] = "QUEUED"
      PROVE  status = "SCORING"
  <2>1. Submitted
    BY <1>1 DEF Submission, Asleep
  <2>2. status \notin {"SUBMITTED", "SCORED"}
    BY <1>1 DEF DecidedIsMarked, Terminal
  <2> QED
    BY <2>1, <2>2 DEF Submitted
<1>2. Types /\ Submission /\ DecidedIsMarked => QueuedIsRetryable
  BY <1>1 DEF QueuedIsRetryable
<1>3. Types /\ Submission /\ (retries = 0 => DecidedIsMarked) /\ [Next]_vars
        => (retries = 0 => DecidedIsMarked)'
  BY DecidedStep, Undisturbedly
<1> QED
  BY TypeInit, TypeStep, SubmissionInit, SubmissionStep, DecidedInit, <1>2, <1>3, PTL DEF Spec

-----------------------------------------------------------------------------
(* Scores and results.                                                       *)

\* What is shown to the candidate goes back to answers: a result to scores, also the
\* one a job has yet to write, and a score to an answer.
Traced ==
  /\ summary \subseteq Scores
  /\ \A q \in Questions : worker[q].seen \subseteq Scores
  /\ \A q \in Questions : scored[q] => session[q] # None

\* A score and an answer stay, and only an answer is scored.
Growth(q) ==
  /\ session[q] # None => session'[q] # None
  /\ scored[q] => scored'[q]
  /\ scored'[q] => (scored[q] \/ session[q] # None)

LEMMA ScoresGrow ==
  ASSUME Types, Submission, [Next]_vars
  PROVE  \A q \in Questions : Growth(q)
<1> USE DEF Types, ItemOK, Growth
<1>0. ASSUME UNCHANGED <<session, scored>>
      PROVE  \A q \in Questions : Growth(q)
  BY <1>0
<1>1. CASE PassDeadline \/ BecomeStale \/ CoolDown \/ Start \/ StartTimer \/ RecoverTimer
           \/ SkipTimer \/ RetryRead \/ RetryWrite \/ UNCHANGED vars
  BY <1>0, <1>1
     DEF PassDeadline, BecomeStale, CoolDown, Start, StartTimer, RecoverTimer, SkipTimer,
         RetryRead, RetryWrite, itemVars, vars
<1>2. ASSUME NEW a \in Requests, CommitAnswer(a)
      PROVE  \A q \in Questions : Growth(q)
  BY <1>2, MockAssumption DEF CommitAnswer
<1>3. ASSUME NEW a \in Requests, AnswerStep(a) \/ AnswerDies(a), ~ CommitAnswer(a)
      PROVE  UNCHANGED <<session, scored>>
  BY <1>3
     DEF AnswerStep, BeginAnswer, TakeLock, Prepare, DiscardAnswer, LeaveAnswer,
         AnswerDies, itemVars
<1>4. ASSUME NEW q \in Questions, Score(q)
      PROVE  /\ session[q] # None /\ UNCHANGED session
             /\ scored' \in {scored, [scored EXCEPT ![q] = TRUE]}
  BY <1>4 DEF Score, Submission, Handed
<1>5. ASSUME NEW q \in Questions, LockExpires(q) \/ ScoreStep(q) \/ WorkerDies(q),
             ~ Score(q)
      PROVE  UNCHANGED <<session, scored>>
  BY <1>5
     DEF LockExpires, ScoreStep, BeginScore, BeginScoreFails, Mark, CheckReady,
         ClaimOverview, WriteOverview, PayOverview, EndScore, WorkerDies, AllButJobs,
         itemVars
<1>6. ASSUME NEW p \in Enqueuers, ClaimSubmit(p) \/ SubmitterDies(p) \/ SubmitStep(p)
      PROVE  UNCHANGED <<session, scored>>
  BY <1>6
     DEF ClaimSubmit, SubmitterDies, SubmitStep, QueueAnswered, EnqueueScore,
         FinishEnqueue, itemVars
<1> QED
  BY <1>0, <1>1, <1>2, <1>3, <1>4, <1>5, <1>6 DEF Next, Enqueuers

\* A job reads all the scores there are, keeps what it has read, or forgets it.
LEMMA SeenMoves ==
  ASSUME Types, NEW q \in Questions, ScoreStep(q) \/ WorkerDies(q)
  PROVE  /\ worker'[q].seen \in {worker[q].seen, {}, Scores}
         /\ \A r \in Questions \ {q} : worker'[r] = worker[r]
         /\ summary' \in {summary, worker[q].seen}
<1> USE DEF Types, WorkerOK
<1>1. worker[q] \in Work
  OBVIOUS
<1>2. \A r \in Questions \ {q} : worker'[r] = worker[r]
  BY DEF Goto, ScoreStep, BeginScore, BeginScoreFails, Score, Mark, CheckReady,
         ClaimOverview, WriteOverview, PayOverview, EndScore, WorkerDies
<1>3. summary' \in {summary, worker[q].seen}
  BY DEF ScoreStep, BeginScore, BeginScoreFails, Score, Mark, CheckReady, ClaimOverview,
         WriteOverview, PayOverview, EndScore, WorkerDies, AllButJobs, WriteResult, mockVars
<1>4. worker'[q].seen \in {worker[q].seen, {}, Scores}
  <2>1. CASE BeginScore(q)
    <3>1. [NoWork EXCEPT !.at = "provider"].seen = {}
      BY NoWorkType, PlaceType DEF Places, NoWork
    <3> QED
      BY <2>1, <3>1 DEF BeginScore, Goto
  <2>2. CASE BeginScoreFails(q)
    BY <2>2 DEF BeginScoreFails
  <2>3. CASE Score(q)
    <3>1. \A ok \in BOOLEAN :
            [worker[q] EXCEPT !.at = "mark", !.ok = ok].seen = worker[q].seen
      BY <1>1 DEF Work
    <3>2. [worker[q] EXCEPT !.at = "mark"].seen = worker[q].seen
      BY <1>1 DEF Work
    <3> QED
      BY <2>3, <3>1, <3>2 DEF Score, Goto
  <2>4. CASE CheckReady(q)
    <3>1. [worker[q] EXCEPT !.at = "claim", !.seen = Scores].seen = Scores
      BY <1>1 DEF Work
    <3>2. [worker[q] EXCEPT !.at = "leaving"].seen = worker[q].seen
      BY <1>1 DEF Work
    <3> QED
      BY <2>4, <3>1, <3>2 DEF CheckReady, Goto, Scores
  <2>5. CASE Mark(q) \/ ClaimOverview(q) \/ WriteOverview(q) \/ PayOverview(q)
    <3>1. PICK place \in Places : worker' = [worker EXCEPT ![q] = [worker[q] EXCEPT !.at = place]]
      BY <2>5 DEF Mark, ClaimOverview, WriteOverview, PayOverview, Goto, Places
    <3> QED
      BY <1>1, <3>1, PlaceType
  <2>6. CASE EndScore(q) \/ WorkerDies(q)
    BY <2>6 DEF EndScore, WorkerDies, Goto, NoWork
  <2> QED
    BY <2>1, <2>2, <2>3, <2>4, <2>5, <2>6 DEF ScoreStep
<1> QED
  BY <1>2, <1>3, <1>4

LEMMA TracedStep == Types /\ Submission /\ Traced /\ [Next]_vars => Traced'
<1> SUFFICES ASSUME Types, Submission, Traced, [Next]_vars PROVE Traced'
  OBVIOUS
<1>1. Scores \subseteq Scores'
  BY ScoresGrow DEF Scores, Growth
<1>2. \A q \in Questions : scored'[q] => session'[q] # None
  BY ScoresGrow DEF Traced, Growth
<1>3. ASSUME summary' \in {summary, {}}, UNCHANGED worker
      PROVE  Traced'
  BY <1>1, <1>2, <1>3 DEF Traced
<1>4. CASE \/ PassDeadline \/ BecomeStale \/ CoolDown \/ Start \/ StartTimer \/ RecoverTimer
           \/ SkipTimer \/ RetryRead \/ RetryWrite \/ UNCHANGED vars
           \/ \E q \in Questions : LockExpires(q)
  BY <1>3, <1>4
     DEF PassDeadline, BecomeStale, CoolDown, Start, StartTimer, RecoverTimer, SkipTimer,
         RetryRead, RetryWrite, LockExpires, mockVars, jobVars, vars
<1>5. ASSUME NEW a \in Requests, AnswerStep(a) \/ AnswerDies(a) PROVE Traced'
  BY <1>3, <1>5
     DEF AnswerStep, BeginAnswer, TakeLock, Prepare, CommitAnswer, DiscardAnswer,
         LeaveAnswer, AnswerDies, mockVars, jobVars
<1>6. ASSUME NEW p \in Enqueuers, ClaimSubmit(p) \/ SubmitterDies(p) \/ SubmitStep(p)
      PROVE  Traced'
  BY <1>3, <1>6
     DEF ClaimSubmit, SubmitterDies, SubmitStep, QueueAnswered, EnqueueScore,
         FinishEnqueue, mockVars, jobVars
<1>7. ASSUME NEW q \in Questions, ScoreStep(q) \/ WorkerDies(q) PROVE Traced'
  <2>1. summary' \subseteq Scores'
    BY <1>1, <1>7, SeenMoves DEF Traced
  <2>2. \A r \in Questions : worker'[r].seen \subseteq Scores'
    BY <1>1, <1>7, SeenMoves DEF Traced
  <2> QED
    BY <1>2, <2>1, <2>2 DEF Traced
<1> QED
  BY <1>4, <1>5, <1>6, <1>7 DEF Next, Enqueuers

LEMMA TracedInit == Init => Traced
  BY DEF Init, Traced, Scores, NoWork

-----------------------------------------------------------------------------
(* Without retries, processes may die as they like.                          *)

\* Of the jobs of a mock one gets past the claim of the overview, and nobody writes a
\* result but that one.
OneWriter ==
  /\ at["retry"] # "read"
  /\ \A q, r \in Questions : worker[q].at = "overview" /\ worker[r].at = "overview" => q = r
  /\ \A q \in Questions : worker[q].at = "overview" => status = "SUBMITTED"
  /\ \A q \in Questions :
       worker[q].at = "paying" => status = "SCORED" /\ summary = worker[q].seen

LEMMA OneWriterInit == Init => OneWriter
  BY DEF Init, OneWriter, NoWork, Enqueuers

\* A step that leaves the mock and the jobs past their claim alone.
LEMMA OneWriterKept ==
  ASSUME OneWriter, UNCHANGED worker, at'["retry"] # "read",
         \/ UNCHANGED <<status, summary>>
         \/ \A q \in Questions : worker[q].at \notin {"overview", "paying"}
  PROVE  OneWriter'
  BY DEF OneWriter

LEMMA OneWriterScore ==
  ASSUME Types, OneWriter, NEW q \in Questions, ScoreStep(q) \/ WorkerDies(q)
  PROVE  OneWriter'
<1> USE DEF Types, WorkerOK
<1>0. worker[q] \in Work /\ UNCHANGED at
  BY DEF ScoreStep, BeginScore, BeginScoreFails, Score, Mark, CheckReady, ClaimOverview,
         WriteOverview, PayOverview, EndScore, WorkerDies, AllButJobs, submitVars
<1>1. \A r \in Questions \ {q} : worker'[r] = worker[r]
  BY SeenMoves
<1>2. ASSUME UNCHANGED <<status, summary>>, worker'[q].at \notin {"overview", "paying"}
      PROVE  OneWriter'
  BY <1>0, <1>1, <1>2 DEF OneWriter
<1>3. CASE BeginScore(q)
  <2>1. [NoWork EXCEPT !.at = "provider"].at = "provider"
    BY NoWorkType, PlaceType DEF Places
  <2> QED
    BY <1>2, <1>3, <2>1 DEF BeginScore, Goto, AllButJobs, mockVars
<1>4. CASE BeginScoreFails(q)
  BY <1>0, <1>4 DEF BeginScoreFails, AllButJobs, mockVars, OneWriter
<1>5. CASE Score(q)
  <2>1. \A ok \in BOOLEAN : [worker[q] EXCEPT !.at = "mark", !.ok = ok].at = "mark"
    BY <1>0 DEF Work
  <2>2. [worker[q] EXCEPT !.at = "mark"].at = "mark"
    BY <1>0 DEF Work
  <2> QED
    BY <1>2, <1>5, <2>1, <2>2 DEF Score, Goto, mockVars
<1>6. CASE Mark(q)
  <2>1. [worker[q] EXCEPT !.at = "check"].at = "check"
    BY <1>0 DEF Work
  <2> QED
    BY <1>2, <1>6, <2>1 DEF Mark, Goto, mockVars
<1>7. CASE CheckReady(q)
  <2>1. /\ [worker[q] EXCEPT !.at = "claim", !.seen = Scores].at = "claim"
        /\ [worker[q] EXCEPT !.at = "leaving"].at = "leaving"
    BY <1>0 DEF Work
  <2> QED
    BY <1>2, <1>7, <2>1 DEF CheckReady, Goto, AllButJobs, mockVars, Scores
<1>8. CASE ClaimOverview(q)
  <2>1. CASE status = "SCORING"
    <3>1. worker'[q].at = "overview" /\ status' = "SUBMITTED"
      BY <1>0, <1>8, <2>1 DEF ClaimOverview, Goto, Work
    <3> QED
      BY <1>0, <1>1, <2>1, <3>1 DEF OneWriter
  <2>2. CASE status # "SCORING"
    <3>1. worker'[q].at = "leaving" /\ UNCHANGED <<status, summary>>
      BY <1>0, <1>8, <2>2 DEF ClaimOverview, Goto, Work
    <3> QED
      BY <1>2, <3>1
  <2> QED
    BY <2>1, <2>2
<1>9. CASE WriteOverview(q)
  <2>1. PICK next \in {"paying", "leaving"} :
          worker' = [worker EXCEPT ![q] = [worker[q] EXCEPT !.at = next]]
    BY <1>9 DEF WriteOverview, Goto
  <2>2. worker'[q].at \in {"paying", "leaving"} /\ worker'[q].seen = worker[q].seen
    BY <1>0, <2>1 DEF Work
  <2>3. /\ worker[q].at = "overview"
        /\ status' = "SCORED" /\ summary' = worker[q].seen
    BY <1>9 DEF WriteOverview, WriteResult
  <2>4. \A r \in Questions \ {q} : worker[r].at \notin {"overview", "paying"}
    BY <2>3 DEF OneWriter
  <2> QED
    BY <1>0, <1>1, <2>2, <2>3, <2>4 DEF OneWriter
<1>10. CASE PayOverview(q)
  <2>1. worker'[q].at = "leaving"
    BY <1>0, <1>10 DEF PayOverview, Goto, Work
  <2>2. UNCHANGED <<status, summary>>
    BY <1>10 DEF PayOverview, WriteResult, OneWriter
  <2> QED
    BY <1>2, <2>1, <2>2
<1>11. CASE EndScore(q) \/ WorkerDies(q)
  BY <1>2, <1>11 DEF EndScore, WorkerDies, Goto, NoWork, AllButJobs, mockVars
<1> QED
  BY <1>3, <1>4, <1>5, <1>6, <1>7, <1>8, <1>9, <1>10, <1>11 DEF ScoreStep

\* Before the submission, and when nobody has answered, no job is at work.
LEMMA NobodyWrites ==
  ASSUME Submission, ~ Submitted \/ Answered = {}
  PROVE  \A q \in Questions : worker[q].at \notin {"overview", "paying"}
  BY DEF Submission, Asleep, Handed, Answered

LEMMA OneWriterStep ==
  ASSUME Types, Submission, OneWriter, [Next]_vars, retries' = 0
  PROVE  OneWriter'
<1>0. ~ RetryRead /\ ~ RetryWrite
  BY Undisturbedly DEF OneWriter, RetryWrite
<1>1. at'["retry"] # "read"
  BY <1>0
     DEF Types, SubmitOK, Enqueuers, OneWriter, Next, vars, submitVars, PassDeadline,
         BecomeStale, CoolDown, Start, StartTimer, RecoverTimer, SkipTimer, AnswerStep,
         BeginAnswer, TakeLock, Prepare, CommitAnswer, DiscardAnswer, LeaveAnswer,
         AnswerDies, LockExpires, ScoreStep, BeginScore, BeginScoreFails, Score, Mark,
         CheckReady, ClaimOverview, WriteOverview, PayOverview, EndScore, WorkerDies,
         AllButJobs, ClaimSubmit, SubmitterDies, SubmitStep, QueueAnswered, EnqueueScore,
         FinishEnqueue
<1>2. CASE \E q \in Questions : ScoreStep(q) \/ WorkerDies(q)
  BY <1>2, OneWriterScore
<1>3. ASSUME NEW p \in Enqueuers, ClaimSubmit(p) \/ SubmitterDies(p) \/ SubmitStep(p)
      PROVE  OneWriter'
  <2>1. UNCHANGED worker
    BY <1>3
       DEF ClaimSubmit, SubmitterDies, SubmitStep, QueueAnswered, EnqueueScore,
           FinishEnqueue, jobVars
  <2>2. UNCHANGED <<status, summary>> \/ ~ Submitted \/ Answered = {}
    BY <1>3
       DEF ClaimSubmit, SubmitterDies, SubmitStep, QueueAnswered, EnqueueScore,
           FinishEnqueue, mockVars, Submitted
  <2> QED
    BY <1>1, <2>1, <2>2, NobodyWrites, OneWriterKept
<1>4. CASE \/ PassDeadline \/ BecomeStale \/ CoolDown \/ Start \/ StartTimer \/ RecoverTimer
           \/ SkipTimer \/ UNCHANGED vars
           \/ \E a \in Requests : AnswerStep(a) \/ AnswerDies(a)
           \/ \E q \in Questions : LockExpires(q)
  <2>1. UNCHANGED <<worker, summary>> /\ (UNCHANGED status \/ ~ Submitted)
    BY <1>4
       DEF PassDeadline, BecomeStale, CoolDown, Start, StartTimer, RecoverTimer, SkipTimer,
           AnswerStep, BeginAnswer, TakeLock, Prepare, CommitAnswer, DiscardAnswer,
           LeaveAnswer, AnswerDies, LockExpires, mockVars, jobVars, vars, Submitted
  <2> QED
    BY <1>1, <2>1, NobodyWrites, OneWriterKept
<1> QED
  BY <1>0, <1>2, <1>3, <1>4 DEF Next, Enqueuers

LEMMA OneWriterAlways ==
  Spec => [](Types /\ Submission /\ Traced /\ (retries = 0 => OneWriter))
<1>1. Types /\ Submission /\ (retries = 0 => OneWriter) /\ [Next]_vars
        => (retries = 0 => OneWriter)'
  BY OneWriterStep, Undisturbedly
<1> QED
  BY TypeInit, TypeStep, SubmissionInit, SubmissionStep, TracedInit, TracedStep,
     OneWriterInit, <1>1, PTL DEF Spec

\* Jobs that end together write one overview, whatever dies and until somebody retries:
\* completeIfReady lets a single one past SCORING -> SUBMITTED.
THEOREM OneOverviewAlways == Spec => []OneOverview
<1>1. OneWriter => Cardinality({q \in Questions : worker[q].at = "overview"}) <= 1
  <2> SUFFICES ASSUME OneWriter
               PROVE  Cardinality({q \in Questions : worker[q].at = "overview"}) <= 1
    OBVIOUS
  <2> DEFINE writers == {q \in Questions : worker[q].at = "overview"}
  <2>1. \A q, r \in writers : q = r
    BY DEF OneWriter
  <2> HIDE DEF writers
  <2>2. CASE writers = {}
    BY <2>2, FS_EmptySet DEF writers
  <2>3. ASSUME NEW q \in writers PROVE Cardinality(writers) <= 1
    <3>1. writers = {q}
      BY <2>3, <2>1
    <3>2. Cardinality({q}) = 1
      BY FS_Singleton
    <3> QED
      BY <3>1, <3>2
  <2> QED
    BY <2>2, <2>3 DEF writers
<1>2. Round => (status = "SUBMITTED" <=> \E q \in Questions : worker[q].at = "overview")
  BY DEF Round, OneClaim
<1>3. (retries = 0 => OneWriter) /\ (Undisturbed => Round) => OneOverview
  BY <1>1, <1>2 DEF OneOverview
<1> QED
  BY RoundAlways, OneWriterAlways, <1>3, PTL

\* However many processes die: as long as nobody retries, a result that was decided is
\* never decided again, not even by the fallback of an overview that cannot be paid.
THEOREM FinalWithoutRetry == Spec => ResultFinal
<1>1. ASSUME Types, retries = 0 => OneWriter, [Next]_vars, status = "SCORED", retries = 0
      PROVE  UNCHANGED <<status, summary>>
  <2>1. ASSUME NEW q \in Questions, ScoreStep(q) \/ WorkerDies(q)
        PROVE  UNCHANGED <<status, summary>>
    BY <1>1, <2>1
       DEF OneWriter, WriteResult, ScoreStep, BeginScore, BeginScoreFails, Score, Mark,
           CheckReady, ClaimOverview, WriteOverview, PayOverview, EndScore, WorkerDies,
           AllButJobs, mockVars
  <2>2. ASSUME NEW p \in Enqueuers, ClaimSubmit(p) \/ SubmitterDies(p) \/ SubmitStep(p)
        PROVE  UNCHANGED <<status, summary>>
    BY <1>1, <2>2
       DEF ClaimSubmit, SubmitterDies, SubmitStep, QueueAnswered, EnqueueScore,
           FinishEnqueue, mockVars
  <2>3. ~ RetryWrite
    BY <1>1 DEF OneWriter, RetryWrite
  <2>4. CASE \/ PassDeadline \/ BecomeStale \/ CoolDown \/ Start \/ StartTimer \/ RecoverTimer
             \/ SkipTimer \/ RetryRead \/ UNCHANGED vars
             \/ \E a \in Requests : AnswerStep(a) \/ AnswerDies(a)
             \/ \E q \in Questions : LockExpires(q)
    BY <1>1, <2>4
       DEF PassDeadline, BecomeStale, CoolDown, Start, StartTimer, RecoverTimer, SkipTimer,
           RetryRead, AnswerStep, BeginAnswer, TakeLock, Prepare, CommitAnswer,
           DiscardAnswer, LeaveAnswer, AnswerDies, LockExpires, mockVars, vars
  <2> QED
    BY <1>1, <2>1, <2>2, <2>3, <2>4 DEF Next, Enqueuers
<1>2. Types /\ (retries = 0 => OneWriter) /\ [Next]_vars
        => [status = "SCORED" /\ retries = 0 => UNCHANGED <<status, summary>>]_vars
  BY <1>1
<1> QED
  BY OneWriterAlways, <1>2, PTL DEF Spec, ResultFinal

-----------------------------------------------------------------------------
(* Refinement: whatever is retried or dies, a mock is an Interview.          *)

\* The stages of a mock of the right type.
LEMMA Stages ==
  ASSUME Types
  PROVE  /\ Stage \in {"open", "scoring", "decided"}
         /\ Stage = "open" <=> ~ Submitted
         /\ Stage = "scoring" <=> status \in {"SCORING", "SUBMITTED"}
         /\ Stage = "decided" <=> status = "SCORED"
  BY DEF Types, MockOK, Stage, Submitted

LEMMA PromiseInit == Init => Promise!Init
<1> SUFFICES ASSUME Init PROVE Promise!Init
  OBVIOUS
<1>1. Stage = "open" /\ Answered = {} /\ Scores = {} /\ Result = {}
  BY DEF Init, Stage, Answered, Scores, Result
<1>2. (retries > 0) = FALSE
  BY DEF Init
<1> QED
  BY <1>1, <1>2 DEF Promise!Init

LEMMA PromiseStutters ==
  ASSUME Types, UNCHANGED <<summary, session, scored, retries>>,
         \/ UNCHANGED status
         \/ status = "DRAFT" /\ status' = "IN_PROGRESS"
         \/ status = "SCORING" /\ status' = "SUBMITTED"
  PROVE  UNCHANGED Promise!interviewVars
<1>1. UNCHANGED Stage
  BY DEF Types, MockOK, Stage
<1>2. UNCHANGED <<Answered, Scores, Result>>
  BY DEF Answered, Scores, Result
<1> QED
  BY <1>1, <1>2 DEF Promise!interviewVars

\* The first retry that is accepted asks for one.
LEMMA PromiseAsks ==
  ASSUME Types, RetryRead
  PROVE  Promise!Next
<1>1. UNCHANGED <<status, summary, session, scored>> /\ status \in {"SCORING", "SCORED"}
  BY DEF RetryRead, mockVars, itemVars
<1>2. Stage # "open" /\ UNCHANGED <<Stage, Answered, Scores, Result>>
  BY <1>1 DEF Stage, Answered, Scores, Result
<1>3. (retries' > 0) = TRUE
  BY MockAssumption DEF RetryRead, Types, BoundOK
<1> QED
  BY <1>2, <1>3 DEF Promise!Next, Promise!AskRetry

\* A committed answer is an answer of the interview.
LEMMA PromiseAnswers ==
  ASSUME Types, NEW a \in Requests, CommitAnswer(a)
  PROVE  Promise!Next
<1> DEFINE q == Target[a]
<1>1. q \in Questions /\ a # None
  BY MockAssumption
<1>2. /\ session[q] = None /\ session' = [session EXCEPT ![q] = a]
      /\ status = "IN_PROGRESS" /\ UNCHANGED <<status, summary, scored, retries>>
  BY DEF CommitAnswer, CanAnswer, mockVars, boundVars
<1>3. q \notin Answered /\ Answered' = Answered \cup {q}
  BY <1>1, <1>2 DEF Types, ItemOK, Answered
<1>4. Stage = "open" /\ UNCHANGED <<Stage, Scores, Result>>
  BY <1>2 DEF Stage, Scores, Result
<1>5. Promise!Answer(q)
  BY <1>2, <1>3, <1>4 DEF Promise!Answer
<1> QED
  BY <1>1, <1>5 DEF Promise!Next

\* The claim of the submission hands the interview in, and a mock nobody has answered
\* is decided with nothing.
LEMMA PromiseSubmits ==
  ASSUME Types, Submission, Traced, NEW p \in Enqueuers,
         \/ p \in Submitters /\ (ClaimSubmit(p) \/ SubmitterDies(p))
         \/ SubmitStep(p)
  PROVE  [Promise!Next]_(Promise!interviewVars)
<1>1. CASE p \in Submitters /\ ClaimSubmit(p)
  <2>1. /\ status = "IN_PROGRESS" /\ status' = "SCORING"
        /\ UNCHANGED <<summary, session, scored, retries>>
    BY <1>1 DEF ClaimSubmit, boundVars
  <2>2. Stage = "open" /\ Stage' = "scoring" /\ UNCHANGED <<Answered, Scores, Result>>
    BY <2>1 DEF Stage, Answered, Scores, Result
  <2> QED
    BY <2>1, <2>2 DEF Promise!Next, Promise!HandIn
<1>2. CASE QueueAnswered(p) /\ Answered = {}
  <2>1. UNCHANGED <<summary, session, scored, retries>> /\ Submitted
    BY <1>2 DEF QueueAnswered, Submission, Asleep, boundVars
  <2>2. Scores = {} /\ summary = {}
    BY <1>2 DEF Traced, Answered, Scores
  <2>3. CASE UNCHANGED status
    BY <2>1, <2>3, PromiseStutters
  <2>4. CASE status' # status
    <3>1. status' = "SCORED" /\ status # "SCORED"
      BY <1>2, <2>4 DEF QueueAnswered
    <3>2. Stage = "scoring" /\ Stage' = "decided"
      BY <2>1, <3>1, Stages DEF Stage
    <3>3. Result' = {} /\ UNCHANGED <<Answered, Scores>>
      BY <2>1, <2>2 DEF Result, Answered, Scores
    <3>4. Promise!Decide({})
      BY <2>1, <3>2, <3>3 DEF Promise!Decide
    <3> QED
      BY <3>4 DEF Promise!Next
  <2> QED
    BY <2>3, <2>4
<1>3. ASSUME \/ p \in Submitters /\ SubmitterDies(p)
             \/ SubmitStep(p) /\ ~ (QueueAnswered(p) /\ Answered = {})
      PROVE  UNCHANGED Promise!interviewVars
  <2>1. UNCHANGED <<status, summary, session, scored, retries>>
    BY <1>3
       DEF SubmitterDies, Dies, SubmitStep, QueueAnswered, EnqueueScore, FinishEnqueue,
           mockVars, itemVars, boundVars
  <2> QED
    BY <2>1, PromiseStutters
<1> QED
  BY <1>1, <1>2, <1>3

\* A Score row is a score of the interview.
LEMMA PromiseScores ==
  ASSUME Types, Submission, NEW q \in Questions, Score(q)
  PROVE  [Promise!Next]_(Promise!interviewVars)
<1>1. Submitted /\ q \in Answered
  BY DEF Score, Submission, Asleep, Handed, Answered
<1>2. /\ UNCHANGED <<status, summary, session, retries>>
      /\ scored' \in {scored, [scored EXCEPT ![q] = TRUE]}
  BY DEF Score, mockVars, boundVars
<1>3. CASE scored' = scored
  BY <1>2, <1>3, PromiseStutters
<1>4. CASE scored' # scored
  <2>1. q \notin Scores /\ Scores' = Scores \cup {q}
    BY <1>2, <1>4 DEF Types, ItemOK, Scores
  <2>2. Stage # "open" /\ UNCHANGED <<Stage, Answered, Result>>
    BY <1>1, <1>2, Stages DEF Stage, Answered, Result
  <2>3. Promise!Score(q)
    BY <1>1, <1>2, <2>1, <2>2 DEF Promise!Score
  <2> QED
    BY <2>3 DEF Promise!Next
<1> QED
  BY <1>3, <1>4

\* The result a job writes decides the interview.  It takes the place of the result that
\* is there only after a retry.
LEMMA PromiseDecides ==
  ASSUME Types, Submission, Traced, retries = 0 => OneWriter, NEW q \in Questions,
         WriteOverview(q) \/ (PayOverview(q) /\ WriteResult(q))
  PROVE  [Promise!RevisingNext]_(Promise!interviewVars)
<1>1. Submitted
  BY DEF WriteOverview, PayOverview, Submission, Asleep
<1>2. worker[q].seen \subseteq Scores /\ worker[q].seen \in SUBSET Questions
  BY DEF Traced, Scores
<1>3. /\ UNCHANGED <<session, scored, retries>>
      /\ status' = "SCORED" /\ summary' = worker[q].seen
  BY DEF WriteOverview, PayOverview, WriteResult, itemVars, boundVars
<1>4. Stage' = "decided" /\ Result' = worker[q].seen /\ UNCHANGED <<Answered, Scores>>
  BY <1>3 DEF Stage, Result, Answered, Scores
<1>5. CASE status = "SCORED" /\ retries = 0
  <2>1. summary = worker[q].seen
    BY <1>5 DEF OneWriter, WriteOverview, PayOverview
  <2>2. UNCHANGED <<Stage, Result>>
    BY <1>4, <1>5, <2>1 DEF Stage, Result
  <2> QED
    BY <1>3, <1>4, <2>2 DEF Promise!interviewVars
<1>6. CASE status = "SCORED" /\ retries # 0
  <2>1. retries > 0
    BY <1>6, MockAssumption DEF Types, BoundOK
  <2>2. Stage = "decided"
    BY <1>6 DEF Stage
  <2>3. Promise!Revise(worker[q].seen)
    BY <1>2, <1>3, <1>4, <2>1, <2>2 DEF Promise!Revise
  <2> QED
    BY <1>2, <2>3 DEF Promise!RevisingNext
<1>7. CASE status # "SCORED"
  <2>1. Stage = "scoring"
    BY <1>1, <1>7, Stages
  <2>2. Promise!Decide(worker[q].seen)
    BY <1>2, <1>3, <1>4, <2>1 DEF Promise!Decide
  <2> QED
    BY <1>2, <2>2 DEF Promise!Next, Promise!RevisingNext
<1> QED
  BY <1>5, <1>6, <1>7

\* The other steps of a job show nothing to the candidate.
LEMMA PromiseWaits ==
  ASSUME Types, NEW q \in Questions,
         \/ /\ ScoreStep(q) /\ ~ Score(q)
            /\ ~ (WriteOverview(q) \/ (PayOverview(q) /\ WriteResult(q)))
         \/ WorkerDies(q)
  PROVE  UNCHANGED Promise!interviewVars
<1>1. /\ UNCHANGED <<summary, session, scored, retries>>
      /\ status' = status \/ (status = "SCORING" /\ status' = "SUBMITTED")
  BY DEF ScoreStep, BeginScore, BeginScoreFails, Mark, CheckReady, ClaimOverview,
         PayOverview, EndScore, WorkerDies, Dies, AllButJobs, mockVars, itemVars, boundVars
<1> QED
  BY <1>1, PromiseStutters

\* A retry of scoring withdraws the result.
LEMMA PromiseReopens ==
  ASSUME Types, Submission, retries = 0 => OneWriter, RetryWrite
  PROVE  [Promise!Next]_(Promise!interviewVars)
<1>1. Submitted /\ retries > 0
  <2>1. retries # 0
    BY DEF OneWriter, RetryWrite
  <2> QED
    BY <2>1, MockAssumption DEF RetryWrite, Submission, Asleep, Enqueuers, Types, BoundOK
<1>2. status' = "SCORING" /\ summary' = {} /\ UNCHANGED <<session, scored, retries>>
  BY DEF RetryWrite, boundVars
<1>3. Stage' = "scoring" /\ Result' = {} /\ UNCHANGED <<Answered, Scores>>
  BY <1>2 DEF Stage, Result, Answered, Scores
<1>4. CASE status = "SCORED"
  <2>1. Promise!Reopen
    BY <1>1, <1>2, <1>3, <1>4, Stages DEF Promise!Reopen
  <2> QED
    BY <2>1 DEF Promise!Next
<1>5. CASE status # "SCORED"
  <2>1. Stage = "scoring" /\ Result = {}
    BY <1>1, <1>5, Stages DEF Result
  <2> QED
    BY <1>2, <1>3, <2>1 DEF Promise!interviewVars
<1> QED
  BY <1>4, <1>5

LEMMA RevisingIsNext ==
  [Promise!Next]_(Promise!interviewVars) => [Promise!RevisingNext]_(Promise!interviewVars)
  BY DEF Promise!RevisingNext

\* Every step is one of the interview, or shows nothing.
LEMMA PromiseStep ==
  ASSUME Types, Submission, Traced, retries = 0 => OneWriter, [Next]_vars
  PROVE  [Promise!RevisingNext]_(Promise!interviewVars)
<1>1. CASE \/ PassDeadline \/ BecomeStale \/ CoolDown \/ Start \/ StartTimer \/ RecoverTimer
           \/ SkipTimer \/ UNCHANGED vars
           \/ \E q \in Questions : LockExpires(q)
  <2>1. /\ UNCHANGED <<summary, session, scored, retries>>
        /\ status' = status \/ (status = "DRAFT" /\ status' = "IN_PROGRESS")
    BY <1>1
       DEF PassDeadline, BecomeStale, CoolDown, Start, StartTimer, RecoverTimer, SkipTimer,
           LockExpires, mockVars, itemVars, boundVars, vars
  <2> QED
    BY <2>1, PromiseStutters
<1>2. ASSUME NEW a \in Requests, AnswerStep(a) \/ AnswerDies(a), ~ CommitAnswer(a)
      PROVE  UNCHANGED Promise!interviewVars
  <2>1. UNCHANGED <<status, summary, session, scored, retries>>
    BY <1>2
       DEF AnswerStep, BeginAnswer, TakeLock, Prepare, DiscardAnswer, LeaveAnswer,
           AnswerDies, Dies, mockVars, itemVars, boundVars
  <2> QED
    BY <2>1, PromiseStutters
<1>3. CASE \E q \in Questions : ScoreStep(q) \/ WorkerDies(q)
  BY <1>3, PromiseScores, PromiseDecides, PromiseWaits, RevisingIsNext
<1>4. CASE \/ \E p \in Submitters : ClaimSubmit(p) \/ SubmitterDies(p)
           \/ \E p \in Enqueuers : SubmitStep(p)
  BY <1>4, PromiseSubmits, RevisingIsNext DEF Enqueuers
<1>5. CASE RetryRead \/ RetryWrite
  BY <1>5, PromiseAsks, PromiseReopens, RevisingIsNext
<1> QED
  BY <1>1, <1>2, <1>3, <1>4, <1>5, PromiseAnswers, RevisingIsNext DEF Next

\* For every number of questions, uploads, retries and deaths, a mock is an Interview:
\* no answer is taken after it was handed in, a result consists of scores of answers, and
\* as long as nobody has asked for a retry it stays as it was decided.
THEOREM InterviewImplemented == Spec => Promise!Init /\ ImplementsInterview
<1>1. Types /\ Submission /\ Traced /\ (retries = 0 => OneWriter) /\ [Next]_vars
        => [Promise!RevisingNext]_(Promise!interviewVars)
  BY PromiseStep
<1> QED
  BY OneWriterAlways, PromiseInit, <1>1, PTL
     DEF Spec, ImplementsInterview, Promise!RevisingSteps
=============================================================================
