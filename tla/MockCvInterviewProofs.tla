------------------------ MODULE MockCvInterviewProofs ------------------------
(* Theorems about MockCvInterview, for every set of questions, and with any   *)
(* number of retries and faults.                                              *)
EXTENDS MockCvInterview, TLAPS

-----------------------------------------------------------------------------
(* Types.                                                                    *)

Requests == {Submitter, Retrier}

MockOK ==
  /\ status \in {"IN_PROGRESS", "SCORING", "SUBMITTED", "SCORED"}
  /\ overview \in {"PENDING", "GENERATED", "FALLBACK", "FAILED"}
  /\ summary \in SUBSET Questions
  /\ stale \in BOOLEAN

ItemOK ==
  /\ answered \in SUBSET Questions
  /\ scoring \in [Questions -> {"PENDING", "QUEUED", "SCORED", "FAILED", "SKIPPED"}]
  /\ scored \in SUBSET Questions

Places == {"idle", "claimed", "read", "enqueue", "provider", "mark", "check", "claim",
           "queue", "give_up", "leaving"}

ActorOK ==
  /\ at \in [Actors -> Places]
  /\ ok \in [Questions -> BOOLEAN]
  /\ todo \in [Requests -> SUBSET Questions]
  /\ job \in [Questions -> {"none", "waiting", "active", "failed"}]

OverviewOK ==
  /\ oJob \in {"none", "waiting", "active", "failed"}
  /\ oAt \in {"idle", "write", "settle"}
  /\ oSeen \in SUBSET Questions
  /\ failing \in BOOLEAN

BoundOK == retries \in 0..MaxRetries /\ faults \in 0..MaxFaults

HistoryOK == overtaken \in BOOLEAN

Types == MockOK /\ ItemOK /\ ActorOK /\ OverviewOK /\ BoundOK /\ HistoryOK

LEMMA TypeParts == Types => TypeOK
  BY DEF Types, TypeOK, MockOK, ItemOK, ActorOK, OverviewOK, BoundOK, HistoryOK, Places,
         Requests

\* Three kinds of actors, and no one is of two.
LEMMA ActorKinds ==
  /\ Submitter \in Actors /\ Retrier \in Actors /\ Retrier \in Carriers
  /\ Submitter \in Requests /\ Retrier \in Requests /\ Submitter # Retrier
  /\ \A q \in Questions : /\ q \in Actors /\ q \in Carriers
                          /\ q # Submitter /\ q # Retrier
  /\ \A c \in Carriers : c \in Actors /\ c # Submitter /\ (c \in Questions \/ c = Retrier)
  BY InterviewAssumption DEF Actors, Carriers, Requests

LEMMA TypeInit == Init => Types
<1> SUFFICES ASSUME Init PROVE Types
  OBVIOUS
<1>1. MockOK /\ ItemOK /\ OverviewOK /\ HistoryOK
  BY DEF Init, MockOK, ItemOK, OverviewOK, HistoryOK
<1>2. ActorOK
  BY DEF Init, ActorOK, Places, Requests
<1>3. BoundOK
  BY InterviewAssumption DEF Init, BoundOK
<1> QED
  BY <1>1, <1>2, <1>3 DEF Types

\* What a step leaves alone keeps its type.
LEMMA TypeStays ==
  ASSUME Types
  PROVE  /\ UNCHANGED mockVars => MockOK'
         /\ UNCHANGED itemVars => ItemOK'
         /\ UNCHANGED actorVars => ActorOK'
         /\ UNCHANGED overviewVars => OverviewOK'
         /\ UNCHANGED boundVars => BoundOK'
         /\ UNCHANGED overtaken => HistoryOK'
  BY DEF Types, MockOK, ItemOK, ActorOK, OverviewOK, BoundOK, HistoryOK, mockVars, itemVars,
         actorVars, overviewVars, boundVars

LEMMA GoType ==
  ASSUME Types, NEW x \in Actors, NEW place \in Places, Go(x, place)
  PROVE  ActorOK'
  BY DEF Types, ActorOK, Go

LEMMA WaitType ==
  ASSUME Types, NEW qs \in SUBSET Questions, Wait(qs)
  PROVE  /\ job' \in [Questions -> {"none", "waiting", "active", "failed"}]
         /\ HistoryOK'
  BY DEF Types, ActorOK, HistoryOK, Wait

LEMMA SubmitType ==
  ASSUME Types, \/ Submit \/ QueueAnswered
                \/ \E q \in Questions : Answer(q)
                \/ \E x \in Requests : EnqueueScores(x) \/ RequestDies(x)
  PROVE  Types'
<1>1. CASE Submit
  <2>1. ItemOK'
    BY <1>1 DEF Submit, Types, ItemOK
  <2>2. ActorOK'
    BY <1>1, GoType, ActorKinds DEF Submit, Places
  <2>3. MockOK'
    BY <1>1 DEF Submit, Types, MockOK
  <2> QED
    BY <1>1, <2>1, <2>2, <2>3, TypeStays DEF Submit, Types
<1>2. CASE QueueAnswered
  <2>1. ItemOK'
    BY <1>2 DEF QueueAnswered, Types, ItemOK
  <2>2. ActorOK'
    BY <1>2, ActorKinds DEF QueueAnswered, Types, ActorOK, ItemOK, Places
  <2>3. MockOK'
    BY <1>2 DEF QueueAnswered, Types, MockOK
  <2> QED
    BY <1>2, <2>1, <2>2, <2>3, TypeStays DEF QueueAnswered, Types
<1>3. ASSUME NEW q \in Questions, Answer(q) PROVE Types'
  <2>1. ItemOK'
    BY <1>3 DEF Answer, Types, ItemOK
  <2> QED
    BY <1>3, <2>1, TypeStays DEF Answer, Types
<1>4. ASSUME NEW x \in Requests, EnqueueScores(x) PROVE Types'
  <2>1. \A sent \in SUBSET todo[x] :
          {q \in sent : job[q] \in {"none", "failed"}} \in SUBSET Questions
    BY <1>4 DEF Types, ActorOK
  <2>2. /\ job' \in [Questions -> {"none", "waiting", "active", "failed"}]
        /\ HistoryOK'
    BY <1>4, <2>1, WaitType DEF EnqueueScores
  <2>3. ActorOK'
    BY <1>4, <2>2 DEF EnqueueScores, Types, ActorOK, Places
  <2> QED
    BY <1>4, <2>2, <2>3, TypeStays DEF EnqueueScores, Types, mockVars, itemVars
<1>5. ASSUME NEW x \in Requests, RequestDies(x) PROVE Types'
  <2>1. ActorOK'
    BY <1>5 DEF RequestDies, Types, ActorOK, Places
  <2>2. BoundOK'
    BY <1>5, InterviewAssumption DEF RequestDies, Fault, Types, BoundOK
  <2> QED
    BY <1>5, <2>1, <2>2, TypeStays DEF RequestDies, Types
<1> QED
  BY <1>1, <1>2, <1>3, <1>4, <1>5

LEMMA ScoreType ==
  ASSUME Types, NEW q \in Questions,
         \/ StartScore(q) \/ Score(q) \/ Mark(q) \/ Check(q) \/ Claim(q) \/ EndScore(q)
         \/ WorkerFails(q)
  PROVE  Types'
<1> USE ActorKinds
<1>1. CASE StartScore(q)
  <2>1. ActorOK'
    BY <1>1 DEF StartScore, Types, ActorOK, Places
  <2> QED
    BY <1>1, <2>1, TypeStays DEF StartScore, Types
<1>2. CASE Score(q)
  <2>1. ActorOK'
    BY <1>2 DEF Score, Types, ActorOK, Places
  <2>2. ItemOK'
    BY <1>2 DEF Score, Types, ItemOK
  <2> QED
    BY <1>2, <2>1, <2>2, TypeStays DEF Score, Types
<1>3. CASE Mark(q)
  <2>1. ActorOK'
    BY <1>3, GoType DEF Mark, Places
  <2>2. ItemOK'
    BY <1>3 DEF Mark, Types, ItemOK
  <2> QED
    BY <1>3, <2>1, <2>2, TypeStays DEF Mark, Types
<1>4. CASE Check(q)
  <2>1. ActorOK'
    BY <1>4, GoType DEF Check, Places
  <2> QED
    BY <1>4, <2>1, TypeStays DEF Check, Types
<1>5. CASE Claim(q)
  <2>1. ActorOK'
    BY <1>5, GoType DEF Claim, Places
  <2>2. MockOK'
    BY <1>5 DEF Claim, Types, MockOK
  <2> QED
    BY <1>5, <2>1, <2>2, TypeStays DEF Claim, Types
<1>6. CASE EndScore(q)
  <2>1. ActorOK'
    BY <1>6 DEF EndScore, Types, ActorOK, Places
  <2> QED
    BY <1>6, <2>1, TypeStays DEF EndScore, Types
<1>7. CASE WorkerFails(q)
  <2>1. /\ job' \in [Questions -> {"none", "waiting", "active", "failed"}]
        /\ HistoryOK'
    BY <1>7, WaitType DEF WorkerFails, Types, ActorOK, HistoryOK
  <2>2. ActorOK'
    BY <1>7, <2>1 DEF WorkerFails, Types, ActorOK, Places
  <2>3. BoundOK'
    BY <1>7, InterviewAssumption DEF WorkerFails, Fault, Types, BoundOK
  <2> QED
    BY <1>7, <2>1, <2>2, <2>3, TypeStays DEF WorkerFails, Types
<1> QED
  BY <1>1, <1>2, <1>3, <1>4, <1>5, <1>6, <1>7

LEMMA OverviewType ==
  ASSUME Types, \/ OverviewStep \/ MarkFailed \/ OverviewFails
                \/ \E c \in Carriers : CarryStep(c)
  PROVE  Types'
<1>1. CASE OverviewStep
  <2>1. OverviewOK'
    BY <1>1
       DEF OverviewStep, StartOverview, WriteOverview, SettleOverview, EndOverview,
           OverviewThrows, Types, OverviewOK, ItemOK
  <2>2. MockOK'
    BY <1>1, TypeStays
       DEF OverviewStep, StartOverview, WriteOverview, SettleOverview, Types, OverviewOK,
           MockOK
  <2> QED
    BY <1>1, <2>1, <2>2, TypeStays
       DEF OverviewStep, StartOverview, WriteOverview, SettleOverview, Types
<1>2. CASE MarkFailed
  <2>1. MockOK' /\ OverviewOK'
    BY <1>2 DEF MarkFailed, Types, MockOK, OverviewOK
  <2> QED
    BY <1>2, <2>1, TypeStays DEF MarkFailed, Types
<1>3. CASE OverviewFails
  <2>1. OverviewOK'
    BY <1>3 DEF OverviewFails, OverviewThrows, Types, OverviewOK
  <2>2. BoundOK'
    BY <1>3, InterviewAssumption DEF OverviewFails, Fault, Types, BoundOK
  <2> QED
    BY <1>3, <2>1, <2>2, TypeStays DEF OverviewFails, Types
<1>4. ASSUME NEW c \in Carriers, QueueOverview(c) PROVE Types'
  <2>1. c \in Actors /\ Over(c) \in Places /\ "give_up" \in Places
    BY ActorKinds DEF Over, Places
  <2>2. ActorOK'
    BY <1>4, <2>1, GoType DEF QueueOverview
  <2>3. OverviewOK'
    BY <1>4 DEF QueueOverview, Types, OverviewOK
  <2> QED
    BY <1>4, <2>2, <2>3, TypeStays DEF QueueOverview, Types
<1>5. ASSUME NEW c \in Carriers, GiveUp(c) PROVE Types'
  <2>1. c \in Actors /\ Over(c) \in Places
    BY ActorKinds DEF Over, Places
  <2>2. ActorOK'
    BY <1>5, <2>1, GoType DEF GiveUp
  <2>3. MockOK'
    BY <1>5 DEF GiveUp, Types, MockOK
  <2> QED
    BY <1>5, <2>2, <2>3, TypeStays DEF GiveUp, Types
<1> QED
  BY <1>1, <1>2, <1>3, <1>4, <1>5 DEF CarryStep

LEMMA RetryType ==
  ASSUME Types, BecomeStale \/ RetryRead \/ RetryWrite \/ UNCHANGED vars
  PROVE  Types'
<1>1. CASE BecomeStale
  <2>1. MockOK'
    BY <1>1 DEF BecomeStale, Types, MockOK
  <2> QED
    BY <1>1, <2>1, TypeStays DEF BecomeStale, Types
<1>2. CASE RetryRead
  <2>1. ActorOK'
    BY <1>2, ActorKinds DEF RetryRead, Types, ActorOK, Places
  <2>2. BoundOK'
    BY <1>2, InterviewAssumption DEF RetryRead, Types, BoundOK
  <2> QED
    BY <1>2, <2>1, <2>2, TypeStays DEF RetryRead, Types
<1>3. CASE RetryWrite
  <2>1. MockOK'
    BY <1>3 DEF RetryWrite, Types, MockOK
  <2>2. ItemOK'
    BY <1>3 DEF RetryWrite, Types, ItemOK
  <2>3. ActorOK'
    BY <1>3, ActorKinds, GoType DEF RetryWrite, Places
  <2>4. HistoryOK'
    BY <1>3 DEF RetryWrite, Types, HistoryOK
  <2> QED
    BY <1>3, <2>1, <2>2, <2>3, <2>4, TypeStays DEF RetryWrite, Types
<1>4. CASE UNCHANGED vars
  BY <1>4, TypeStays DEF vars, Types
<1> QED
  BY <1>1, <1>2, <1>3, <1>4

LEMMA TypeStep == Types /\ [Next]_vars => Types'
  BY SubmitType, ScoreType, OverviewType, RetryType, ActorKinds
     DEF Next, SubmitStep, ScoreStep, RetryStep, Requests

\* The type invariant, for every instance.
THEOREM TypeCorrect == Spec => []TypeOK
  BY TypeInit, TypeStep, TypeParts, PTL DEF Spec

-----------------------------------------------------------------------------
(* Who is at work.                                                           *)

\* Before it is handed in nothing is scored, queued or under way.
Asleep ==
  status = "IN_PROGRESS" =>
    /\ summary = {} /\ scored = {}
    /\ \A x \in Actors : at[x] = "idle"
    /\ \A q \in Questions : scoring[q] = "PENDING" /\ job[q] = "none"

\* Until the submitter has queued the answers that is still so, but for the claim.
Claimed ==
  at[Submitter] = "claimed" =>
    /\ status = "SCORING" /\ summary = {} /\ scored = {}
    /\ at[Retrier] = "idle"
    /\ \A q \in Questions : /\ at[q] = "idle" /\ job[q] = "none"
                            /\ scoring[q] = IF q \in answered THEN "PENDING" ELSE "SKIPPED"

\* The worker of a question is at work while its job is active.
Working == \A q \in Questions : at[q] # "idle" <=> job[q] = "active"

\* Only an interview that waits for its overview has lost it.
FailedIsSubmitted == overview = "FAILED" => status = "SUBMITTED"

\* A retry of the overview was decided when no question was to be scored.
RetryOfOverview ==
  at[Retrier] = "read" /\ todo[Retrier] = {} => status \in {"SUBMITTED", "SCORED"}

Base == Asleep /\ Claimed /\ Working /\ FailedIsSubmitted /\ RetryOfOverview

LEMMA BaseInit == Init => Base
<1> SUFFICES ASSUME Init PROVE Base
  OBVIOUS
<1>1. Asleep /\ Working
  BY ActorKinds DEF Init, Asleep, Working
<1>2. Claimed /\ FailedIsSubmitted /\ RetryOfOverview
  BY ActorKinds DEF Init, Claimed, FailedIsSubmitted, RetryOfOverview
<1> QED
  BY <1>1, <1>2 DEF Base

\* A job or a request that is at work is at work on an interview that was handed in, and
\* after the submitter has queued its answers.
LEMMA AtWork ==
  ASSUME Types, Base,
         \/ at[Retrier] # "idle"
         \/ \E q \in Questions : at[q] # "idle" \/ job[q] # "none"
  PROVE  status # "IN_PROGRESS" /\ at[Submitter] # "claimed"
<1>1. status # "IN_PROGRESS"
  BY ActorKinds DEF Base, Asleep
<1>2. at[Submitter] # "claimed"
  BY DEF Base, Claimed
<1> QED
  BY <1>1, <1>2

LEMMA BaseAnswer ==
  ASSUME Types, Base, NEW q \in Questions, Answer(q)
  PROVE  Base'
<1>1. status = "IN_PROGRESS" /\ at[Submitter] = "idle"
  BY ActorKinds DEF Answer, Base, Asleep
<1>2. UNCHANGED <<mockVars, scoring, scored, actorVars>>
  BY DEF Answer
<1> QED
  BY <1>1, <1>2
     DEF mockVars, actorVars, Base, Asleep, Claimed, Working, FailedIsSubmitted,
         RetryOfOverview

LEMMA BaseSubmit ==
  ASSUME Types, Base, Submit
  PROVE  Base'
<1> USE DEF Types, ActorOK, ItemOK, Submit, Go
<1>1. /\ summary = {} /\ scored = {}
      /\ \A x \in Actors : at[x] = "idle"
      /\ \A q \in Questions : scoring[q] = "PENDING" /\ job[q] = "none"
  BY DEF Base, Asleep
<1>2. \A x \in Actors \ {Submitter} : at'[x] = "idle"
  BY <1>1, ActorKinds
<1>3. Asleep' /\ FailedIsSubmitted'
  BY DEF Asleep, FailedIsSubmitted
<1>4. \A q \in Questions : /\ job'[q] = "none"
                           /\ scoring'[q] = IF q \in answered' THEN "PENDING" ELSE "SKIPPED"
  BY <1>1
<1>5. Claimed' /\ RetryOfOverview' /\ Working'
  BY <1>1, <1>2, <1>4, ActorKinds DEF Claimed, RetryOfOverview, Working
<1> QED
  BY <1>3, <1>5 DEF Base

LEMMA BaseQueueAnswered ==
  ASSUME Types, Base, QueueAnswered
  PROVE  Base'
<1> USE DEF Types, ActorOK, ItemOK, QueueAnswered
<1>1. /\ status = "SCORING" /\ at[Retrier] = "idle"
      /\ \A q \in Questions : at[q] = "idle" /\ job[q] = "none"
  BY DEF Base, Claimed
<1>2. /\ at'[Submitter] = "enqueue" /\ UNCHANGED job
      /\ \A x \in Actors \ {Submitter} : at'[x] = at[x]
  BY ActorKinds
<1>3. status' \in {"SCORING", "SCORED"} /\ (overview' = overview \/ overview' = "FALLBACK")
  BY <1>1
<1>4. Asleep' /\ Claimed'
  BY <1>2, <1>3 DEF Asleep, Claimed
<1>5. FailedIsSubmitted'
  BY <1>1, <1>3 DEF Base, FailedIsSubmitted
<1>6. Working' /\ RetryOfOverview'
  BY <1>1, <1>2, ActorKinds DEF Working, RetryOfOverview
<1> QED
  BY <1>4, <1>5, <1>6 DEF Base

LEMMA BaseEnqueueScores ==
  ASSUME Types, Base, NEW x \in Requests, EnqueueScores(x)
  PROVE  Base'
<1> USE DEF Types, ActorOK, EnqueueScores
<1>1. x \in Actors /\ x \notin Questions /\ at[x] = "enqueue"
  BY ActorKinds DEF Requests
<1>2. status # "IN_PROGRESS" /\ at[Submitter] # "claimed"
  <2>1. status # "IN_PROGRESS"
    BY <1>1 DEF Base, Asleep
  <2>2. x = Submitter \/ x = Retrier
    BY DEF Requests
  <2> QED
    BY <1>1, <2>1, <2>2 DEF Base, Claimed
<1>3. /\ at'[x] = "idle" /\ \A y \in Actors \ {x} : at'[y] = at[y]
      /\ \A y \in Requests : todo'[y] = todo[y] \/ at'[y] = "idle"
  BY <1>1, ActorKinds DEF Requests
<1>4. \A q \in Questions : job'[q] = "active" <=> job[q] = "active"
  BY DEF Wait
<1>5. UNCHANGED <<status, overview>>
  BY DEF mockVars
<1>6. Asleep' /\ Claimed'
  BY <1>2, <1>3, <1>5, ActorKinds DEF Asleep, Claimed
<1>7. Working'
  BY <1>1, <1>3, <1>4, ActorKinds DEF Base, Working
<1>8. FailedIsSubmitted' /\ RetryOfOverview'
  BY <1>3, <1>5, ActorKinds DEF Base, FailedIsSubmitted, RetryOfOverview
<1> QED
  BY <1>6, <1>7, <1>8 DEF Base

LEMMA BaseRequestDies ==
  ASSUME Types, Base, NEW x \in Requests, RequestDies(x)
  PROVE  Base'
<1> USE DEF Types, ActorOK, RequestDies
<1>1. x \in Actors /\ x \notin Questions
  BY ActorKinds DEF Requests
<1>2. /\ at'[x] = "idle" /\ \A y \in Actors \ {x} : at'[y] = at[y]
      /\ \A y \in Requests : todo'[y] = todo[y] \/ at'[y] = "idle"
  BY <1>1, ActorKinds DEF Requests
<1>3. UNCHANGED <<status, overview, summary, answered, scored, scoring, job>>
  BY DEF mockVars, itemVars
<1>4. Asleep' /\ Claimed'
  <2>1. \A y \in Actors : at'[y] = at[y] \/ at'[y] = "idle"
    BY <1>2
  <2> QED
    BY <2>1, <1>3, ActorKinds DEF Base, Asleep, Claimed
<1>5. Working'
  BY <1>1, <1>2, <1>3, ActorKinds DEF Base, Working
<1>6. FailedIsSubmitted' /\ RetryOfOverview'
  BY <1>2, <1>3, ActorKinds DEF Base, FailedIsSubmitted, RetryOfOverview
<1> QED
  BY <1>4, <1>5, <1>6 DEF Base

\* What a step after the submission has to respect.
LEMMA BaseKeeps ==
  ASSUME Types, Base, status # "IN_PROGRESS", at[Submitter] # "claimed",
         at'[Submitter] = at[Submitter],
         status' # "IN_PROGRESS",
         status \in {"SUBMITTED", "SCORED"} => status' \in {"SUBMITTED", "SCORED"},
         at'[Retrier] = "read" => at[Retrier] = "read" /\ todo'[Retrier] = todo[Retrier],
         Working', FailedIsSubmitted'
  PROVE  Base'
<1>1. Asleep' /\ Claimed'
  BY DEF Asleep, Claimed
<1>2. RetryOfOverview'
  BY DEF Base, RetryOfOverview
<1> QED
  BY <1>1, <1>2 DEF Base

LEMMA BaseScore ==
  ASSUME Types, Base, NEW q \in Questions,
         StartScore(q) \/ Score(q) \/ Mark(q) \/ Check(q) \/ Claim(q) \/ EndScore(q)
  PROVE  Base'
<1> USE DEF Types, ActorOK, Go
<1>0. q \in Actors /\ q # Submitter /\ q # Retrier
  BY ActorKinds
<1>1. at[q] # "idle" \/ job[q] # "none"
  BY DEF StartScore, Score, Mark, Check, Claim, EndScore
<1>2. status # "IN_PROGRESS" /\ at[Submitter] # "claimed"
  BY <1>1, AtWork
<1>3. /\ \A y \in Actors \ {q} : at'[y] = at[y]
      /\ \A r \in Questions \ {q} : job'[r] = job[r]
      /\ UNCHANGED <<overview, todo>>
  BY DEF StartScore, Score, Mark, Check, Claim, EndScore, mockVars
<1>4. status' = status \/ (status = "SCORING" /\ status' = "SUBMITTED")
  BY DEF StartScore, Score, Mark, Check, Claim, EndScore, mockVars
<1>5. at'[q] # "idle" <=> job'[q] = "active"
  <2>1. at[q] # "idle" <=> job[q] = "active"
    BY DEF Base, Working
  <2>2. CASE StartScore(q)
    BY <2>1, <2>2, <1>0 DEF StartScore
  <2>3. CASE Score(q)
    BY <2>1, <2>3, <1>0 DEF Score
  <2>4. CASE Mark(q) \/ Check(q) \/ Claim(q)
    BY <2>1, <2>4, <1>0 DEF Mark, Check, Claim
  <2>5. CASE EndScore(q)
    BY <2>5, <1>0 DEF EndScore
  <2> QED
    BY <2>2, <2>3, <2>4, <2>5
<1>6. Working'
  BY <1>0, <1>3, <1>5, ActorKinds DEF Base, Working
<1>7. FailedIsSubmitted'
  BY <1>3, <1>4 DEF Base, FailedIsSubmitted
<1>8. at'[Submitter] = at[Submitter] /\ at'[Retrier] = at[Retrier]
  BY <1>0, <1>3, ActorKinds
<1> QED
  BY <1>2, <1>3, <1>4, <1>6, <1>7, <1>8, BaseKeeps

LEMMA BaseWorkerFails ==
  ASSUME Types, Base, NEW q \in Questions, WorkerFails(q)
  PROVE  Base'
<1> USE DEF Types, ActorOK, WorkerFails
<1>0. q \in Actors /\ q # Submitter /\ q # Retrier
  BY ActorKinds
<1>1. status # "IN_PROGRESS" /\ at[Submitter] # "claimed"
  BY AtWork
<1>2. /\ \A y \in Actors \ {q} : at'[y] = at[y]
      /\ \A r \in Questions \ {q} : job'[r] = job[r]
      /\ UNCHANGED <<status, overview, todo>>
  BY DEF Wait, mockVars
<1>3. at'[q] # "idle" <=> job'[q] = "active"
  BY <1>0 DEF Wait
<1>4. Working'
  BY <1>0, <1>2, <1>3, ActorKinds DEF Base, Working
<1>5. FailedIsSubmitted'
  BY <1>2 DEF Base, FailedIsSubmitted
<1>6. at'[Submitter] = at[Submitter] /\ at'[Retrier] = at[Retrier]
  BY <1>0, <1>2, ActorKinds
<1> QED
  BY <1>1, <1>2, <1>4, <1>5, <1>6, BaseKeeps

LEMMA BaseCarry ==
  ASSUME Types, Base, NEW c \in Carriers, CarryStep(c)
  PROVE  Base'
<1> USE DEF Types, ActorOK, CarryStep, QueueOverview, GiveUp, Go
<1>0. c \in Actors /\ c # Submitter /\ (c \in Questions \/ c = Retrier)
  BY ActorKinds
<1>1. at[c] \in {"queue", "give_up"}
  OBVIOUS
<1>2. status # "IN_PROGRESS" /\ at[Submitter] # "claimed"
  BY <1>0, <1>1, AtWork
<1>3. /\ \A y \in Actors \ {c} : at'[y] = at[y]
      /\ at'[c] = "give_up" \/ at'[c] = Over(c)
      /\ UNCHANGED <<status, job, todo>>
  BY <1>0 DEF mockVars
<1>4. Working'
  <2>1. at'[c] # "read" /\ (c \in Questions => at'[c] # "idle")
    BY <1>3, ActorKinds DEF Over
  <2>2. c \in Questions => at[c] # "idle" /\ at'[c] # "idle"
    BY <1>1, <2>1
  <2> QED
    BY <1>3, <2>2, ActorKinds DEF Base, Working
<1>5. FailedIsSubmitted'
  BY DEF Base, FailedIsSubmitted, mockVars
<1>6. at'[Submitter] = at[Submitter]
  BY <1>0, <1>3, ActorKinds
<1>7. at'[Retrier] = "read" => at[Retrier] = "read"
  BY <1>3, ActorKinds DEF Over
<1> QED
  BY <1>2, <1>3, <1>4, <1>5, <1>6, <1>7, BaseKeeps

LEMMA BaseOverview ==
  ASSUME Types, Base, OverviewStep \/ MarkFailed \/ OverviewFails \/ BecomeStale
  PROVE  Base'
<1>1. UNCHANGED <<at, job, todo, answered, scoring, scored>>
  BY DEF OverviewStep, StartOverview, WriteOverview, SettleOverview, MarkFailed,
         OverviewFails, BecomeStale, actorVars, itemVars
<1>2. \/ UNCHANGED <<status, summary>> /\ (overview' = "FAILED" => status = "SUBMITTED")
      \/ status = "SUBMITTED" /\ status' = "SCORED" /\ overview' # "FAILED"
  BY DEF OverviewStep, StartOverview, WriteOverview, SettleOverview, MarkFailed,
         OverviewFails, BecomeStale, mockVars, Base, FailedIsSubmitted
<1>3. Asleep' /\ Claimed'
  <2>1. status = "SUBMITTED" => at[Submitter] # "claimed"
    BY DEF Base, Claimed
  <2> QED
    BY <1>1, <1>2, <2>1 DEF Base, Asleep, Claimed
<1>4. Working'
  BY <1>1 DEF Base, Working
<1>5. FailedIsSubmitted'
  BY <1>2 DEF FailedIsSubmitted
<1>6. RetryOfOverview'
  BY <1>1, <1>2 DEF Base, RetryOfOverview
<1> QED
  BY <1>3, <1>4, <1>5, <1>6 DEF Base

LEMMA BaseRetryRead ==
  ASSUME Types, Base, RetryRead
  PROVE  Base'
<1> USE DEF Types, ActorOK, RetryRead
<1>1. status # "IN_PROGRESS" /\ UNCHANGED <<status, overview, summary, scored, scoring, job>>
  BY DEF mockVars, itemVars
<1>2. at'[Retrier] = "read" /\ \A y \in Actors \ {Retrier} : at'[y] = at[y]
  BY ActorKinds
<1>3. todo'[Retrier] = {q \in Questions : CanRetry(q, stale)}
  BY ActorKinds
<1>4. at[Submitter] # "claimed"
  <2> SUFFICES ASSUME at[Submitter] = "claimed" PROVE FALSE
    OBVIOUS
  <2>1. status = "SCORING" /\ \A q \in Questions : scoring[q] \in {"PENDING", "SKIPPED"}
    BY DEF Base, Claimed
  <2>2. \A q \in Questions : ~ CanRetry(q, stale)
    BY <2>1 DEF CanRetry
  <2>3. ~ CanRetryOverview(stale)
    BY <2>1 DEF Base, FailedIsSubmitted, CanRetryOverview
  <2> QED
    BY <2>2, <2>3
<1>5. Asleep' /\ Claimed'
  BY <1>1, <1>2, <1>4, ActorKinds DEF Asleep, Claimed
<1>6. Working'
  BY <1>1, <1>2, ActorKinds DEF Base, Working
<1>7. FailedIsSubmitted'
  BY <1>1 DEF Base, FailedIsSubmitted
<1>8. RetryOfOverview'
  BY <1>1, <1>3 DEF RetryOfOverview, Base, FailedIsSubmitted, CanRetryOverview
<1> QED
  BY <1>5, <1>6, <1>7, <1>8 DEF Base

LEMMA BaseRetryWrite ==
  ASSUME Types, Base, RetryWrite
  PROVE  Base'
<1> USE DEF Types, ActorOK, RetryWrite, Go
<1>1. status # "IN_PROGRESS" /\ at[Submitter] # "claimed"
  BY AtWork
<1>2. /\ at'[Retrier] \in {"queue", "enqueue"} /\ UNCHANGED job
      /\ \A y \in Actors \ {Retrier} : at'[y] = at[y]
  BY ActorKinds
<1>3. status' # "IN_PROGRESS" /\ overview' = "PENDING"
  OBVIOUS
<1>4. Asleep' /\ Claimed'
  BY <1>1, <1>2, <1>3, ActorKinds DEF Asleep, Claimed
<1>5. Working'
  BY <1>2, ActorKinds DEF Base, Working
<1>6. FailedIsSubmitted' /\ RetryOfOverview'
  BY <1>2, <1>3 DEF FailedIsSubmitted, RetryOfOverview
<1> QED
  BY <1>4, <1>5, <1>6 DEF Base

LEMMA BaseStep == Types /\ Base /\ [Next]_vars => Base'
<1> SUFFICES ASSUME Types, Base, [Next]_vars PROVE Base'
  OBVIOUS
<1>1. CASE UNCHANGED vars
  BY <1>1
     DEF vars, mockVars, itemVars, actorVars, Base, Asleep, Claimed, Working,
         FailedIsSubmitted, RetryOfOverview
<1> QED
  BY <1>1, BaseAnswer, BaseSubmit, BaseQueueAnswered, BaseEnqueueScores, BaseRequestDies,
     BaseScore, BaseWorkerFails, BaseCarry, BaseOverview, BaseRetryRead, BaseRetryWrite,
     ActorKinds
     DEF Next, SubmitStep, ScoreStep, RetryStep, Requests

-----------------------------------------------------------------------------
(* What the result is computed from.                                         *)

\* Whoever decides a result, or is about to, has every question at its end.
AllMarked ==
  \/ status \in {"SUBMITTED", "SCORED"}
  \/ \E q \in Questions : at[q] = "claim"
  => \A q \in Questions : scoring[q] \in Terminal

\* A question that is to be scored, or is being scored, is not at its end.
StillOpen ==
  \A q \in Questions : job[q] = "waiting" \/ at[q] = "provider" => scoring[q] \notin Terminal

\* The overview is written from all the scores, and the result was.
FromAllScores ==
  /\ oAt = "write" => status = "SUBMITTED" /\ oSeen = scored
  /\ status = "SCORED" => summary = scored

\* All that, as long as no retry has scored a question again behind a decision.
Decided == ~ overtaken => AllMarked /\ StillOpen /\ FromAllScores

LEMMA DecidedInit == Init => Decided
  BY ActorKinds DEF Init, Decided, AllMarked, StillOpen, FromAllScores

LEMMA DecidedRequests ==
  ASSUME Types, Base, Decided,
         \/ Submit \/ QueueAnswered
         \/ \E q \in Questions : Answer(q)
         \/ \E x \in Requests : EnqueueScores(x) \/ RequestDies(x)
  PROVE  Decided'
<1> SUFFICES ASSUME ~ overtaken' PROVE AllMarked' /\ StillOpen' /\ FromAllScores'
  BY DEF Decided
<1> USE DEF Types, ActorOK, ItemOK, OverviewOK, Go
<1>1. CASE Submit
  <2>1. ~ overtaken /\ status = "IN_PROGRESS" /\ status' = "SCORING"
    BY <1>1 DEF Submit
  <2>2. \A q \in Questions : at'[q] = "idle" /\ job'[q] = "none"
    BY <1>1, <2>1, ActorKinds DEF Submit, Base, Asleep
  <2>3. oAt' # "write"
    BY <1>1, <2>1 DEF Submit, Decided, FromAllScores, overviewVars
  <2> QED
    BY <2>1, <2>2, <2>3 DEF AllMarked, StillOpen, FromAllScores
<1>2. CASE QueueAnswered
  <2>1. /\ ~ overtaken /\ status = "SCORING" /\ summary = {} /\ scored = {}
        /\ \A q \in Questions : /\ at[q] = "idle" /\ job[q] = "none"
                                /\ q \notin answered => scoring[q] = "SKIPPED"
    BY <1>2 DEF QueueAnswered, Base, Claimed
  <2>2. \A q \in Questions : at'[q] = "idle" /\ job'[q] = "none"
    BY <1>2, <2>1, ActorKinds DEF QueueAnswered
  <2>3. oAt' # "write"
    BY <1>2, <2>1 DEF QueueAnswered, Decided, FromAllScores, overviewVars
  <2>4. StillOpen'
    BY <2>2 DEF StillOpen
  <2>5. UNCHANGED <<summary, scored>>
    BY <1>2 DEF QueueAnswered
  <2>6. CASE answered = {}
    <3>1. \A q \in Questions : scoring'[q] \in Terminal
      BY <1>2, <2>1, <2>6 DEF QueueAnswered, Terminal
    <3> QED
      BY <2>1, <2>3, <2>4, <2>5, <3>1 DEF AllMarked, FromAllScores
  <2>7. CASE answered # {}
    <3>1. status' = "SCORING"
      BY <1>2, <2>1, <2>7 DEF QueueAnswered
    <3> QED
      BY <2>2, <2>3, <2>4, <3>1 DEF AllMarked, FromAllScores
  <2> QED
    BY <2>6, <2>7
<1>3. ASSUME NEW q \in Questions, Answer(q)
      PROVE  AllMarked' /\ StillOpen' /\ FromAllScores'
  BY <1>3
     DEF Answer, Decided, AllMarked, StillOpen, FromAllScores, mockVars, actorVars,
         overviewVars
<1>4. ASSUME NEW x \in Requests, EnqueueScores(x)
      PROVE  AllMarked' /\ StillOpen' /\ FromAllScores'
  <2>0. x \notin Questions /\ x \in Actors
    BY ActorKinds DEF Requests
  <2>1. \A q \in Questions : at'[q] = at[q]
    BY <1>4, <2>0, ActorKinds DEF EnqueueScores
  <2>2. /\ ~ overtaken
        /\ \A q \in Questions : \/ job'[q] = job[q]
                                \/ scoring[q] \notin Terminal
    BY <1>4 DEF EnqueueScores, Wait
  <2>3. UNCHANGED <<status, summary, scoring, scored, oAt, oSeen>>
    BY <1>4 DEF EnqueueScores, mockVars, itemVars, overviewVars
  <2> QED
    BY <2>1, <2>2, <2>3 DEF Decided, AllMarked, StillOpen, FromAllScores
<1>5. ASSUME NEW x \in Requests, RequestDies(x)
      PROVE  AllMarked' /\ StillOpen' /\ FromAllScores'
  <2>0. x \notin Questions /\ x \in Actors
    BY ActorKinds DEF Requests
  <2>1. \A q \in Questions : at'[q] = at[q]
    BY <1>5, <2>0, ActorKinds DEF RequestDies
  <2>2. UNCHANGED <<overtaken, status, summary, scoring, scored, job, oAt, oSeen>>
    BY <1>5 DEF RequestDies, mockVars, itemVars, overviewVars
  <2> QED
    BY <2>1, <2>2 DEF Decided, AllMarked, StillOpen, FromAllScores
<1> QED
  BY <1>1, <1>2, <1>3, <1>4, <1>5

\* A step of the worker of a question.
LEMMA DecidedScore ==
  ASSUME Types, Base, Decided, NEW q \in Questions,
         \/ StartScore(q) \/ Score(q) \/ Mark(q) \/ Check(q) \/ Claim(q) \/ EndScore(q)
         \/ WorkerFails(q)
  PROVE  Decided'
<1> SUFFICES ASSUME ~ overtaken' PROVE AllMarked' /\ StillOpen' /\ FromAllScores'
  BY DEF Decided
<1> USE DEF Types, ActorOK, ItemOK, Go
<1>0. q \in Actors
  BY ActorKinds
<1>1. ~ overtaken
  BY DEF StartScore, Score, Mark, Check, Claim, EndScore, WorkerFails, Wait
<1>2. AllMarked /\ StillOpen /\ FromAllScores
  BY <1>1 DEF Decided
<1>3. \A r \in Questions \ {q} : UNCHANGED <<at[r], job[r], scoring[r]>>
  BY ActorKinds
     DEF StartScore, Score, Mark, Check, Claim, EndScore, WorkerFails, Wait, itemVars
<1>4. UNCHANGED <<summary, oAt, oSeen>>
  BY DEF StartScore, Score, Mark, Check, Claim, EndScore, WorkerFails, mockVars, overviewVars
<1>5. CASE StartScore(q)
  <2>1. UNCHANGED <<status, scoring, scored>>
    BY <1>5 DEF StartScore, mockVars, itemVars
  <2>2. scoring[q] \notin Terminal /\ at'[q] # "claim"
    <3>1. at[q] = "idle"
      BY <1>5 DEF StartScore, Base, Working
    <3> QED
      BY <1>0, <1>2, <1>5, <3>1 DEF StartScore, StillOpen
  <2> QED
    BY <1>2, <1>3, <1>4, <2>1, <2>2 DEF AllMarked, StillOpen, FromAllScores
<1>6. CASE Score(q)
  <2>1. UNCHANGED <<status, scoring, job>> /\ at'[q] = "mark" /\ at[q] = "provider"
    BY <1>0, <1>6 DEF Score, mockVars
  <2>2. status \notin {"SUBMITTED", "SCORED"} /\ \A r \in Questions : at[r] # "claim"
    BY <1>2, <2>1 DEF AllMarked, StillOpen
  <2> QED
    BY <1>2, <1>3, <1>4, <2>1, <2>2 DEF AllMarked, StillOpen, FromAllScores
<1>7. CASE Mark(q)
  <2>1. /\ UNCHANGED <<status, scored, job>> /\ at'[q] = "check"
        /\ scoring'[q] \in Terminal /\ job[q] = "active"
    BY <1>0, <1>7 DEF Mark, mockVars, Terminal, Base, Working
  <2> QED
    BY <1>2, <1>3, <1>4, <2>1 DEF AllMarked, StillOpen, FromAllScores
<1>8. CASE Check(q)
  <2>1. UNCHANGED <<status, scoring, scored, job>> /\ at'[q] # "provider"
    BY <1>0, <1>8 DEF Check, mockVars, itemVars
  <2>2. at'[q] = "claim" => \A r \in Questions : scoring[r] \in Terminal
    BY <1>0, <1>8 DEF Check
  <2> QED
    BY <1>2, <1>3, <1>4, <2>1, <2>2 DEF AllMarked, StillOpen, FromAllScores
<1>9. CASE Claim(q)
  <2>1. /\ UNCHANGED <<scoring, scored, job>> /\ at'[q] \in {"queue", "leaving"}
        /\ status' = status \/ (status = "SCORING" /\ status' = "SUBMITTED")
    BY <1>0, <1>9 DEF Claim, itemVars
  <2>2. \A r \in Questions : scoring[r] \in Terminal
    BY <1>2, <1>9 DEF Claim, AllMarked
  <2> QED
    BY <1>2, <1>3, <1>4, <2>1, <2>2 DEF AllMarked, StillOpen, FromAllScores
<1>10. CASE EndScore(q)
  <2>1. /\ UNCHANGED <<status, scoring, scored>> /\ at'[q] = "idle"
        /\ job'[q] \in {"none", "failed"}
    BY <1>0, <1>10 DEF EndScore, mockVars, itemVars
  <2> QED
    BY <1>2, <1>3, <1>4, <2>1 DEF AllMarked, StillOpen, FromAllScores
<1>11. CASE WorkerFails(q)
  <2>1. UNCHANGED <<status, scoring, scored>> /\ at'[q] \in {"idle", "mark", "leaving"}
    BY <1>0, <1>11 DEF WorkerFails, mockVars, itemVars
  <2>2. job'[q] = "waiting" => scoring[q] \notin Terminal
    BY <1>11 DEF WorkerFails, Wait
  <2> QED
    BY <1>2, <1>3, <1>4, <2>1, <2>2 DEF AllMarked, StillOpen, FromAllScores
<1> QED
  BY <1>5, <1>6, <1>7, <1>8, <1>9, <1>10, <1>11

\* A step of the overview, of whoever queues it, or of time.
LEMMA DecidedOverview ==
  ASSUME Types, Base, Decided,
         \/ OverviewStep \/ MarkFailed \/ OverviewFails \/ BecomeStale \/ RetryRead
         \/ \E c \in Carriers : CarryStep(c)
         \/ UNCHANGED vars
  PROVE  Decided'
<1> SUFFICES ASSUME ~ overtaken' PROVE AllMarked' /\ StillOpen' /\ FromAllScores'
  BY DEF Decided
<1> USE DEF Types, ActorOK
<1>1. ~ overtaken
  BY DEF OverviewStep, StartOverview, WriteOverview, SettleOverview, MarkFailed, OverviewFails,
         BecomeStale, RetryRead, CarryStep, QueueOverview, GiveUp, vars
<1>2. AllMarked /\ StillOpen /\ FromAllScores
  BY <1>1 DEF Decided
<1>3. CASE OverviewStep \/ MarkFailed \/ OverviewFails \/ BecomeStale
  <2>1. UNCHANGED <<at, job, scoring, scored>>
    BY <1>3
       DEF OverviewStep, StartOverview, WriteOverview, SettleOverview, MarkFailed,
           OverviewFails, BecomeStale, actorVars, itemVars
  <2>2. \/ UNCHANGED <<status, summary>>
        \/ status = "SUBMITTED" /\ status' = "SCORED" /\ summary' = scored
    BY <1>2, <1>3
       DEF OverviewStep, StartOverview, WriteOverview, SettleOverview, MarkFailed,
           OverviewFails, BecomeStale, mockVars, FromAllScores
  <2>3. \/ UNCHANGED <<status, oAt, oSeen>>
        \/ oAt' # "write"
        \/ UNCHANGED status /\ status = "SUBMITTED" /\ oSeen' = scored
    BY <1>3
       DEF OverviewStep, StartOverview, WriteOverview, SettleOverview, MarkFailed,
           OverviewFails, BecomeStale, EndOverview, OverviewThrows, mockVars, overviewVars
  <2> QED
    BY <1>2, <2>1, <2>2, <2>3 DEF AllMarked, StillOpen, FromAllScores
<1>4. CASE RetryRead
  <2>1. \A q \in Questions : at'[q] = at[q]
    BY <1>4, ActorKinds DEF RetryRead
  <2>2. UNCHANGED <<status, summary, scoring, scored, job, oAt, oSeen>>
    BY <1>4 DEF RetryRead, mockVars, itemVars, overviewVars
  <2> QED
    BY <1>2, <2>1, <2>2 DEF AllMarked, StillOpen, FromAllScores
<1>5. ASSUME NEW c \in Carriers, CarryStep(c)
      PROVE  AllMarked' /\ StillOpen' /\ FromAllScores'
  <2>1. \A x \in Actors : at'[x] = at[x] \/ at'[x] \notin {"claim", "provider"}
    BY <1>5, ActorKinds DEF CarryStep, QueueOverview, GiveUp, Go, Over
  <2>2. UNCHANGED <<status, summary, scoring, scored, job, oAt, oSeen>>
    BY <1>5
       DEF CarryStep, QueueOverview, GiveUp, Go, mockVars, itemVars, overviewVars
  <2> QED
    BY <1>2, <2>1, <2>2, ActorKinds DEF AllMarked, StillOpen, FromAllScores
<1>6. CASE UNCHANGED vars
  BY <1>2, <1>6
     DEF vars, mockVars, itemVars, actorVars, overviewVars, AllMarked, StillOpen,
         FromAllScores
<1> QED
  BY <1>3, <1>4, <1>5, <1>6

\* The retry writes over what it has read, unless a decision was under way.
LEMMA DecidedRetry ==
  ASSUME Types, Base, Decided, RetryWrite
  PROVE  Decided'
<1> SUFFICES ASSUME ~ overtaken' PROVE AllMarked' /\ StillOpen' /\ FromAllScores'
  BY DEF Decided
<1> USE DEF Types, ActorOK, ItemOK, RetryWrite, Go
<1>1. ~ overtaken /\ oAt # "write" /\ \A q \in Questions : at[q] # "claim"
  OBVIOUS
<1>2. AllMarked /\ StillOpen /\ FromAllScores
  BY <1>1 DEF Decided
<1>3. /\ UNCHANGED <<scored, job, oAt>>
      /\ \A q \in Questions : at'[q] = at[q]
  BY ActorKinds DEF overviewVars
<1>4. status' \in {"SCORING", "SUBMITTED"}
  OBVIOUS
<1>5. FromAllScores'
  BY <1>1, <1>3, <1>4 DEF FromAllScores
<1>6. CASE todo[Retrier] = {}
  <2>1. \A q \in Questions : scoring[q] \in Terminal
    BY <1>2, <1>6 DEF Base, RetryOfOverview, AllMarked
  <2>2. UNCHANGED scoring
    BY <1>6
  <2> QED
    BY <1>2, <1>3, <1>5, <2>1, <2>2 DEF AllMarked, StillOpen
<1>7. CASE todo[Retrier] # {}
  <2>1. status' = "SCORING"
    BY <1>7
  <2>2. \A q \in Questions : scoring'[q] = scoring[q] \/ scoring'[q] \notin Terminal
    BY <1>7 DEF Terminal
  <2> QED
    BY <1>1, <1>2, <1>3, <1>5, <2>1, <2>2 DEF AllMarked, StillOpen
<1> QED
  BY <1>6, <1>7

LEMMA DecidedStep == Types /\ Base /\ Decided /\ [Next]_vars => Decided'
<1> SUFFICES ASSUME Types, Base, Decided, [Next]_vars PROVE Decided'
  OBVIOUS
<1> QED
  BY DecidedRequests, DecidedScore, DecidedOverview, DecidedRetry, ActorKinds
     DEF Next, SubmitStep, ScoreStep, RetryStep, Requests

\* Through retries, dead workers and calls that throw: a result was computed from every
\* score there is and no answer waits for one, unless a retry scored a question again
\* while a worker of the round before was deciding.
THEOREM ResultCompleteAlways == Spec => []ResultComplete
<1>1. Decided => ResultComplete
  BY DEF Decided, AllMarked, FromAllScores, ResultComplete
<1> QED
  BY TypeInit, TypeStep, BaseInit, BaseStep, DecidedInit, DecidedStep, <1>1, PTL DEF Spec

\* No worker that gives up, and no late onFailed(), marks the overview of an interview
\* that has its result, or is scored again, as FAILED.
THEOREM FailedIsSubmittedAlways == Spec => []FailedIsSubmitted
<1>1. Base => FailedIsSubmitted
  BY DEF Base
<1> QED
  BY TypeInit, TypeStep, BaseInit, BaseStep, <1>1, PTL DEF Spec

-----------------------------------------------------------------------------
(* The interview a candidate sees.                                           *)

\* Whatever is scored, is to be scored or makes up a result was answered.
Grounded ==
  /\ scored \subseteq answered
  /\ summary \subseteq scored /\ oSeen \subseteq scored
  /\ \A q \in Questions : job[q] # "none" => q \in answered
  /\ \A x \in Requests : todo[x] \subseteq answered

LEMMA GroundedInit == Init => Grounded
  BY ActorKinds DEF Init, Grounded, Requests

LEMMA GroundedRequests ==
  ASSUME Types, Base, Grounded,
         \/ Submit \/ QueueAnswered \/ RetryRead \/ RetryWrite \/ BecomeStale
         \/ UNCHANGED vars
         \/ \E q \in Questions : Answer(q)
         \/ \E x \in Requests : EnqueueScores(x) \/ RequestDies(x)
  PROVE  Grounded'
<1> USE DEF Types, ActorOK, ItemOK
<1>1. CASE \/ BecomeStale \/ Submit \/ RetryWrite \/ UNCHANGED vars
           \/ \E q \in Questions : Answer(q)
  <2>1. /\ UNCHANGED <<scored, job, todo, oSeen>> /\ answered \subseteq answered'
        /\ summary' \in {summary, {}}
    BY <1>1
       DEF BecomeStale, Submit, RetryWrite, Answer, Go, vars, mockVars, itemVars, actorVars,
           overviewVars
  <2> QED
    BY <2>1 DEF Grounded
<1>2. CASE QueueAnswered
  <2>1. UNCHANGED <<scored, job, oSeen, answered, summary>>
    BY <1>2 DEF QueueAnswered, overviewVars
  <2>2. \A x \in Requests : todo'[x] \subseteq answered
    BY <1>2, ActorKinds DEF QueueAnswered, Grounded
  <2> QED
    BY <2>1, <2>2 DEF Grounded
<1>3. CASE RetryRead
  <2>1. UNCHANGED <<scored, job, oSeen, answered, summary>>
    BY <1>3 DEF RetryRead, overviewVars, mockVars, itemVars
  <2>2. {q \in Questions : CanRetry(q, stale)} \subseteq answered
    BY DEF CanRetry
  <2>3. \A x \in Requests : todo'[x] \subseteq answered
    BY <1>3, <2>2, ActorKinds DEF RetryRead, Grounded
  <2> QED
    BY <2>1, <2>3 DEF Grounded
<1>4. ASSUME NEW x \in Requests, EnqueueScores(x) \/ RequestDies(x)
      PROVE  Grounded'
  <2>1. UNCHANGED <<scored, oSeen, answered, summary>>
    BY <1>4 DEF EnqueueScores, RequestDies, overviewVars, mockVars, itemVars
  <2>2. \A y \in Requests : todo'[y] \subseteq todo[y]
    BY <1>4 DEF EnqueueScores, RequestDies
  <2>3. \A q \in Questions : job'[q] = job[q] \/ q \in todo[x]
    BY <1>4 DEF EnqueueScores, RequestDies, Wait
  <2> QED
    BY <2>1, <2>2, <2>3 DEF Grounded
<1> QED
  BY <1>1, <1>2, <1>3, <1>4

LEMMA GroundedJobs ==
  ASSUME Types, Base, Grounded,
         \/ OverviewStep \/ MarkFailed \/ OverviewFails
         \/ \E c \in Carriers : CarryStep(c)
         \/ \E q \in Questions :
              \/ StartScore(q) \/ Score(q) \/ Mark(q) \/ Check(q) \/ Claim(q) \/ EndScore(q)
              \/ WorkerFails(q)
  PROVE  Grounded'
<1> USE DEF Types, ActorOK, ItemOK
<1>1. CASE OverviewStep \/ MarkFailed \/ OverviewFails
  <2>1. UNCHANGED <<scored, job, todo, answered>>
    BY <1>1
       DEF OverviewStep, StartOverview, WriteOverview, SettleOverview, MarkFailed,
           OverviewFails, actorVars, itemVars
  <2>2. oSeen' \in {oSeen, scored, {}} /\ summary' \in {summary, oSeen}
    BY <1>1
       DEF OverviewStep, StartOverview, WriteOverview, SettleOverview, MarkFailed,
           OverviewFails, EndOverview, OverviewThrows, mockVars
  <2> QED
    BY <2>1, <2>2 DEF Grounded
<1>2. CASE \E c \in Carriers : CarryStep(c)
  BY <1>2
     DEF CarryStep, QueueOverview, GiveUp, Go, mockVars, itemVars, overviewVars, Grounded
<1>3. ASSUME NEW q \in Questions,
             \/ StartScore(q) \/ Score(q) \/ Mark(q) \/ Check(q) \/ Claim(q) \/ EndScore(q)
             \/ WorkerFails(q)
      PROVE  Grounded'
  <2>1. q \in answered
    <3>1. job[q] # "none"
      BY <1>3, ActorKinds
         DEF StartScore, Score, Mark, Check, Claim, EndScore, WorkerFails, Base, Working
    <3> QED
      BY <3>1 DEF Grounded
  <2>2. UNCHANGED <<answered, summary, oSeen, todo>>
    BY <1>3
       DEF StartScore, Score, Mark, Check, Claim, EndScore, WorkerFails, Go, mockVars,
           itemVars, overviewVars
  <2>3. scored' \in {scored, scored \cup {q}}
    BY <1>3 DEF StartScore, Score, Mark, Check, Claim, EndScore, WorkerFails, itemVars
  <2>4. \A r \in Questions : r # q => job'[r] = job[r]
    BY <1>3 DEF StartScore, Score, Mark, Check, Claim, EndScore, WorkerFails, Go, Wait
  <2> QED
    BY <2>1, <2>2, <2>3, <2>4 DEF Grounded
<1> QED
  BY <1>1, <1>2, <1>3

LEMMA GroundedStep == Types /\ Base /\ Grounded /\ [Next]_vars => Grounded'
<1> SUFFICES ASSUME Types, Base, Grounded, [Next]_vars PROVE Grounded'
  OBVIOUS
<1> QED
  BY GroundedRequests, GroundedJobs, ActorKinds
     DEF Next, SubmitStep, ScoreStep, RetryStep, Requests

LEMMA Stages ==
  ASSUME Types
  PROVE  /\ Stage = "open" <=> status = "IN_PROGRESS"
         /\ Stage = "scoring" <=> status \in {"SCORING", "SUBMITTED"}
         /\ Stage = "decided" <=> status = "SCORED"
  BY DEF Types, MockOK, Stage

LEMMA PromiseInit == Init => Promise!Init
<1> SUFFICES ASSUME Init PROVE Promise!Init
  OBVIOUS
<1>1. Stage = "open" /\ answered = {} /\ scored = {} /\ Result = {}
  BY DEF Init, Stage, Result
<1>2. (retries > 0) = FALSE
  BY DEF Init
<1> QED
  BY <1>1, <1>2 DEF Promise!Init

LEMMA PromiseStutters ==
  ASSUME Types, UNCHANGED <<answered, scored, retries>>,
         \/ UNCHANGED <<status, summary>>
         \/ status \in {"SCORING", "SUBMITTED"} /\ status' \in {"SCORING", "SUBMITTED"}
  PROVE  UNCHANGED Promise!interviewVars
<1>1. UNCHANGED <<Stage, Result>>
  BY DEF Types, MockOK, Stage, Result
<1> QED
  BY <1>1 DEF Promise!interviewVars

\* Nobody has read for a retry that was not counted.
Asked == at[Retrier] = "read" => retries > 0

LEMMA RetriesGrow ==
  ASSUME Types, [Next]_vars
  PROVE  /\ retries \in Nat
         /\ retries' = IF RetryRead THEN retries + 1 ELSE retries
<1>1. retries \in Nat
  BY InterviewAssumption DEF Types, BoundOK
<1>2. RetryRead \/ UNCHANGED retries
  BY DEF Next, vars, boundVars, BecomeStale, SubmitStep, Submit, QueueAnswered, Answer,
         EnqueueScores, RequestDies, ScoreStep, StartScore, Score, Mark, Check, Claim,
         EndScore, WorkerFails, CarryStep, QueueOverview, GiveUp, RetryStep, RetryWrite,
         OverviewStep, StartOverview, WriteOverview, SettleOverview, MarkFailed,
         OverviewFails, Fault
<1> QED
  BY <1>1, <1>2 DEF RetryRead

LEMMA AskedStep == Types /\ Asked /\ [Next]_vars => Asked'
<1> SUFFICES ASSUME Types, Asked, [Next]_vars, at'[Retrier] = "read" PROVE retries' > 0
  BY DEF Asked
<1>1. CASE at[Retrier] = "read" \/ RetryRead
  BY <1>1, RetriesGrow DEF Asked
<1>2. CASE at[Retrier] # "read" /\ ~ RetryRead
  <2>1. ASSUME NEW q \in Questions,
               \/ StartScore(q) \/ Score(q) \/ Mark(q) \/ Check(q) \/ Claim(q)
               \/ EndScore(q) \/ WorkerFails(q)
        PROVE  at'[Retrier] = at[Retrier]
    BY <2>1, ActorKinds
       DEF StartScore, Score, Mark, Check, Claim, EndScore, WorkerFails, Go, Types, ActorOK
  <2>2. ASSUME NEW c \in Carriers, CarryStep(c)
        PROVE  at'[Retrier] # "read"
    <3>1. \E place \in {"leaving", "idle", "give_up"} : Go(c, place)
      BY <2>2 DEF CarryStep, QueueOverview, GiveUp, Over
    <3> QED
      BY <1>2, <3>1, ActorKinds DEF Go, Types, ActorOK
  <2>3. ASSUME NEW x \in Requests, EnqueueScores(x) \/ RequestDies(x)
        PROVE  at'[Retrier] # "read"
    BY <1>2, <2>3, ActorKinds DEF EnqueueScores, RequestDies, Types, ActorOK
  <2>4. Submit \/ QueueAnswered \/ RetryWrite => at'[Retrier] # "read"
    BY <1>2, ActorKinds DEF Submit, QueueAnswered, RetryWrite, Go, Types, ActorOK
  <2>5. \/ BecomeStale \/ OverviewStep \/ MarkFailed \/ OverviewFails \/ UNCHANGED vars
        \/ \E q \in Questions : Answer(q)
        => UNCHANGED at
    BY DEF BecomeStale, OverviewStep, StartOverview, WriteOverview, SettleOverview,
           MarkFailed, OverviewFails, Answer, vars, actorVars
  <2> QED
    BY <1>2, <2>1, <2>2, <2>3, <2>4, <2>5, ActorKinds
       DEF Next, SubmitStep, ScoreStep, RetryStep, Requests
<1> QED
  BY <1>1, <1>2

\* The submission hands the interview in; one without answers is decided with nothing.
LEMMA PromiseSubmits ==
  ASSUME Types, Base, Grounded,
         \/ Submit \/ QueueAnswered \/ \E q \in Questions : Answer(q)
  PROVE  [Promise!Next]_(Promise!interviewVars)
<1>1. ASSUME NEW q \in Questions, Answer(q) PROVE Promise!Next
  <2>1. Stage = "open" /\ UNCHANGED <<Stage, scored, Result, retries>>
    BY <1>1 DEF Answer, mockVars, boundVars, Stage, Result
  <2>2. Promise!Answer(q)
    BY <1>1, <2>1 DEF Answer, Promise!Answer
  <2> QED
    BY <2>2 DEF Promise!Next
<1>2. CASE Submit
  <2>1. Stage = "open" /\ Stage' = "scoring" /\ UNCHANGED <<answered, scored, Result, retries>>
    BY <1>2 DEF Submit, boundVars, Stage, Result
  <2> QED
    BY <2>1 DEF Promise!Next, Promise!HandIn
<1>3. CASE QueueAnswered
  <2>1. /\ status = "SCORING" /\ summary = {}
        /\ UNCHANGED <<answered, scored, summary, retries>>
    BY <1>3 DEF QueueAnswered, boundVars, Base, Claimed
  <2>2. CASE UNCHANGED status
    BY <2>1, <2>2, PromiseStutters
  <2>3. CASE status' # status
    <3>1. status' = "SCORED"
      BY <1>3, <2>3 DEF QueueAnswered
    <3>2. Stage = "scoring" /\ Stage' = "decided" /\ Result' = {}
      BY <2>1, <3>1 DEF Stage, Result
    <3>3. Promise!Decide({})
      BY <2>1, <3>2 DEF Promise!Decide
    <3> QED
      BY <3>3 DEF Promise!Next
  <2> QED
    BY <2>2, <2>3
<1> QED
  BY <1>1, <1>2, <1>3

\* A Score row is a score of the interview, and only the overview job decides it.
LEMMA PromiseScores ==
  ASSUME Types, Base, Grounded, WriteOverview \/ \E q \in Questions : Score(q)
  PROVE  [Promise!Next]_(Promise!interviewVars)
<1>1. ASSUME NEW q \in Questions, Score(q)
      PROVE  [Promise!Next]_(Promise!interviewVars)
  <2>1. /\ UNCHANGED <<status, summary, answered, retries>>
        /\ scored' = scored \/ scored' = scored \cup {q}
    BY <1>1 DEF Score, mockVars, boundVars
  <2>2. status # "IN_PROGRESS" /\ q \in answered
    <3>1. at[q] # "idle" /\ job[q] # "none"
      BY <1>1 DEF Score, Base, Working
    <3> QED
      BY <3>1, AtWork DEF Grounded
  <2>3. CASE scored' = scored
    BY <2>1, <2>3, PromiseStutters
  <2>4. CASE scored' # scored
    <3>1. q \notin scored /\ scored' = scored \cup {q}
      BY <2>1, <2>4
    <3>2. Stage # "open" /\ UNCHANGED <<Stage, answered, Result>>
      BY <2>1, <2>2, Stages DEF Stage, Result
    <3>3. Promise!Score(q)
      BY <2>1, <2>2, <3>1, <3>2 DEF Promise!Score
    <3> QED
      BY <3>3 DEF Promise!Next
  <2> QED
    BY <2>3, <2>4
<1>2. CASE WriteOverview
  <2>1. UNCHANGED <<answered, scored, retries>>
    BY <1>2 DEF WriteOverview, itemVars, boundVars
  <2>2. CASE UNCHANGED <<status, summary>>
    BY <2>1, <2>2, PromiseStutters
  <2>3. CASE ~ UNCHANGED <<status, summary>>
    <3>1. status = "SUBMITTED" /\ status' = "SCORED" /\ summary' = oSeen
      BY <1>2, <2>3 DEF WriteOverview, mockVars
    <3>2. Stage = "scoring" /\ Stage' = "decided" /\ Result' = oSeen
      BY <3>1 DEF Stage, Result
    <3>3. oSeen \subseteq scored /\ oSeen \in SUBSET Questions
      BY DEF Grounded, Types, OverviewOK
    <3>4. Promise!Decide(oSeen)
      BY <2>1, <3>2, <3>3 DEF Promise!Decide
    <3> QED
      BY <3>3, <3>4 DEF Promise!Next
  <2> QED
    BY <2>2, <2>3
<1> QED
  BY <1>1, <1>2

\* A retry is asked for; it withdraws the result, of scores or of the overview.
LEMMA PromiseReopens ==
  ASSUME Types, Base, Asked, RetryRead \/ RetryWrite
  PROVE  [Promise!Next]_(Promise!interviewVars)
<1>0. retries \in Nat
  BY InterviewAssumption DEF Types, BoundOK
<1>1. CASE RetryRead
  <2>1. status # "IN_PROGRESS" /\ UNCHANGED <<status, summary, answered, scored>>
    BY <1>1 DEF RetryRead, mockVars, itemVars
  <2>2. Stage # "open" /\ UNCHANGED <<Stage, Result>>
    BY <2>1, Stages DEF Stage, Result
  <2>3. (retries' > 0) = TRUE
    BY <1>0, <1>1 DEF RetryRead
  <2> QED
    BY <2>1, <2>2, <2>3 DEF Promise!Next, Promise!AskRetry
<1>2. CASE RetryWrite
  <2>1. status # "IN_PROGRESS"
    BY <1>2, AtWork DEF RetryWrite
  <2>2. status' \in {"SCORING", "SUBMITTED"} /\ UNCHANGED <<answered, scored, retries>>
    BY <1>2 DEF RetryWrite, Types, ItemOK, boundVars
  <2>3. CASE status = "SCORED"
    <3>1. Stage = "decided" /\ Stage' = "scoring" /\ Result' = {}
      BY <2>2, <2>3 DEF Stage, Result
    <3>2. retries > 0
      BY <1>2 DEF RetryWrite, Asked
    <3> QED
      BY <2>2, <3>1, <3>2 DEF Promise!Next, Promise!Reopen
  <2>4. CASE status # "SCORED"
    <3>1. status \in {"SCORING", "SUBMITTED"}
      BY <2>1, <2>4 DEF Types, MockOK
    <3> QED
      BY <2>2, <3>1, PromiseStutters
  <2> QED
    BY <2>3, <2>4
<1> QED
  BY <1>1, <1>2

\* Nothing else can be seen.
LEMMA PromiseWaits ==
  ASSUME Types, Base,
         \/ BecomeStale \/ StartOverview \/ SettleOverview \/ MarkFailed
         \/ OverviewFails \/ UNCHANGED vars
         \/ \E c \in Carriers : CarryStep(c)
         \/ \E x \in Requests : EnqueueScores(x) \/ RequestDies(x)
         \/ \E q \in Questions :
              \/ StartScore(q) \/ Mark(q) \/ Check(q) \/ Claim(q) \/ EndScore(q)
              \/ WorkerFails(q)
  PROVE  UNCHANGED Promise!interviewVars
<1>1. /\ UNCHANGED <<answered, scored, summary, retries>>
      /\ status' = status \/ (status = "SCORING" /\ status' = "SUBMITTED")
  BY DEF BecomeStale, StartOverview, SettleOverview, MarkFailed, OverviewFails, CarryStep,
         QueueOverview, GiveUp, EnqueueScores, RequestDies, StartScore, Mark, Check, Claim,
         EndScore, WorkerFails, vars, mockVars, itemVars, boundVars
<1> QED
  BY <1>1, PromiseStutters

\* Every step is one of the interview, or shows nothing.
LEMMA PromiseStep ==
  ASSUME Types, Base, Grounded, Asked, [Next]_vars
  PROVE  [Promise!Next]_(Promise!interviewVars)
  BY PromiseSubmits, PromiseScores, PromiseReopens, PromiseWaits, ActorKinds
     DEF Next, SubmitStep, ScoreStep, RetryStep, OverviewStep, Requests

LEMMA GroundedAlways == Spec => [](Types /\ Base /\ Grounded)
  BY TypeInit, TypeStep, BaseInit, BaseStep, GroundedInit, GroundedStep, PTL DEF Spec

LEMMA AskedAlways == Spec => []Asked
<1>1. Init => Asked
  BY ActorKinds DEF Init, Asked
<1> QED
  BY TypeInit, TypeStep, AskedStep, <1>1, PTL DEF Spec

\* For every number of questions, retries and faults, an interview about a CV is an
\* Interview, and unlike a mock it is never revised: a result that is there is withdrawn
\* by a retry before another one is written.
THEOREM InterviewImplemented == Spec => ImplementsInterview
<1>1. Types /\ Base /\ Grounded /\ Asked /\ [Next]_vars
        => [Promise!Next]_(Promise!interviewVars)
  BY PromiseStep
<1> QED
  BY GroundedAlways, AskedAlways, PromiseInit, <1>1, PTL
     DEF Spec, ImplementsInterview, Promise!Spec

\* However many workers and requests die, and whatever is run again: as long as nobody
\* retries, a result that was decided stays as it is.
THEOREM FinalWithoutRetry ==
  Spec => [][status = "SCORED" /\ retries = 0 => UNCHANGED <<status, summary>>]_vars
<1>1. ASSUME Types, Types', status = "SCORED", retries = 0,
             [Promise!Next]_(Promise!interviewVars)
      PROVE  UNCHANGED <<status, summary>>
  <2>1. Stage = "decided" /\ ~ (retries > 0)
    BY <1>1 DEF Stage
  <2>2. UNCHANGED <<Stage, Result>>
    BY <1>1, <2>1
       DEF Promise!Next, Promise!interviewVars, Promise!HandIn, Promise!AskRetry,
           Promise!Reopen, Promise!Answer, Promise!Score, Promise!Decide
  <2>3. status' = "SCORED"
    BY <1>1, <2>1, <2>2 DEF Types, MockOK, Stage
  <2> QED
    BY <1>1, <2>2, <2>3 DEF Result
<1>2. Types /\ Base /\ Grounded /\ Asked /\ [Next]_vars
        => [status = "SCORED" /\ retries = 0 => UNCHANGED <<status, summary>>]_vars
  BY <1>1, PromiseStep, TypeStep
<1> QED
  BY GroundedAlways, AskedAlways, <1>2, PTL DEF Spec

-----------------------------------------------------------------------------
(* No dead end: the safety half of SubmittedSettles.                         *)

Undisturbed == faults = 0 /\ ~ overtaken

\* The submitter, a worker that will look for the last score, or a question that waits
\* for one carries an interview that is being scored.
Underway ==
  status = "SCORING" /\ Undisturbed =>
    \/ at[Submitter] = "claimed"
    \/ \E q \in Questions : at[q] \in {"check", "claim"}
    \/ \E q \in Questions : scoring[q] \notin Terminal

\* From the submission on a question is PENDING only until the answers are queued.
NonePending ==
  status # "IN_PROGRESS" /\ at[Submitter] # "claimed" /\ faults = 0
    => \A q \in Questions : scoring[q] # "PENDING"

\* Only an answered question is QUEUED, and one with a score is so only while its worker is
\* about to mark it.
QueuedIsOpen ==
  \A q \in Questions : scoring[q] = "QUEUED" =>
    /\ q \in answered
    /\ Undisturbed /\ q \in scored => at[q] = "mark"

\* The overview of an interview that is being scored is yet to be decided on.
OverviewOpen == status = "SCORING" => overview = "PENDING"

Going == Underway /\ NonePending /\ QueuedIsOpen /\ OverviewOpen

LEMMA GoingInit == Init => Going
  BY DEF Init, Going, Underway, NonePending, QueuedIsOpen, OverviewOpen

\* A step that leaves the questions alone, and the workers that look after them.
LEMMA GoingKept ==
  ASSUME Types, Going, UNCHANGED <<scoring, scored>>, answered \subseteq answered',
         faults' = faults \/ faults' # 0, overtaken => overtaken',
         \/ UNCHANGED status /\ (overview' = overview \/ status # "SCORING")
         \/ status # "IN_PROGRESS" /\ status' # "SCORING" /\ status' # "IN_PROGRESS",
         faults' = 0 /\ ~ overtaken' =>
           /\ at[Submitter] = "claimed" <=> at'[Submitter] = "claimed"
           /\ \A q \in Questions : at[q] \in {"mark", "check", "claim"} => at'[q] = at[q],
         faults' = 0 => (at[Submitter] = "claimed" => at'[Submitter] = "claimed")
  PROVE  Going'
<1>1. Undisturbed' => Undisturbed
  BY DEF Undisturbed, Types, HistoryOK
<1>2. Underway'
  BY <1>1 DEF Going, Underway, Undisturbed
<1>3. NonePending'
  BY DEF Going, NonePending
<1>4. QueuedIsOpen'
  BY <1>1 DEF Going, QueuedIsOpen, Undisturbed
<1>5. OverviewOpen'
  BY DEF Going, OverviewOpen
<1> QED
  BY <1>2, <1>3, <1>4, <1>5 DEF Going

LEMMA GoingRequests ==
  ASSUME Types, Base, Grounded, Going,
         \/ Submit \/ QueueAnswered \/ RetryRead \/ RetryWrite \/ BecomeStale
         \/ UNCHANGED vars
         \/ \E q \in Questions : Answer(q)
         \/ \E x \in Requests : EnqueueScores(x) \/ RequestDies(x)
  PROVE  Going'
<1> USE DEF Types, ActorOK, ItemOK
<1>1. CASE BecomeStale \/ UNCHANGED vars \/ \E q \in Questions : Answer(q)
  <2>1. /\ UNCHANGED <<status, overview, scoring, scored, at, faults, overtaken>>
        /\ answered \subseteq answered'
    BY <1>1 DEF BecomeStale, Answer, vars, mockVars, itemVars, actorVars, boundVars
  <2> QED
    BY <2>1, GoingKept
<1>2. CASE Submit
  <2>1. /\ status' = "SCORING" /\ overview' = "PENDING" /\ at'[Submitter] = "claimed"
        /\ UNCHANGED <<answered, scored>>
    BY <1>2, ActorKinds DEF Submit, Go
  <2>2. \A q \in Questions : scoring'[q] \in {"PENDING", "SKIPPED"}
    BY <1>2 DEF Submit, Base, Asleep
  <2> QED
    BY <2>1, <2>2 DEF Going, Underway, NonePending, QueuedIsOpen, OverviewOpen
<1>3. CASE QueueAnswered
  <2>1. /\ status = "SCORING" /\ scored = {}
        /\ \A q \in Questions : scoring[q] = IF q \in answered THEN "PENDING" ELSE "SKIPPED"
    BY <1>3 DEF QueueAnswered, Base, Claimed
  <2>2. /\ UNCHANGED <<answered, scored>>
        /\ \A q \in Questions : scoring'[q] = IF q \in answered THEN "QUEUED" ELSE "SKIPPED"
    BY <1>3, <2>1 DEF QueueAnswered
  <2>3. status' = "SCORING" => UNCHANGED overview /\ \E q \in Questions : q \in answered
    BY <1>3, <2>1 DEF QueueAnswered
  <2> QED
    BY <2>1, <2>2, <2>3
       DEF Going, Underway, NonePending, QueuedIsOpen, OverviewOpen, Terminal
<1>4. CASE RetryRead
  <2>1. /\ UNCHANGED <<status, overview, answered, scoring, scored, faults, overtaken>>
        /\ \A x \in Actors \ {Retrier} : at'[x] = at[x]
    BY <1>4 DEF RetryRead, mockVars, itemVars
  <2> QED
    BY <2>1, GoingKept, ActorKinds
<1>5. CASE RetryWrite
  <2>1. status # "IN_PROGRESS" /\ at[Submitter] # "claimed"
    BY <1>5, AtWork DEF RetryWrite
  <2>2. /\ UNCHANGED <<answered, scored, faults>> /\ overview' = "PENDING"
        /\ \A x \in Actors \ {Retrier} : at'[x] = at[x]
    BY <1>5 DEF RetryWrite, Go, boundVars
  <2>3. \A q \in Questions :
          scoring'[q] = scoring[q] \/ (scoring'[q] = "QUEUED" /\ q \in todo[Retrier])
    BY <1>5 DEF RetryWrite
  <2>4. status' = "SCORING" => \E q \in Questions : scoring'[q] = "QUEUED"
    <3>1. CASE todo[Retrier] = {}
      BY <1>5, <3>1 DEF RetryWrite
    <3>2. CASE todo[Retrier] # {}
      <4>1. todo[Retrier] \subseteq Questions
        BY ActorKinds
      <4> QED
        BY <1>5, <3>2, <4>1 DEF RetryWrite
    <3> QED
      BY <3>1, <3>2
  <2>5. Underway' /\ OverviewOpen'
    BY <2>2, <2>4 DEF Underway, OverviewOpen, Terminal
  <2>6. NonePending'
    BY <2>1, <2>2, <2>3 DEF Going, NonePending
  <2>7. Undisturbed' => Undisturbed /\ todo[Retrier] \cap scored = {}
    BY <1>5, <2>2 DEF RetryWrite, Undisturbed, HistoryOK
  <2>8. QueuedIsOpen'
    <3> SUFFICES ASSUME NEW q \in Questions, scoring'[q] = "QUEUED"
                 PROVE  /\ q \in answered
                        /\ Undisturbed' /\ q \in scored => at'[q] = "mark"
      BY <2>2 DEF QueuedIsOpen
    <3>1. CASE q \in todo[Retrier]
      BY <3>1, <2>7, ActorKinds DEF Grounded
    <3>2. CASE q \notin todo[Retrier]
      BY <3>2, <2>2, <2>3, <2>7, ActorKinds DEF Going, QueuedIsOpen
    <3> QED
      BY <3>1, <3>2
  <2> QED
    BY <2>5, <2>6, <2>8 DEF Going
<1>6. ASSUME NEW x \in Requests, EnqueueScores(x) \/ RequestDies(x) PROVE Going'
  <2>0. x \in Actors /\ x \notin Questions
    BY ActorKinds DEF Requests
  <2>1. /\ UNCHANGED <<status, overview, answered, scoring, scored>>
        /\ \A y \in Actors \ {x} : at'[y] = at[y]
    BY <1>6 DEF EnqueueScores, RequestDies, mockVars, itemVars
  <2>2. overtaken => overtaken'
    BY <1>6 DEF EnqueueScores, RequestDies, Wait
  <2>3. CASE EnqueueScores(x)
    <3>1. UNCHANGED faults /\ at[x] = "enqueue" /\ at'[x] = "idle"
      BY <2>0, <2>3 DEF EnqueueScores, boundVars
    <3>2. at[Submitter] = "claimed" <=> at'[Submitter] = "claimed"
      BY <2>1, <3>1, ActorKinds
    <3> QED
      BY <2>0, <2>1, <2>2, <3>1, <3>2, GoingKept, ActorKinds
  <2>4. CASE RequestDies(x)
    <3>1. faults' # 0
      BY <2>4 DEF RequestDies, Fault, BoundOK
    <3> QED
      BY <2>1, <2>2, <3>1, GoingKept
  <2> QED
    BY <1>6, <2>3, <2>4
<1> QED
  BY <1>1, <1>2, <1>3, <1>4, <1>5, <1>6

LEMMA GoingJobs ==
  ASSUME Types, Base, Grounded, Going,
         \/ OverviewStep \/ MarkFailed \/ OverviewFails
         \/ \E c \in Carriers : CarryStep(c)
         \/ \E q \in Questions :
              \/ StartScore(q) \/ Score(q) \/ Mark(q) \/ Check(q) \/ Claim(q) \/ EndScore(q)
              \/ WorkerFails(q)
  PROVE  Going'
<1> USE DEF Types, ActorOK, ItemOK
<1>1. CASE OverviewStep \/ MarkFailed \/ OverviewFails
  <2>1. UNCHANGED <<answered, scoring, scored, at, overtaken>>
    BY <1>1
       DEF OverviewStep, StartOverview, WriteOverview, SettleOverview, MarkFailed,
           OverviewFails, actorVars, itemVars
  <2>2. faults' = faults \/ faults' # 0
    BY <1>1
       DEF OverviewStep, StartOverview, WriteOverview, SettleOverview, MarkFailed,
           OverviewFails, Fault, BoundOK, boundVars
  <2>3. \/ UNCHANGED status /\ (overview' = overview \/ status # "SCORING")
        \/ status # "IN_PROGRESS" /\ status' # "SCORING" /\ status' # "IN_PROGRESS"
    BY <1>1
       DEF OverviewStep, StartOverview, WriteOverview, SettleOverview, MarkFailed,
           OverviewFails, mockVars
  <2> QED
    BY <2>1, <2>2, <2>3, GoingKept
<1>2. ASSUME NEW c \in Carriers, CarryStep(c) PROVE Going'
  <2>1. /\ UNCHANGED <<status, answered, scoring, scored, faults, overtaken>>
        /\ overview' = overview \/ status # "SCORING"
        /\ at[c] \in {"queue", "give_up"}
        /\ \A x \in Actors \ {c} : at'[x] = at[x]
    BY <1>2
       DEF CarryStep, QueueOverview, GiveUp, Go, mockVars, itemVars, boundVars
  <2> QED
    BY <2>1, GoingKept, ActorKinds
<1>3. ASSUME NEW q \in Questions, StartScore(q) \/ EndScore(q) PROVE Going'
  <2>1. /\ UNCHANGED <<status, overview, answered, scoring, scored, faults, overtaken>>
        /\ at[q] \in {"idle", "leaving"}
        /\ \A x \in Actors \ {q} : at'[x] = at[x]
    BY <1>3, ActorKinds
       DEF StartScore, EndScore, mockVars, itemVars, boundVars, Base, Working
  <2> QED
    BY <2>1, GoingKept, ActorKinds
<1>4. ASSUME NEW q \in Questions, WorkerFails(q) PROVE Going'
  <2>1. UNCHANGED <<status, overview, answered, scoring, scored>>
    BY <1>4 DEF WorkerFails, mockVars, itemVars
  <2>2. faults' # 0
    BY <1>4 DEF WorkerFails, Fault, BoundOK
  <2>3. at'[Submitter] = at[Submitter]
    BY <1>4, ActorKinds DEF WorkerFails
  <2>4. overtaken => overtaken'
    BY <1>4 DEF WorkerFails, Wait
  <2> QED
    BY <2>1, <2>2, <2>3, <2>4, GoingKept
<1>5. ASSUME NEW q \in Questions, Score(q) \/ Mark(q) \/ Check(q) \/ Claim(q) PROVE Going'
  <2>1. /\ UNCHANGED <<overview, answered, faults, overtaken>>
        /\ \A x \in Actors \ {q} : at'[x] = at[x]
        /\ \A r \in Questions \ {q} : /\ scoring'[r] = scoring[r]
                                      /\ r \in scored' <=> r \in scored
        /\ scoring'[q] = scoring[q] \/ scoring'[q] \in {"SCORED", "FAILED"}
    BY <1>5, ActorKinds DEF Score, Mark, Check, Claim, Go, mockVars, itemVars, boundVars
  <2>2. status # "IN_PROGRESS" /\ at[Submitter] # "claimed"
    BY <1>5, AtWork DEF Score, Mark, Check, Claim
  <2>3. at'[Submitter] # "claimed" /\ status' # "IN_PROGRESS"
    BY <1>5, <2>1, <2>2, ActorKinds DEF Score, Mark, Check, Claim, mockVars
  <2>4. NonePending' /\ (Undisturbed' <=> Undisturbed)
    BY <2>1, <2>2 DEF Going, NonePending, Undisturbed
  <2>5. CASE Score(q)
    <3>1. UNCHANGED <<status, scoring>> /\ at'[q] = "mark" /\ at[q] = "provider"
      BY <2>5, ActorKinds DEF Score, mockVars
    <3> QED
      BY <2>1, <2>4, <3>1, ActorKinds DEF Going, Underway, QueuedIsOpen, OverviewOpen
  <2>6. CASE Mark(q)
    <3>1. /\ UNCHANGED status /\ at'[q] = "check" /\ scoring'[q] # "QUEUED"
          /\ UNCHANGED scored
      BY <2>6, ActorKinds DEF Mark, Go, mockVars
    <3> QED
      BY <2>1, <2>4, <3>1, ActorKinds DEF Going, Underway, QueuedIsOpen, OverviewOpen
  <2>7. CASE Check(q)
    <3>1. UNCHANGED <<status, scoring, scored>> /\ at[q] = "check"
      BY <2>7 DEF Check, mockVars, itemVars
    <3>2. status = "SCORING" /\ (\A p \in Questions : scoring[p] \in Terminal)
            => at'[q] = "claim"
      BY <2>7, ActorKinds DEF Check, Go
    <3> QED
      BY <2>1, <2>4, <3>1, <3>2, ActorKinds DEF Going, Underway, QueuedIsOpen, OverviewOpen
  <2>8. CASE Claim(q)
    <3>1. UNCHANGED <<scoring, scored>> /\ at[q] = "claim" /\ status' # "SCORING"
      BY <2>8 DEF Claim, itemVars, Going, OverviewOpen
    <3> QED
      BY <2>1, <2>4, <3>1, ActorKinds DEF Going, Underway, QueuedIsOpen, OverviewOpen
  <2> QED
    BY <1>5, <2>5, <2>6, <2>7, <2>8
<1> QED
  BY <1>1, <1>2, <1>3, <1>4, <1>5

LEMMA GoingStep == Types /\ Base /\ Grounded /\ Going /\ [Next]_vars => Going'
<1> SUFFICES ASSUME Types, Base, Grounded, Going, [Next]_vars PROVE Going'
  OBVIOUS
<1> QED
  BY GoingRequests, GoingJobs, ActorKinds
     DEF Next, SubmitStep, ScoreStep, RetryStep, Requests

\* However many jobs fail, calls are lost and retries interfere: an interview that comes
\* to rest without a result can be scored again.  In SUBMITTED that is so whatever died; in
\* SCORING it takes a fault, or a retry that overtook a decision, to leave nothing to retry.
THEOREM NoDeadEnd ==
  Spec => [](Quiet /\ status \in {"SCORING", "SUBMITTED"}
               => Retryable \/ (status = "SCORING" /\ (faults > 0 \/ overtaken)))
<1> DEFINE Settled == Quiet /\ status \in {"SCORING", "SUBMITTED"}
                        => Retryable \/ (status = "SCORING" /\ (faults > 0 \/ overtaken))
<1>1. ASSUME Types, Going, Quiet, status = "SCORING", ~ (faults > 0 \/ overtaken)
      PROVE  Retryable
  <2>1. Undisturbed
    BY <1>1 DEF Undisturbed, Types, BoundOK
  <2>2. \A x \in Actors : at[x] = "idle"
    BY <1>1 DEF Quiet
  <2>3. PICK q \in Questions : scoring[q] \notin Terminal
    BY <1>1, <2>1, <2>2, ActorKinds DEF Going, Underway
  <2>4. scoring[q] = "QUEUED"
    BY <1>1, <2>1, <2>2, <2>3, ActorKinds
       DEF Going, NonePending, Undisturbed, Types, ItemOK, Terminal
  <2>5. q \in answered /\ q \notin scored
    BY <1>1, <2>1, <2>2, <2>4, ActorKinds DEF Going, QueuedIsOpen
  <2> QED
    BY <1>1, <2>4, <2>5 DEF Retryable, CanRetry
<1>2. status = "SUBMITTED" => Retryable
  BY DEF Retryable, CanRetryOverview
<1>3. Types /\ Going => Settled
  BY <1>1, <1>2
<1> QED
  BY GroundedAlways, GoingInit, GoingStep, <1>3, PTL DEF Spec
=============================================================================
