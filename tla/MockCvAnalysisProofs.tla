------------------------- MODULE MockCvAnalysisProofs -------------------------
(* Theorems about MockCvAnalysis, for every set of requests and every bound. *)
EXTENDS MockCvAnalysis, TLAPS

-----------------------------------------------------------------------------
(* Types.                                                                    *)

Places == Preparing \cup {"idle", "store", "reserve", "claim", "enqueue", "undo",
                          "release", "read_job", "analyze", "job_failed",
                          "hold", "open", "jobs", "delete"}

RowOK ==
  /\ cv \in {"absent", "creating", "stored", "deleted"}
  /\ status \in Verdicts \cup {"PENDING", "ANALYZING", "FAILED"}
  /\ attempt \in 0..MaxAttempts
  /\ stale \in BOOLEAN
  /\ author \in 0..MaxAttempts

SetOK ==
  /\ qStatus \in {"PENDING", "GENERATING", "READY", "FAILED"}
  /\ qAttempt \in 0..MaxAttempts
  /\ qStale \in BOOLEAN
  /\ sets \in SUBSET Attempts

PlaceOK ==
  /\ at \in [Callers -> Places]
  /\ op \in [Callers -> {"none", "create", "retry", "questions", "start",
                         "remove", "purge"}]

SeenOK ==
  /\ seen \in [Callers -> 0..MaxAttempts]
  /\ qSeen \in [Callers -> 0..MaxAttempts]

LockOK == lock \in Requests \cup {None}

JobOK == job \in [Attempts -> {"none", "waiting", "active"}]

GenOK ==
  /\ qJob \in [Attempts -> {"none", "waiting", "active"}]
  /\ gen \in [Attempts -> {"idle", "generate", "consume", "release", "job_failed"}]

BoundOK ==
  /\ calls \in 0..MaxCalls /\ faults \in 0..MaxFaults /\ expiries \in 0..MaxExpiries

RestOK == running \in BOOLEAN /\ rsv \in {"none", "PENDING", "CONSUMED"} /\ lost \in BOOLEAN

CallOK == PlaceOK /\ SeenOK /\ LockOK /\ JobOK

Parts == RowOK /\ SetOK /\ CallOK /\ GenOK /\ BoundOK /\ RestOK

LEMMA PartsOfType == TypeOK <=> Parts
  BY DEF TypeOK, Parts, RowOK, SetOK, CallOK, PlaceOK, SeenOK, LockOK, JobOK, GenOK,
         BoundOK, RestOK, Places

LEMMA Zero ==
  0 \in 0..MaxAttempts /\ 0 \in 0..MaxCalls /\ 0 \in 0..MaxFaults /\ 0 \in 0..MaxExpiries
  BY AnalysisAssumption

LEMMA PartsInit == Init => Parts
<1> SUFFICES ASSUME Init PROVE Parts
  OBVIOUS
<1>1. RowOK /\ SetOK
  BY Zero DEF Init, RowOK, SetOK
<1>2. PlaceOK /\ LockOK
  BY DEF Init, PlaceOK, LockOK, Places
<1>3. SeenOK /\ JobOK /\ GenOK
  BY AnalysisAssumption DEF Init, SeenOK, JobOK, GenOK
<1>4. BoundOK /\ RestOK
  BY Zero DEF Init, BoundOK, RestOK
<1> QED
  BY <1>1, <1>2, <1>3, <1>4 DEF Parts, CallOK

\* Parts that a step leaves alone.
LEMMA PartsStay ==
  ASSUME Parts
  PROVE  /\ UNCHANGED rowVars => RowOK'
         /\ UNCHANGED setVars => SetOK'
         /\ UNCHANGED callVars => CallOK'
         /\ UNCHANGED genVars => GenOK'
         /\ UNCHANGED boundVars => BoundOK'
         /\ UNCHANGED <<running, rsv, lost>> => RestOK'
  BY DEF Parts, RowOK, SetOK, CallOK, PlaceOK, SeenOK, LockOK, JobOK, GenOK, BoundOK,
         RestOK, rowVars, setVars, callVars, genVars, boundVars

LEMMA CallStays ==
  ASSUME Parts
  PROVE  /\ UNCHANGED <<at, op>> => PlaceOK'
         /\ UNCHANGED <<seen, qSeen>> => SeenOK'
         /\ UNCHANGED lock => LockOK'
         /\ UNCHANGED job => JobOK'
  BY DEF Parts, CallOK, PlaceOK, SeenOK, LockOK, JobOK

LEMMA GoType ==
  ASSUME Parts, NEW x \in Callers, NEW place \in Places, Go(x, place)
  PROVE  CallOK'
  BY DEF Parts, CallOK, PlaceOK, SeenOK, LockOK, JobOK, Go

LEMMA ForgetType ==
  ASSUME Parts, NEW x \in Callers, Forget(x)
  PROVE  PlaceOK' /\ SeenOK'
<1>1. PlaceOK'
  BY DEF Parts, CallOK, PlaceOK, Forget, Places
<1>2. SeenOK'
  BY AnalysisAssumption DEF Parts, CallOK, SeenOK, Forget
<1> QED
  BY <1>1, <1>2

LEMMA UnlockedType ==
  ASSUME Parts, NEW x
  PROVE  Unlocked(x) \in Requests \cup {None}
  BY DEF Parts, CallOK, LockOK, Unlocked

LEMMA EndType ==
  ASSUME Parts, NEW x \in Callers, End(x)
  PROVE  CallOK'
<1>1. PlaceOK' /\ SeenOK'
  BY ForgetType DEF End
<1>2. LockOK'
  BY UnlockedType DEF End, LockOK
<1>3. JobOK'
  BY DEF Parts, CallOK, JobOK, End
<1> QED
  BY <1>1, <1>2, <1>3 DEF CallOK

LEMMA CallType ==
  ASSUME Parts, NEW r \in Requests, NEW place \in Places, NEW o, Call(r, o, place),
         o \in {"retry", "questions", "start", "remove", "purge"}
  PROVE  /\ RowOK' /\ SetOK' /\ PlaceOK' /\ JobOK' /\ GenOK' /\ BoundOK' /\ RestOK'
<1>1. RowOK' /\ SetOK' /\ GenOK' /\ RestOK' /\ JobOK'
  BY PartsStay, CallStays DEF Call
<1>2. PlaceOK'
  BY DEF Parts, CallOK, PlaceOK, Call, Callers
<1>3. BoundOK'
  BY AnalysisAssumption DEF Parts, BoundOK, Call
<1> QED
  BY <1>1, <1>2, <1>3

LEMMA ReleasedType ==
  ASSUME Parts
  PROVE  {Released, Consumed, Held} \subseteq {"none", "PENDING", "CONSUMED"}
  BY DEF Parts, RestOK, Released, Consumed, Held

-----------------------------------------------------------------------------
LEMMA PrepareType ==
  ASSUME Parts, NEW x \in Callers, PrepareStep(x)
  PROVE  Parts'
<1>0. {"enqueue_set", "missed", "drop", "open", "undo_set", "release"} \subseteq Places
  BY DEF Places, Preparing
<1>1. CASE Take(x)
  <2>1. SetOK'
    <3>1. CASE UNCHANGED <<qStatus, qAttempt, qStale>> /\ UNCHANGED sets
      BY <3>1 DEF Parts, SetOK
    <3>2. CASE /\ Takeable(x)
               /\ qStatus' = "GENERATING" /\ qAttempt' = qAttempt + 1 /\ qStale' = FALSE
               /\ UNCHANGED sets
      <4>1. qAttempt' \in 0..MaxAttempts
        BY <3>2, AnalysisAssumption DEF Takeable, Parts, SetOK
      <4> QED
        BY <3>2, <4>1 DEF Parts, SetOK
    <3> QED
      BY <1>1, <3>1, <3>2 DEF Take
  <2>2. CallOK'
    BY <1>0, <1>1, GoType DEF Take
  <2> QED
    BY <1>1, <2>1, <2>2, PartsStay DEF Take, Parts
<1>2. CASE Missed(x)
  BY <1>0, <1>2, GoType, EndType, PartsStay DEF Missed, Parts
<1>3. CASE Drop(x)
  <2>1. CallOK'
    BY <1>0, <1>3, GoType, EndType DEF Drop
  <2>2. RestOK'
    BY <1>3, ReleasedType DEF Drop, Parts, RestOK
  <2> QED
    BY <1>3, <2>1, <2>2, PartsStay DEF Drop, Parts
<1>4. CASE EnqueueSet(x)
  <2>1. CallOK'
    <3>1. CASE End(x)
      BY <3>1, EndType
    <3>2. CASE /\ at' = [at EXCEPT ![x] = "undo_set"]
               /\ qSeen' = [qSeen EXCEPT ![x] = qAttempt]
               /\ UNCHANGED <<op, seen, lock, job, qJob>>
      <4>1. PlaceOK'
        BY <1>0, <3>2 DEF Parts, CallOK, PlaceOK
      <4>2. SeenOK'
        BY <3>2 DEF Parts, CallOK, SeenOK, SetOK
      <4> QED
        BY <3>2, <4>1, <4>2, CallStays DEF CallOK
    <3> QED
      BY <1>4, <3>1, <3>2 DEF EnqueueSet
  <2>2. GenOK'
    <3>1. gen' = gen
      BY <1>4 DEF EnqueueSet
    <3>2. \/ qJob' = [qJob EXCEPT ![qAttempt] = IF @ = "none" THEN "waiting" ELSE @]
          \/ qJob' = qJob
      BY <1>4 DEF EnqueueSet
    <3> QED
      BY <3>1, <3>2 DEF Parts, GenOK
  <2> QED
    BY <1>4, <2>1, <2>2, PartsStay DEF EnqueueSet, Parts
<1>5. CASE UndoSet(x)
  <2>1. SetOK'
    BY <1>5 DEF UndoSet, Parts, SetOK
  <2> QED
    BY <1>0, <1>5, <2>1, GoType, PartsStay DEF UndoSet, Parts
<1>6. CASE Release(x)
  <2>1. RestOK'
    BY <1>6, ReleasedType DEF Release, Parts, RestOK
  <2> QED
    BY <1>6, <2>1, EndType, PartsStay DEF Release, Parts
<1> QED
  BY <1>1, <1>2, <1>3, <1>4, <1>5, <1>6 DEF PrepareStep

LEMMA RequestType ==
  ASSUME Parts, NEW r \in Requests, RequestStep(r)
  PROVE  Parts'
<1> USE DEF Callers
<1>0. {"claim", "release", "enqueue", "undo", "take", "delete"} \subseteq Places
  BY DEF Places, Preparing
<1>1. CASE StoreCv(r)
  <2>1. RowOK'
    BY <1>1 DEF StoreCv, Parts, RowOK
  <2>2. CallOK'
    BY <1>0, <1>1, GoType DEF StoreCv
  <2> QED
    BY <1>1, <2>1, <2>2, PartsStay DEF StoreCv, Parts
<1>2. CASE Claim(r)
  <2>1. CASE End(r) /\ UNCHANGED <<status, attempt, stale, lost>>
    <3>1. RowOK'
      BY <1>2, <2>1 DEF Claim, Parts, RowOK
    <3>2. RestOK'
      BY <1>2, <2>1 DEF Claim, Parts, RestOK
    <3> QED
      BY <1>2, <2>1, <3>1, <3>2, EndType, PartsStay DEF Claim, Parts
  <2>2. CASE /\ Claimable /\ attempt < MaxAttempts
             /\ status' = "PENDING" /\ attempt' = attempt + 1 /\ stale' = FALSE
             /\ lost' = FALSE
             /\ Go(r, "enqueue")
    <3>1. attempt' \in 0..MaxAttempts
      BY <2>2, AnalysisAssumption DEF Parts, RowOK
    <3>2. RowOK'
      BY <1>2, <2>2, <3>1 DEF Claim, Parts, RowOK
    <3>3. RestOK'
      BY <1>2, <2>2 DEF Claim, Parts, RestOK
    <3> QED
      BY <1>0, <1>2, <2>2, <3>2, <3>3, GoType, PartsStay DEF Claim, Parts
  <2> QED
    BY <1>2, <2>1, <2>2 DEF Claim
<1>3. CASE Enqueue(r)
  <2>1. CASE End(r)
    BY <1>3, <2>1, EndType, PartsStay DEF Enqueue, Parts
  <2>2. CASE /\ job' = [job EXCEPT ![attempt] = IF @ = "none" THEN "waiting" ELSE @]
             /\ Forget(r) /\ lock' = Unlocked(r)
    <3>1. JobOK'
      BY <2>2 DEF Parts, CallOK, JobOK
    <3>2. LockOK'
      BY <2>2, UnlockedType DEF LockOK
    <3>3. CallOK'
      BY <2>2, <3>1, <3>2, ForgetType DEF CallOK
    <3> QED
      BY <1>3, <3>3, PartsStay DEF Enqueue, Parts
  <2>3. CASE /\ at' = [at EXCEPT ![r] = "undo"] /\ seen' = [seen EXCEPT ![r] = attempt]
             /\ UNCHANGED <<op, qSeen, lock, job>>
    <3>1. PlaceOK'
      BY <1>0, <2>3 DEF Parts, CallOK, PlaceOK
    <3>2. SeenOK'
      BY <2>3 DEF Parts, CallOK, SeenOK, RowOK
    <3>3. CallOK'
      BY <2>3, <3>1, <3>2, CallStays DEF CallOK
    <3> QED
      BY <1>3, <3>3, PartsStay DEF Enqueue, Parts
  <2> QED
    BY <1>3, <2>1, <2>2, <2>3 DEF Enqueue
<1>4. CASE Undo(r)
  <2>1. RowOK'
    BY <1>4 DEF Undo, Parts, RowOK
  <2> QED
    BY <1>0, <1>4, <2>1, GoType, PartsStay DEF Undo, Parts
<1>5. ASSUME NEW from, NEW place \in {"claim", "take"}, ReserveThen(r, from, place)
      PROVE  Parts'
  <2>1. RestOK'
    BY <1>5, ReleasedType DEF ReserveThen, Parts, RestOK
  <2>2. CallOK'
    BY <1>0, <1>5, GoType, EndType DEF ReserveThen
  <2> QED
    BY <1>5, <2>1, <2>2, PartsStay DEF ReserveThen, Parts
<1>6. CASE Open(r)
  <2>1. RestOK'
    BY <1>6 DEF Open, Parts, RestOK
  <2> QED
    BY <1>6, <2>1, EndType, PartsStay DEF Open, Parts
<1>7. CASE RemoveJobs(r)
  <2>1. JobOK'
    BY <1>7 DEF RemoveJobs, Parts, CallOK, JobOK
  <2>2. GenOK'
    BY <1>7 DEF RemoveJobs, Parts, GenOK
  <2>3. RestOK'
    BY <1>7 DEF RemoveJobs, Parts, RestOK
  <2>4. PlaceOK' /\ SeenOK' /\ LockOK'
    <3>1. CASE at' = [at EXCEPT ![r] = "delete"] /\ UNCHANGED <<op, seen, qSeen, lock>>
      <4>1. PlaceOK'
        BY <1>0, <3>1 DEF Parts, CallOK, PlaceOK
      <4> QED
        BY <3>1, <4>1, CallStays
    <3>2. CASE Forget(r) /\ lock' = Unlocked(r)
      BY <3>2, ForgetType, UnlockedType DEF LockOK
    <3> QED
      BY <1>7, <3>1, <3>2 DEF RemoveJobs
  <2> QED
    BY <1>7, <2>1, <2>2, <2>3, <2>4, PartsStay DEF RemoveJobs, Parts, CallOK
<1>8. CASE Delete(r)
  <2>1. RowOK' /\ SetOK'
    BY <1>8, Zero DEF Delete, RowOK, SetOK
  <2>2. CallOK'
    BY <1>0, <1>8, GoType, EndType DEF Delete
  <2>3. RestOK'
    BY <1>8 DEF Delete, Parts, RestOK
  <2> QED
    BY <1>8, <2>1, <2>2, <2>3, PartsStay DEF Delete, Parts
<1> QED
  BY <1>1, <1>2, <1>3, <1>4, <1>5, <1>6, <1>7, <1>8, PrepareType
     DEF RequestStep, Reserve, Hold

LEMMA BeginType ==
  ASSUME Parts, NEW r \in Requests,
         \/ BeginCreate(r) \/ Retry(r) \/ Start(r) \/ AdminQuestions(r) \/ Remove(r)
         \/ RequestFails(r)
  PROVE  Parts'
<1> USE DEF Callers
<1>0. {"store", "claim", "reserve", "open", "hold", "take", "jobs"} \subseteq Places
  BY DEF Places, Preparing
<1>1. CASE BeginCreate(r)
  <2>1. RowOK'
    BY <1>1 DEF BeginCreate, Parts, RowOK
  <2>2. PlaceOK'
    BY <1>0, <1>1 DEF BeginCreate, Parts, CallOK, PlaceOK
  <2>3. RestOK'
    BY <1>1 DEF BeginCreate, Parts, RestOK
  <2> QED
    BY <1>1, <2>1, <2>2, <2>3, PartsStay, CallStays DEF BeginCreate, Parts, CallOK
<1>2. ASSUME Lock(r) PROVE LockOK'
  BY <1>2 DEF Lock, LockOK
<1>3. /\ UNCHANGED <<seen, qSeen>> => SeenOK'
      /\ UNCHANGED seen /\ qSeen' = [qSeen EXCEPT ![r] = qAttempt] => SeenOK'
      /\ seen' = [seen EXCEPT ![r] = attempt] /\ qSeen' = [qSeen EXCEPT ![r] = qAttempt]
           => SeenOK'
  BY DEF Parts, CallOK, SeenOK, SetOK, RowOK
<1>4. CASE Retry(r)
  BY <1>0, <1>2, <1>3, <1>4, CallType DEF Retry, Parts, CallOK
<1>5. CASE Start(r)
  BY <1>0, <1>2, <1>3, <1>5, CallType DEF Start, Parts, CallOK
<1>6. CASE AdminQuestions(r)
  BY <1>0, <1>3, <1>6, CallType, CallStays DEF AdminQuestions, Parts, CallOK
<1>7. CASE Remove(r)
  BY <1>0, <1>2, <1>3, <1>7, CallType DEF Remove, Parts, CallOK
<1>8. CASE RequestFails(r)
  <2>1. LockOK'
    BY <1>8, UnlockedType DEF RequestFails, LockOK, Parts, CallOK
  <2>2. BoundOK'
    BY <1>8, AnalysisAssumption DEF RequestFails, Fault, Parts, BoundOK
  <2>3. PlaceOK' /\ SeenOK'
    BY <1>8, ForgetType DEF RequestFails
  <2> QED
    BY <1>8, <2>1, <2>2, <2>3, PartsStay, CallStays DEF RequestFails, Parts, CallOK
<1> QED
  BY <1>1, <1>4, <1>5, <1>6, <1>7, <1>8

LEMMA ProfileType ==
  ASSUME Parts, NEW n \in Attempts, ProfileStep(n) \/ ProfileFails(n)
  PROVE  Parts'
<1> USE DEF Callers
<1>0. {"read_job", "analyze", "job_failed", "prepare", "release", "take"} \subseteq Places
  BY DEF Places, Preparing
<1>1. CASE StartJob(n)
  <2>1. RowOK'
    BY <1>1 DEF StartJob, Parts, RowOK
  <2>2. JobOK'
    BY <1>1 DEF StartJob, Parts, CallOK, JobOK
  <2>3. PlaceOK'
    BY <1>0, <1>1 DEF StartJob, Parts, CallOK, PlaceOK
  <2> QED
    BY <1>1, <2>1, <2>2, <2>3, PartsStay, CallStays DEF StartJob, Parts, CallOK
<1>2. CASE ReadJob(n)
  BY <1>0, <1>2, GoType, EndType, PartsStay DEF ReadJob, Parts
<1>3. CASE Conclude(n)
  <2>1. RowOK'
    <3>1. n \in 0..MaxAttempts
      BY AnalysisAssumption DEF Attempts
    <3>2. /\ status' \in Verdicts \cup {"FAILED", status}
          /\ stale' \in {FALSE, stale} /\ author' \in {n, author}
          /\ UNCHANGED <<cv, attempt>>
      BY <1>3 DEF Conclude
    <3> QED
      BY <3>1, <3>2 DEF Parts, RowOK
  <2>2. CallOK'
    BY <1>0, <1>3, GoType, EndType DEF Conclude
  <2> QED
    BY <1>3, <2>1, <2>2, PartsStay DEF Conclude, Parts
<1>4. CASE JobFailed(n)
  <2>1. RowOK'
    BY <1>4 DEF JobFailed, Parts, RowOK
  <2>2. CallOK'
    BY <1>0, <1>4, GoType, EndType DEF JobFailed
  <2> QED
    BY <1>4, <2>1, <2>2, PartsStay DEF JobFailed, Parts
<1>5. CASE Prepare(n)
  <2>1. CASE End(n)
    BY <1>5, <2>1, EndType, PartsStay DEF Prepare, Parts
  <2>2. CASE /\ at' = [at EXCEPT ![n] = "take"]
             /\ qSeen' = [qSeen EXCEPT ![n] = qAttempt]
             /\ UNCHANGED <<op, seen, lock, job>>
    <3>1. PlaceOK'
      BY <1>0, <2>2 DEF Parts, CallOK, PlaceOK
    <3>2. SeenOK'
      BY <2>2 DEF Parts, CallOK, SeenOK, SetOK
    <3> QED
      BY <1>5, <2>2, <3>1, <3>2, PartsStay, CallStays DEF Prepare, Parts, CallOK
  <2> QED
    BY <1>5, <2>1, <2>2 DEF Prepare
<1>6. CASE ProfileFails(n)
  <2>1. BoundOK'
    BY <1>6, AnalysisAssumption DEF ProfileFails, Fault, Parts, BoundOK
  <2>2. CallOK'
    <3>1. CASE job' = [job EXCEPT ![n] = "waiting"] /\ Forget(n) /\ UNCHANGED lock
      <4>1. JobOK'
        BY <3>1 DEF Parts, CallOK, JobOK
      <4> QED
        BY <3>1, <4>1, ForgetType, CallStays DEF CallOK
    <3> QED
      BY <1>0, <1>6, <3>1, GoType, EndType DEF ProfileFails
  <2> QED
    BY <1>6, <2>1, <2>2, PartsStay DEF ProfileFails, Parts
<1> QED
  BY <1>1, <1>2, <1>3, <1>4, <1>5, <1>6, PrepareType DEF ProfileStep

LEMMA QuestionType ==
  ASSUME Parts, NEW n \in Attempts, QuestionStep(n) \/ QuestionFails(n)
  PROVE  Parts'
<1>1. EndQuestionJob(n) => GenOK'
  BY DEF EndQuestionJob, Parts, GenOK
<1>2. ASSUME NEW place \in {"generate", "consume", "release", "job_failed"},
             gen' = [gen EXCEPT ![n] = place]
      PROVE  /\ UNCHANGED qJob => GenOK'
             /\ qJob' = [qJob EXCEPT ![n] = "active"] => GenOK'
  BY <1>2 DEF Parts, GenOK
<1>3. CASE StartQuestionJob(n)
  <2>1. GenOK'
    BY <1>1, <1>2, <1>3 DEF StartQuestionJob
  <2> QED
    BY <1>3, <2>1, PartsStay DEF StartQuestionJob, Parts
<1>4. CASE StoreSet(n)
  <2>1. SetOK'
    BY <1>4 DEF StoreSet, Parts, SetOK
  <2>2. GenOK'
    BY <1>1, <1>2, <1>4 DEF StoreSet, Generate
  <2> QED
    BY <1>4, <2>1, <2>2, PartsStay DEF StoreSet, Parts
<1>5. CASE FailSet(n)
  <2>1. SetOK'
    BY <1>5 DEF FailSet, Parts, SetOK
  <2>2. GenOK'
    BY <1>1, <1>2, <1>5 DEF FailSet, Generate
  <2> QED
    BY <1>5, <2>1, <2>2, PartsStay DEF FailSet, Parts
<1>6. CASE Consume(n)
  <2>1. RestOK'
    BY <1>6, ReleasedType DEF Consume, Parts, RestOK
  <2> QED
    BY <1>1, <1>6, <2>1, PartsStay DEF Consume, Parts
<1>7. CASE ReleaseSet(n)
  <2>1. RestOK'
    BY <1>7, ReleasedType DEF ReleaseSet, Parts, RestOK
  <2> QED
    BY <1>1, <1>7, <2>1, PartsStay DEF ReleaseSet, Parts
<1>8. CASE QuestionFails(n)
  <2>1. GenOK'
    <3>1. \E state \in {"waiting", "active"}, place \in {"idle", "job_failed"} :
            qJob' = [qJob EXCEPT ![n] = state] /\ gen' = [gen EXCEPT ![n] = place]
      BY <1>8 DEF QuestionFails
    <3> QED
      BY <3>1 DEF Parts, GenOK
  <2>2. BoundOK'
    BY <1>8, AnalysisAssumption DEF QuestionFails, Fault, Parts, BoundOK
  <2> QED
    BY <1>8, <2>1, <2>2, PartsStay DEF QuestionFails, Parts
<1> QED
  BY <1>3, <1>4, <1>5, <1>6, <1>7, <1>8 DEF QuestionStep

LEMMA PartsStep == Parts /\ [Next]_vars => Parts'
<1> SUFFICES ASSUME Parts, [Next]_vars PROVE Parts'
  OBVIOUS
<1>1. CASE BecomeStale
  <2>1. RowOK'
    BY <1>1 DEF BecomeStale, Parts, RowOK
  <2>2. SetOK'
    BY <1>1 DEF BecomeStale, Parts, SetOK
  <2> QED
    BY <1>1, <2>1, <2>2, PartsStay DEF BecomeStale, Parts
<1>2. CASE ReservationExpires
  <2>1. RestOK'
    BY <1>2 DEF ReservationExpires, Parts, RestOK
  <2> QED
    BY <1>2, <2>1, PartsStay DEF ReservationExpires, Parts
<1>3. CASE LockExpires
  <2>1. LockOK'
    BY <1>3 DEF LockExpires, LockOK
  <2>2. BoundOK'
    BY <1>3, AnalysisAssumption DEF LockExpires, Parts, BoundOK
  <2> QED
    BY <1>3, <2>1, <2>2, PartsStay, CallStays DEF LockExpires, Parts, CallOK
<1>4. CASE SubmitInterview
  <2>1. RestOK'
    BY <1>4 DEF SubmitInterview, Parts, RestOK
  <2> QED
    BY <1>4, <2>1, PartsStay DEF SubmitInterview, Parts
<1>5. CASE UNCHANGED vars
  BY <1>5, PartsStay DEF vars, Parts
<1> QED
  BY <1>1, <1>2, <1>3, <1>4, <1>5, RequestType, BeginType, ProfileType, QuestionType
     DEF Next

\* Every variable keeps its type; the attempts stay within their bound.
THEOREM TypeCorrect == Spec => []TypeOK
<1>1. Spec => []Parts
  BY PartsInit, PartsStep, PTL DEF Spec
<1> QED
  BY <1>1, PartsOfType, PTL

-----------------------------------------------------------------------------
(* The inductive invariant.                                                  *)

\* READY and the question set come and go together.
SetIsReady == sets = IF qStatus = "READY" THEN {qAttempt} ELSE {}

\* One request creates the CV, and nothing else happens before it is stored.
Creation ==
  /\ \A r \in Requests : at[r] = "store" => cv = "creating" /\ op[r] = "create"
  /\ \A r, s \in Requests : at[r] = "store" /\ at[s] = "store" => r = s
  /\ cv \in {"absent", "creating"} =>
       /\ \A x \in Callers : at[x] \in {"idle", "store"}
       /\ \A n \in Attempts : job[n] = "none"
       /\ status = "PENDING" /\ attempt = 0

\* Credits are consumed when the set is stored.
Charged ==
  /\ \A n \in Attempts : gen[n] = "consume" => cv = "deleted" \/ sets # {}
  /\ rsv = "CONSUMED" => cv = "deleted" \/ sets # {}

\* A worker has an active job; one of the current attempt has begun it.
Workers ==
  /\ \A n \in Attempts : at[n] # "idle" => job[n] = "active"
  /\ cv = "stored" =>
       \A n \in Attempts :
         /\ job[n] # "none" => n <= attempt
         /\ job[n] = "active" /\ n = attempt => status # "PENDING"

\* Only the request that creates the CV claims the first attempt.
FirstAttempt ==
  cv = "stored" /\ attempt = 0 =>
    /\ status = "PENDING"
    /\ \A r \in Requests :
         /\ at[r] \notin {"reserve", "enqueue", "undo"}
         /\ at[r] = "claim" => op[r] = "create"

\* Whoever starts an interview or removes the CV holds the lock, unless it expired.
Locked ==
  /\ expiries = 0 =>
       \A r \in Requests :
         at[r] # "idle" /\ op[r] \in {"retry", "start", "remove", "purge"} => lock = r
  /\ \A r \in Requests :
       /\ at[r] = "reserve" => op[r] = "retry"
       /\ at[r] = "open" => op[r] = "start"
       /\ at[r] \in {"jobs", "delete"} => op[r] \in {"remove", "purge"}
  /\ expiries = 0 /\ running =>
       cv = "stored" /\ \A r \in Requests : at[r] \notin {"jobs", "delete"}

-----------------------------------------------------------------------------
(* Which steps write which columns.                                          *)

\* All steps, for a proof by cases.
LEMMA Steps ==
  ASSUME [Next]_vars
  PROVE  \/ BecomeStale \/ ReservationExpires \/ LockExpires \/ SubmitInterview
         \/ UNCHANGED vars
         \/ \E r \in Requests :
              \/ BeginCreate(r) \/ Retry(r) \/ Start(r) \/ AdminQuestions(r) \/ Remove(r)
              \/ StoreCv(r) \/ Claim(r) \/ Enqueue(r) \/ Undo(r) \/ Reserve(r) \/ Hold(r)
              \/ Open(r) \/ RemoveJobs(r) \/ Delete(r) \/ RequestFails(r)
         \/ \E n \in Attempts :
              \/ StartJob(n) \/ ReadJob(n) \/ Conclude(n) \/ JobFailed(n) \/ Prepare(n)
              \/ ProfileFails(n)
              \/ StartQuestionJob(n) \/ StoreSet(n) \/ FailSet(n) \/ Consume(n)
              \/ ReleaseSet(n) \/ QuestionFails(n)
         \/ \E x \in Callers :
              Take(x) \/ Missed(x) \/ Drop(x) \/ EnqueueSet(x) \/ UndoSet(x) \/ Release(x)
  BY DEF Next, RequestStep, ProfileStep, QuestionStep, PrepareStep, Callers

LEMMA RowMoves ==
  ASSUME [Next]_vars
  PROVE  \/ UNCHANGED <<cv, status, attempt, author>>
         \/ \E r \in Requests :
              BeginCreate(r) \/ StoreCv(r) \/ Claim(r) \/ Undo(r) \/ Delete(r)
         \/ \E n \in Attempts : StartJob(n) \/ Conclude(n) \/ JobFailed(n)
<1> USE DEF rowVars
<1>1. ASSUME \/ BecomeStale \/ ReservationExpires \/ LockExpires \/ SubmitInterview
             \/ UNCHANGED vars
      PROVE  UNCHANGED <<cv, status, attempt, author>>
  BY <1>1 DEF BecomeStale, ReservationExpires, LockExpires, SubmitInterview, vars
<1>2. ASSUME NEW r \in Requests,
             \/ Retry(r) \/ Start(r) \/ AdminQuestions(r) \/ Remove(r)
             \/ Enqueue(r) \/ Reserve(r) \/ Hold(r) \/ Open(r)
             \/ RemoveJobs(r) \/ RequestFails(r)
      PROVE  UNCHANGED <<cv, status, attempt, author>>
  BY <1>2 DEF ReserveThen, Call, Retry, Start, AdminQuestions, Remove,
              Enqueue, Reserve, Hold, Open, RemoveJobs, RequestFails
<1>3. ASSUME NEW n \in Attempts,
             \/ ReadJob(n) \/ Prepare(n) \/ ProfileFails(n) \/ StartQuestionJob(n)
             \/ StoreSet(n) \/ FailSet(n) \/ Consume(n) \/ ReleaseSet(n)
             \/ QuestionFails(n)
      PROVE  UNCHANGED <<cv, status, attempt, author>>
  BY <1>3 DEF ReadJob, Prepare, ProfileFails, StartQuestionJob, StoreSet,
              FailSet, Consume, ReleaseSet, QuestionFails
<1>4. ASSUME NEW x \in Callers,
             \/ Take(x) \/ Missed(x) \/ Drop(x) \/ EnqueueSet(x)
             \/ UndoSet(x) \/ Release(x)
      PROVE  UNCHANGED <<cv, status, attempt, author>>
  BY <1>4 DEF Take, Missed, Drop, EnqueueSet, UndoSet, Release
<1> QED
  BY <1>1, <1>2, <1>3, <1>4, Steps

LEMMA SetMoves ==
  ASSUME [Next]_vars
  PROVE  \/ UNCHANGED <<qStatus, qAttempt, sets>>
         \/ \E r \in Requests : Delete(r)
         \/ \E n \in Attempts : StoreSet(n) \/ FailSet(n)
         \/ \E x \in Callers : Take(x) \/ UndoSet(x)
<1> USE DEF setVars
<1>1. ASSUME \/ BecomeStale \/ ReservationExpires \/ LockExpires \/ SubmitInterview
             \/ UNCHANGED vars
      PROVE  UNCHANGED <<qStatus, qAttempt, sets>>
  BY <1>1 DEF BecomeStale, ReservationExpires, LockExpires, SubmitInterview, vars
<1>2. ASSUME NEW r \in Requests,
             \/ BeginCreate(r) \/ Retry(r) \/ Start(r) \/ AdminQuestions(r)
             \/ Remove(r) \/ StoreCv(r) \/ Claim(r) \/ Enqueue(r)
             \/ Undo(r) \/ Reserve(r) \/ Hold(r) \/ Open(r)
             \/ RemoveJobs(r) \/ RequestFails(r)
      PROVE  UNCHANGED <<qStatus, qAttempt, sets>>
  BY <1>2 DEF ReserveThen, Call, BeginCreate, Retry, Start, AdminQuestions,
              Remove, StoreCv, Claim, Enqueue, Undo, Reserve, Hold, Open,
              RemoveJobs, RequestFails
<1>3. ASSUME NEW n \in Attempts,
             \/ StartJob(n) \/ ReadJob(n) \/ Conclude(n) \/ JobFailed(n)
             \/ Prepare(n) \/ ProfileFails(n) \/ StartQuestionJob(n) \/ Consume(n)
             \/ ReleaseSet(n) \/ QuestionFails(n)
      PROVE  UNCHANGED <<qStatus, qAttempt, sets>>
  BY <1>3 DEF StartJob, ReadJob, Conclude, JobFailed, Prepare,
              ProfileFails, StartQuestionJob, Consume, ReleaseSet,
              QuestionFails
<1>4. ASSUME NEW x \in Callers,
             \/ Missed(x) \/ Drop(x) \/ EnqueueSet(x) \/ Release(x)
      PROVE  UNCHANGED <<qStatus, qAttempt, sets>>
  BY <1>4 DEF Missed, Drop, EnqueueSet, Release
<1> QED
  BY <1>1, <1>2, <1>3, <1>4, Steps

LEMMA GenMoves ==
  ASSUME [Next]_vars
  PROVE  \/ UNCHANGED gen
         \/ \E n \in Attempts : \/ StartQuestionJob(n) \/ StoreSet(n) \/ FailSet(n)
                                \/ Consume(n) \/ ReleaseSet(n) \/ QuestionFails(n)
  BY Steps
     DEF BecomeStale, ReservationExpires, LockExpires, SubmitInterview, vars, genVars,
         Call, BeginCreate, Retry, Start, AdminQuestions, Remove, StoreCv, Claim, Enqueue,
         Undo, Reserve, Hold, ReserveThen, Open, RemoveJobs, Delete, RequestFails,
         StartJob, ReadJob, Conclude, JobFailed, Prepare, ProfileFails, Take, Missed,
         Drop, EnqueueSet, UndoSet, Release

LEMMA CreditMoves ==
  ASSUME [Next]_vars
  PROVE  \/ rsv' = "CONSUMED" => rsv = "CONSUMED"
         \/ \E n \in Attempts : Consume(n)
  BY Steps
     DEF BecomeStale, ReservationExpires, LockExpires, SubmitInterview, vars,
         Call, BeginCreate, Retry, Start, AdminQuestions, Remove, StoreCv, Claim, Enqueue,
         Undo, Reserve, Hold, ReserveThen, Open, RemoveJobs, Delete, RequestFails,
         StartJob, ReadJob, Conclude, JobFailed, Prepare, ProfileFails, StartQuestionJob,
         StoreSet, FailSet, ReleaseSet, QuestionFails, Take, Missed, Drop, EnqueueSet,
         UndoSet, Release, Held, Released

-----------------------------------------------------------------------------
(* The verdict and the question set.                                         *)

LEMMA VerdictStep == VerdictOfCurrentAttempt /\ [Next]_vars => VerdictOfCurrentAttempt'
<1> SUFFICES ASSUME VerdictOfCurrentAttempt, [Next]_vars
             PROVE  VerdictOfCurrentAttempt'
  OBVIOUS
<1> USE DEF VerdictOfCurrentAttempt, Verdicts
<1>1. CASE UNCHANGED <<cv, status, attempt, author>>
  BY <1>1
<1>2. ASSUME NEW r \in Requests,
             BeginCreate(r) \/ StoreCv(r) \/ Claim(r) \/ Undo(r) \/ Delete(r)
      PROVE  VerdictOfCurrentAttempt'
  BY <1>2 DEF BeginCreate, StoreCv, Claim, Undo, Delete
<1>3. ASSUME NEW n \in Attempts, StartJob(n) \/ Conclude(n) \/ JobFailed(n)
      PROVE  VerdictOfCurrentAttempt'
  BY <1>3 DEF StartJob, Conclude, JobFailed, IsAnalysis
<1> QED
  BY <1>1, <1>2, <1>3, RowMoves

\* The verdict on a CV was written by the worker of its current attempt, whatever
\* stale workers are still running.
THEOREM VerdictOfCurrentAttemptAlways == Spec => []VerdictOfCurrentAttempt
<1>1. Init => VerdictOfCurrentAttempt
  BY DEF Init, VerdictOfCurrentAttempt, Verdicts
<1> QED
  BY <1>1, VerdictStep, PTL DEF Spec

LEMMA SetStep == SetIsReady /\ [Next]_vars => SetIsReady'
<1> SUFFICES ASSUME SetIsReady, [Next]_vars PROVE SetIsReady'
  OBVIOUS
<1> USE DEF SetIsReady
<1>1. CASE UNCHANGED <<qStatus, qAttempt, sets>>
  BY <1>1
<1>2. ASSUME NEW r \in Requests, Delete(r) PROVE SetIsReady'
  BY <1>2 DEF Delete
<1>3. ASSUME NEW n \in Attempts, StoreSet(n) \/ FailSet(n) PROVE SetIsReady'
  BY <1>3 DEF StoreSet, FailSet, IsGenerating
<1>4. ASSUME NEW x \in Callers, Take(x) \/ UndoSet(x) PROVE SetIsReady'
  BY <1>4 DEF Take, Takeable, Unprepared, UndoSet
<1> QED
  BY <1>1, <1>2, <1>3, <1>4, SetMoves

\* READY means one complete set, that of the current attempt.
THEOREM OneQuestionSetAlways == Spec => []OneQuestionSet
<1>1. Init => SetIsReady
  BY DEF Init, SetIsReady
<1>2. SetIsReady => OneQuestionSet
  BY DEF SetIsReady, OneQuestionSet
<1> QED
  BY <1>1, <1>2, SetStep, PTL DEF Spec

-----------------------------------------------------------------------------
(* What a step leaves of requests, workers, the lock and the jobs.           *)

Others(x) ==
  \A y \in Callers : y # x => at'[y] = at[y] /\ op'[y] = op[y] /\ seen'[y] = seen[y]

LEMMA GoMove ==
  ASSUME Parts, NEW x \in Callers, NEW place, Go(x, place)
  PROVE  /\ Others(x)
         /\ at'[x] = place /\ op'[x] = op[x] /\ seen'[x] = seen[x]
         /\ lock' = lock /\ job' = job
<1>1. at \in [Callers -> Places] /\ at' = [at EXCEPT ![x] = place]
  BY DEF Parts, CallOK, PlaceOK, Go
<1> QED
  BY <1>1 DEF Go, Others

LEMMA ForgetMove ==
  ASSUME Parts, NEW x \in Callers, Forget(x)
  PROVE  Others(x) /\ at'[x] = "idle"
<1>1. at \in [Callers -> Places] /\ at' = [at EXCEPT ![x] = "idle"]
  BY DEF Parts, CallOK, PlaceOK, Forget
<1>2. /\ op \in [Callers -> {"none", "create", "retry", "questions", "start",
                             "remove", "purge"}]
      /\ op' = [op EXCEPT ![x] = "none"]
  BY DEF Parts, CallOK, PlaceOK, Forget
<1>3. seen \in [Callers -> 0..MaxAttempts] /\ seen' = [seen EXCEPT ![x] = 0]
  BY DEF Parts, CallOK, SeenOK, Forget
<1>4. \A y \in Callers : y # x => at'[y] = at[y]
  BY <1>1
<1>5. \A y \in Callers : y # x => op'[y] = op[y]
  BY <1>2
<1>6. \A y \in Callers : y # x => seen'[y] = seen[y]
  BY <1>3
<1> QED
  BY <1>1, <1>4, <1>5, <1>6 DEF Others

LEMMA EndMove ==
  ASSUME Parts, NEW x \in Callers, End(x)
  PROVE  /\ Others(x) /\ at'[x] = "idle" /\ lock' = Unlocked(x)
         /\ \A n \in Attempts : job'[n] = IF n = x THEN "none" ELSE job[n]
  BY ForgetMove DEF End

LEMMA CallMove ==
  ASSUME Parts, NEW r \in Requests, NEW o, NEW place, Call(r, o, place)
  PROVE  /\ \A y \in Callers : y # r => at'[y] = at[y] /\ op'[y] = op[y]
         /\ at[r] = "idle" /\ at'[r] = place /\ op'[r] = o
         /\ job' = job /\ cv = "stored"
         /\ UNCHANGED <<cv, status, attempt, faults, expiries, running, lost>>
<1>1. at \in [Callers -> Places] /\ at' = [at EXCEPT ![r] = place] /\ r \in Callers
  BY DEF Parts, CallOK, PlaceOK, Call, Callers
<1>2. /\ op \in [Callers -> {"none", "create", "retry", "questions", "start",
                             "remove", "purge"}]
      /\ op' = [op EXCEPT ![r] = o]
  BY DEF Parts, CallOK, PlaceOK, Call
<1>3. \A y \in Callers : y # r => at'[y] = at[y]
  BY <1>1
<1>4. \A y \in Callers : y # r => op'[y] = op[y]
  BY <1>2
<1>5. at'[r] = place /\ op'[r] = o
  BY <1>1, <1>2
<1> QED
  BY <1>3, <1>4, <1>5 DEF Call, rowVars

\* Places at which no claim, removal or interview begins.
Calm == Preparing \cup {"release", "analyze", "job_failed"}

\* x ends, or goes on to such a place.
Quiet(x) ==
  /\ Others(x)
  /\ at[x] # "idle"
  /\ \/ /\ at'[x] = "idle" /\ lock' \in {lock, Unlocked(x)}
        /\ \A n \in Attempts : job'[n] = IF n = x THEN "none" ELSE job[n]
     \/ /\ at[x] # "store" /\ at'[x] \in Calm /\ op'[x] = op[x]
        /\ lock' = lock /\ job' = job

RowsCalm ==
  /\ UNCHANGED <<cv, attempt>>
  /\ status' = "PENDING" <=> status = "PENDING"

LEMMA QuietGo ==
  ASSUME Parts, NEW x \in Callers, NEW place \in Calm, Go(x, place),
         at[x] \notin {"idle", "store"}
  PROVE  Quiet(x)
  BY GoMove DEF Quiet

LEMMA QuietEnd ==
  ASSUME Parts, NEW x \in Callers, End(x), at[x] # "idle"
  PROVE  Quiet(x)
  BY EndMove DEF Quiet

LEMMA QuietMoves ==
  ASSUME Parts, NEW x \in Callers,
         \/ \E r \in Requests : x = r /\ (Hold(r) \/ RequestFails(r))
         \/ \E n \in Attempts : x = n /\ (ReadJob(n) \/ Conclude(n) \/ JobFailed(n) \/ Prepare(n))
         \/ Take(x) \/ Missed(x) \/ EnqueueSet(x) \/ UndoSet(x) \/ Release(x)
  PROVE  Quiet(x) /\ RowsCalm /\ UNCHANGED <<expiries, running>>
<1> USE DEF rowVars, boundVars
<1>0. {"enqueue_set", "take", "missed", "drop", "undo_set", "release", "analyze",
       "job_failed", "prepare"} \subseteq Calm
  BY DEF Calm, Preparing
<1>1. CASE Take(x)
  BY <1>0, <1>1, QuietGo DEF Take, RowsCalm
<1>2. CASE Missed(x)
  BY <1>0, <1>2, QuietGo, QuietEnd DEF Missed, RowsCalm
<1>3. ASSUME at[x] \notin {"idle", "store"}, NEW place \in Calm, at' = [at EXCEPT ![x] = place],
             UNCHANGED <<op, seen, lock, job>>
      PROVE  Quiet(x)
  <2>1. at \in [Callers -> Places]
    BY DEF Parts, CallOK, PlaceOK
  <2> QED
    BY <1>3, <2>1 DEF Quiet, Others
<1>4. CASE EnqueueSet(x)
  <2>1. Quiet(x)
    BY <1>0, <1>3, <1>4, QuietEnd DEF EnqueueSet
  <2> QED
    BY <1>4, <2>1 DEF EnqueueSet, RowsCalm
<1>5. CASE UndoSet(x)
  BY <1>0, <1>5, QuietGo DEF UndoSet, RowsCalm
<1>6. CASE Release(x)
  BY <1>6, QuietEnd DEF Release, RowsCalm
<1>7. ASSUME NEW r \in Requests, x = r, Hold(r)
      PROVE  Quiet(x) /\ RowsCalm /\ UNCHANGED <<expiries, running>>
  BY <1>0, <1>7, QuietGo, QuietEnd DEF Hold, ReserveThen, RowsCalm
<1>8. ASSUME NEW r \in Requests, x = r, RequestFails(r)
      PROVE  Quiet(x) /\ RowsCalm /\ UNCHANGED <<expiries, running>>
  <2>1. \A n \in Attempts : n # x
    BY <1>8, AnalysisAssumption
  <2> QED
    BY <1>8, <2>1, ForgetMove DEF RequestFails, Quiet, RowsCalm
<1>9. ASSUME NEW n \in Attempts, x = n, ReadJob(n)
      PROVE  Quiet(x) /\ RowsCalm /\ UNCHANGED <<expiries, running>>
  BY <1>0, <1>9, QuietGo, QuietEnd DEF ReadJob, RowsCalm
<1>10. ASSUME NEW n \in Attempts, x = n, Conclude(n)
      PROVE  Quiet(x) /\ RowsCalm /\ UNCHANGED <<expiries, running>>
  <2>1. Quiet(x)
    BY <1>0, <1>10, QuietGo, QuietEnd DEF Conclude
  <2>2. RowsCalm
    BY <1>10 DEF Conclude, IsAnalysis, RowsCalm, Verdicts
  <2> QED
    BY <1>10, <2>1, <2>2 DEF Conclude
<1>11. ASSUME NEW n \in Attempts, x = n, JobFailed(n)
      PROVE  Quiet(x) /\ RowsCalm /\ UNCHANGED <<expiries, running>>
  <2>1. Quiet(x)
    BY <1>0, <1>11, QuietGo, QuietEnd DEF JobFailed
  <2>2. RowsCalm
    BY <1>11 DEF JobFailed, IsAnalysis, RowsCalm
  <2> QED
    BY <1>11, <2>1, <2>2 DEF JobFailed
<1>12. ASSUME NEW n \in Attempts, x = n, Prepare(n)
      PROVE  Quiet(x) /\ RowsCalm /\ UNCHANGED <<expiries, running>>
  <2>1. Quiet(x)
    BY <1>0, <1>3, <1>12, QuietEnd DEF Prepare
  <2> QED
    BY <1>12, <2>1 DEF Prepare, RowsCalm
<1> QED
  BY <1>1, <1>2, <1>4, <1>5, <1>6, <1>7, <1>8, <1>9, <1>10, <1>11, <1>12

Base == Creation /\ Workers /\ FirstAttempt /\ Locked

LEMMA QuietBase ==
  ASSUME Parts, Base, NEW x \in Callers, Quiet(x), RowsCalm, UNCHANGED <<expiries, running>>
  PROVE  Base'
<1>0. Calm \cap {"idle", "store", "reserve", "claim", "enqueue", "undo", "open",
                 "jobs", "delete"} = {}
  BY DEF Calm, Preparing
<1>1. Creation'
  <2>1. \A r \in Requests : at'[r] = "store" => at[r] = "store" /\ op'[r] = op[r]
    BY <1>0 DEF Quiet, Others, Callers
  <2>2. ASSUME cv \in {"absent", "creating"}
        PROVE  \A y \in Callers : at'[y] \in {"idle", "store"}
    BY <2>2, <1>0 DEF Quiet, Others, Base, Creation
  <2> QED
    BY <2>1, <2>2 DEF Base, Creation, RowsCalm, Quiet
<1>2. Workers'
  BY <1>0 DEF Base, Workers, RowsCalm, Quiet, Others, Callers
<1>3. FirstAttempt'
  BY <1>0 DEF Base, FirstAttempt, RowsCalm, Quiet, Others, Callers
<1>4. Locked'
  BY <1>0, AnalysisAssumption DEF Base, Locked, RowsCalm, Quiet, Others, Callers, Unlocked
<1> QED
  BY <1>1, <1>2, <1>3, <1>4 DEF Base

-----------------------------------------------------------------------------
(* Requests and workers keep the invariant.                                  *)

baseVars == <<cv, status, attempt, at, op, lock, job, expiries, running>>

LEMMA BaseStays == Base /\ UNCHANGED baseVars => Base'
  BY DEF Base, baseVars, Creation, Workers, FirstAttempt, Locked

LEMMA BaseInit == Init => Base
  BY AnalysisAssumption
     DEF Init, Base, Creation, Workers, FirstAttempt, Locked, Callers, Attempts

LEMMA BaseTime ==
  ASSUME Parts, Base,
         \/ BecomeStale \/ ReservationExpires \/ LockExpires \/ SubmitInterview
         \/ UNCHANGED vars
         \/ \E n \in Attempts :
              \/ StartQuestionJob(n) \/ StoreSet(n) \/ FailSet(n) \/ Consume(n)
              \/ ReleaseSet(n) \/ QuestionFails(n)
  PROVE  Base'
<1> USE DEF rowVars, callVars, boundVars
<1>1. CASE BecomeStale \/ ReservationExpires \/ UNCHANGED vars
  BY <1>1, BaseStays DEF BecomeStale, ReservationExpires, vars, baseVars
<1>2. CASE \E n \in Attempts :
             \/ StartQuestionJob(n) \/ StoreSet(n) \/ FailSet(n) \/ Consume(n)
             \/ ReleaseSet(n) \/ QuestionFails(n)
  BY <1>2, BaseStays DEF StartQuestionJob, StoreSet, FailSet, Consume, ReleaseSet,
                         QuestionFails, baseVars
<1>3. CASE LockExpires
  <2>1. expiries' # 0 /\ UNCHANGED <<cv, status, attempt, at, op, job, running>>
    BY <1>3, AnalysisAssumption DEF LockExpires, Parts, BoundOK
  <2> QED
    BY <2>1 DEF Base, Creation, Workers, FirstAttempt, Locked
<1>4. CASE SubmitInterview
  <2>1. running' = FALSE /\ UNCHANGED <<cv, status, attempt, at, op, lock, job, expiries>>
    BY <1>4 DEF SubmitInterview
  <2> QED
    BY <2>1 DEF Base, Creation, Workers, FirstAttempt, Locked
<1> QED
  BY <1>1, <1>2, <1>3, <1>4

\* A request for a CV that is stored.
LEMMA BaseCall ==
  ASSUME Parts, Base, NEW r \in Requests,
         NEW o \in {"retry", "questions", "start", "remove", "purge"}, NEW place,
         Call(r, o, place),
         Lock(r) \/ (o = "questions" /\ lock' = lock),
         place = "reserve" => o = "retry",
         place = "open" => o = "start",
         place \in {"jobs", "delete"} => o \in {"remove", "purge"} /\ ~ running,
         place \in {"reserve", "claim"} => CanRetry,
         place \notin {"store", "enqueue", "undo"}
  PROVE  Base'
<1>1. /\ \A y \in Callers : y # r => at'[y] = at[y] /\ op'[y] = op[y]
      /\ at[r] = "idle" /\ at'[r] = place /\ op'[r] = o
      /\ job' = job /\ cv = "stored" /\ r \in Callers
      /\ UNCHANGED <<cv, status, attempt, faults, expiries, running, lost>>
  BY CallMove DEF Callers
<1>2. \A n \in Attempts : n # r
  BY AnalysisAssumption
<1>3. Creation'
  BY <1>1 DEF Base, Creation, Callers
<1>4. Workers'
  BY <1>1, <1>2 DEF Base, Workers, Callers
<1>5. FirstAttempt'
  BY <1>1 DEF Base, FirstAttempt, Callers, CanRetry
<1>6. Locked'
  <2>1. \A s \in Requests : /\ at'[s] = "reserve" => op'[s] = "retry"
                            /\ at'[s] = "open" => op'[s] = "start"
                            /\ at'[s] \in {"jobs", "delete"} => op'[s] \in {"remove", "purge"}
    BY <1>1 DEF Base, Locked, Callers
  <2>2. ASSUME expiries' = 0, NEW s \in Requests,
               at'[s] # "idle", op'[s] \in {"retry", "start", "remove", "purge"}
        PROVE  lock' = s
    <3>1. CASE s = r
      BY <1>1, <2>2, <3>1 DEF Lock
    <3>2. CASE s # r
      <4>1. lock = s
        BY <1>1, <2>2, <3>2 DEF Base, Locked, Callers
      <4> QED
        BY <4>1, AnalysisAssumption DEF Lock
    <3> QED
      BY <3>1, <3>2
  <2>3. ASSUME expiries' = 0, running'
        PROVE  cv' = "stored" /\ \A s \in Requests : at'[s] \notin {"jobs", "delete"}
    BY <1>1, <2>3 DEF Base, Locked, Callers
  <2> QED
    BY <2>1, <2>2, <2>3 DEF Locked
<1> QED
  BY <1>3, <1>4, <1>5, <1>6 DEF Base

LEMMA BaseBegin ==
  ASSUME Parts, Base, NEW r \in Requests,
         BeginCreate(r) \/ Retry(r) \/ Start(r) \/ AdminQuestions(r) \/ Remove(r)
  PROVE  Base'
<1>1. CASE BeginCreate(r)
  <2>1. /\ \A y \in Callers : y # r => at'[y] = at[y] /\ op'[y] = op[y]
        /\ at'[r] = "store" /\ op'[r] = "create" /\ r \in Callers
        /\ cv = "absent" /\ cv' = "creating"
        /\ UNCHANGED <<status, attempt, lock, job, expiries, running>>
    <3>1. at \in [Callers -> Places] /\ at' = [at EXCEPT ![r] = "store"] /\ r \in Callers
      BY <1>1 DEF Parts, CallOK, PlaceOK, BeginCreate, Callers
    <3>2. /\ op \in [Callers -> {"none", "create", "retry", "questions", "start",
                                 "remove", "purge"}]
          /\ op' = [op EXCEPT ![r] = "create"]
      BY <1>1 DEF Parts, CallOK, PlaceOK, BeginCreate
    <3>3. \A y \in Callers : y # r => at'[y] = at[y]
      BY <3>1
    <3>4. \A y \in Callers : y # r => op'[y] = op[y]
      BY <3>2
    <3>5. at'[r] = "store" /\ op'[r] = "create"
      BY <3>1, <3>2
    <3> QED
      BY <1>1, <3>1, <3>3, <3>4, <3>5 DEF BeginCreate, boundVars
  <2>2. \A n \in Attempts : n # r
    BY AnalysisAssumption
  <2>3. Creation' /\ Workers' /\ FirstAttempt' /\ Locked'
    BY <2>1, <2>2 DEF Base, Creation, Workers, FirstAttempt, Locked, Callers
  <2> QED
    BY <2>3 DEF Base
<1>2. CASE Retry(r)
  BY <1>2, BaseCall DEF Retry
<1>3. CASE Start(r)
  BY <1>3, BaseCall DEF Start
<1>4. CASE AdminQuestions(r)
  BY <1>4, BaseCall DEF AdminQuestions
<1>5. CASE Remove(r)
  BY <1>5, BaseCall DEF Remove
<1> QED
  BY <1>1, <1>2, <1>3, <1>4, <1>5

LEMMA BaseRequest ==
  ASSUME Parts, Base, NEW r \in Requests,
         \/ StoreCv(r) \/ Claim(r) \/ Enqueue(r) \/ Undo(r) \/ Reserve(r)
         \/ Open(r) \/ RemoveJobs(r) \/ Delete(r)
  PROVE  Base'
<1> USE DEF boundVars
<1>0. /\ r \in Callers /\ \A n \in Attempts : n # r
      /\ Requests \subseteq Callers /\ Attempts \subseteq Callers
      /\ \A s \in Requests : s # r => Unlocked(r) = s \/ lock # s
  BY AnalysisAssumption DEF Callers, Unlocked
<1>1. CASE StoreCv(r)
  <2>1. /\ cv = "creating" /\ op[r] = "create"
        /\ \A s \in Requests : s # r => at[s] # "store"
        /\ \A x \in Callers : at[x] \in {"idle", "store"}
        /\ \A n \in Attempts : job[n] = "none"
        /\ status = "PENDING" /\ attempt = 0
    BY <1>1, <1>0 DEF StoreCv, Base, Creation
  <2>2. /\ cv' \in {"stored", "deleted"} /\ Others(r)
        /\ cv' = "stored" => at'[r] = "claim"
        /\ at'[r] \in {"claim", "release"} /\ op'[r] = op[r] /\ lock' = lock /\ job' = job
        /\ UNCHANGED <<status, attempt, expiries, running>>
    BY <1>0, <1>1, GoMove DEF StoreCv
  <2>3. Creation' /\ Workers'
    BY <1>0, <2>1, <2>2 DEF Base, Creation, Workers, Others
  <2>4. FirstAttempt'
    BY <1>0, <2>1, <2>2 DEF FirstAttempt, Others
  <2>5. Locked'
    BY <1>0, <2>1, <2>2 DEF Base, Locked, Others
  <2> QED
    BY <2>3, <2>4, <2>5 DEF Base
<1>2. CASE Claim(r)
  <2>1. CASE End(r) /\ UNCHANGED <<status, attempt>>
    <3>1. RowsCalm /\ UNCHANGED <<expiries, running>>
      BY <1>2, <2>1 DEF Claim, RowsCalm
    <3>2. Quiet(r)
      BY <1>0, <1>2, <2>1, QuietEnd DEF Claim
    <3> QED
      BY <1>0, <3>1, <3>2, QuietBase
  <2>2. CASE Claimable /\ attempt < MaxAttempts /\ attempt' = attempt + 1 /\ Go(r, "enqueue")
             /\ status' = "PENDING"
    <3>1. /\ Others(r) /\ at'[r] = "enqueue" /\ op'[r] = op[r] /\ lock' = lock /\ job' = job
          /\ UNCHANGED <<cv, expiries, running>> /\ cv = "stored"
      BY <1>0, <1>2, <2>2, GoMove DEF Claim, Claimable
    <3>2. attempt \in Nat
      BY AnalysisAssumption DEF Parts, RowOK
    <3>3. Creation'
      BY <1>0, <3>1 DEF Base, Creation, Others
    <3>4. Workers'
      <4>1. \A n \in Attempts : n \in Int /\ (job[n] # "none" => n <= attempt)
        BY <3>1 DEF Base, Workers, Attempts
      <4> QED
        BY <1>0, <2>2, <3>1, <3>2, <4>1 DEF Base, Workers, Others
    <3>5. FirstAttempt'
      BY <2>2, <3>2 DEF FirstAttempt
    <3>6. Locked'
      BY <1>0, <1>2, <3>1 DEF Base, Locked, Others, Claim
    <3> QED
      BY <3>3, <3>4, <3>5, <3>6 DEF Base
  <2> QED
    BY <1>2, <2>1, <2>2 DEF Claim
<1>3. CASE Enqueue(r)
  <2>0. UNCHANGED <<cv, status, attempt, expiries, running>> /\ at[r] = "enqueue"
    BY <1>3 DEF Enqueue, rowVars
  <2>1. CASE End(r)
    BY <1>0, <2>0, <2>1, QuietEnd, QuietBase DEF RowsCalm
  <2>2. CASE /\ cv = "stored"
             /\ job' = [job EXCEPT ![attempt] = IF @ = "none" THEN "waiting" ELSE @]
             /\ Forget(r) /\ lock' = Unlocked(r)
    <3>1. Others(r) /\ at'[r] = "idle"
      BY <1>0, <2>2, ForgetMove
    <3>2. \A n \in Attempts : /\ job'[n] = "active" <=> job[n] = "active"
                              /\ n # attempt => job'[n] = job[n]
      BY <2>2 DEF Parts, CallOK, JobOK
    <3>3. attempt \in Int
      BY DEF Parts, RowOK
    <3>4. Creation'
      BY <1>0, <2>0, <2>2, <3>1 DEF Base, Creation, Others
    <3>5. Workers'
      BY <1>0, <2>0, <3>1, <3>2, <3>3 DEF Base, Workers, Others
    <3>6. FirstAttempt'
      BY <1>0, <2>0, <3>1 DEF Base, FirstAttempt, Others
    <3>7. Locked'
      BY <1>0, <2>0, <2>2, <3>1 DEF Base, Locked, Others
    <3> QED
      BY <3>4, <3>5, <3>6, <3>7 DEF Base
  <2>3. CASE /\ cv = "stored"
             /\ at' = [at EXCEPT ![r] = "undo"] /\ seen' = [seen EXCEPT ![r] = attempt]
             /\ UNCHANGED <<op, qSeen, lock, job>>
    <3>1. at'[r] = "undo" /\ \A y \in Callers : y # r => at'[y] = at[y]
      BY <1>0, <2>3 DEF Parts, CallOK, PlaceOK
    <3>2. Creation' /\ Workers' /\ FirstAttempt' /\ Locked'
      BY <1>0, <2>0, <2>3, <3>1 DEF Base, Creation, Workers, FirstAttempt, Locked
    <3> QED
      BY <3>2 DEF Base
  <2> QED
    BY <1>3, <2>1, <2>2, <2>3 DEF Enqueue
<1>4. CASE Undo(r)
  <2>1. /\ Others(r) /\ at'[r] = "release" /\ op'[r] = op[r] /\ lock' = lock /\ job' = job
        /\ UNCHANGED <<cv, attempt, expiries, running>> /\ at[r] = "undo"
    BY <1>0, <1>4, GoMove DEF Undo
  <2>2. cv = "stored" => attempt # 0
    BY <2>1 DEF Base, FirstAttempt
  <2>3. status' = status \/ (cv = "stored" /\ status' = "FAILED")
    BY <1>4 DEF Undo, IsAnalysis
  <2>4. Creation' /\ FirstAttempt' /\ Locked'
    BY <1>0, <2>1, <2>2, <2>3 DEF Base, Creation, FirstAttempt, Locked, Others
  <2>5. Workers'
    BY <1>0, <2>1, <2>3 DEF Base, Workers, Others
  <2> QED
    BY <2>4, <2>5 DEF Base
<1>5. CASE Reserve(r)
  <2>0. UNCHANGED <<cv, status, attempt, expiries, running>> /\ at[r] = "reserve"
    BY <1>5 DEF Reserve, ReserveThen, rowVars
  <2>1. CASE End(r)
    BY <1>0, <2>0, <2>1, QuietEnd, QuietBase DEF RowsCalm
  <2>2. CASE Go(r, "claim")
    <3>1. /\ Others(r) /\ at'[r] = "claim" /\ op'[r] = op[r] /\ lock' = lock /\ job' = job
      BY <1>0, <2>2, GoMove
    <3>2. Creation' /\ Workers' /\ FirstAttempt' /\ Locked'
      BY <1>0, <2>0, <3>1 DEF Base, Creation, Workers, FirstAttempt, Locked, Others
    <3> QED
      BY <3>2 DEF Base
  <2> QED
    BY <1>5, <2>1, <2>2 DEF Reserve, ReserveThen
<1>6. CASE Open(r)
  <2>1. /\ Others(r) /\ at'[r] = "idle" /\ lock' = Unlocked(r)
        /\ \A n \in Attempts : job'[n] = job[n]
        /\ UNCHANGED <<cv, status, attempt, expiries>> /\ at[r] = "open"
        /\ running' => running \/ cv = "stored"
    BY <1>0, <1>6, EndMove DEF Open, rowVars
  <2>2. Creation' /\ Workers' /\ FirstAttempt'
    BY <1>0, <2>1 DEF Base, Creation, Workers, FirstAttempt, Others
  <2>3. ASSUME expiries' = 0, NEW s \in Requests, at'[s] \in {"jobs", "delete"}
        PROVE  FALSE
    <3>1. s # r /\ at[s] \in {"jobs", "delete"}
      BY <1>0, <2>1, <2>3 DEF Others
    <3>2. lock = s /\ lock = r
      BY <1>0, <2>1, <2>3, <3>1 DEF Base, Locked
    <3> QED
      BY <3>1, <3>2
  <2>4. Locked'
    BY <1>0, <2>1, <2>3 DEF Base, Locked, Others
  <2> QED
    BY <2>2, <2>4 DEF Base
<1>7. CASE RemoveJobs(r)
  <2>1. /\ UNCHANGED <<cv, status, attempt, expiries, running>> /\ at[r] = "jobs"
        /\ \A n \in Attempts : job'[n] \in {job[n], "none"} /\ (job[n] = "active" => job'[n] = "active")
    BY <1>7 DEF RemoveJobs, rowVars
  <2>2. CASE at' = [at EXCEPT ![r] = "delete"] /\ UNCHANGED <<op, seen, qSeen, lock>>
    <3>1. at'[r] = "delete" /\ \A y \in Callers : y # r => at'[y] = at[y]
      BY <1>0, <2>2 DEF Parts, CallOK, PlaceOK
    <3>2. Creation' /\ Workers'
      BY <1>0, <2>1, <2>2, <3>1 DEF Base, Creation, Workers
    <3>3. FirstAttempt' /\ Locked'
      BY <1>0, <2>1, <2>2, <3>1 DEF Base, FirstAttempt, Locked
    <3> QED
      BY <3>2, <3>3 DEF Base
  <2>3. CASE Forget(r) /\ lock' = Unlocked(r)
    <3>1. Others(r) /\ at'[r] = "idle"
      BY <1>0, <2>3, ForgetMove
    <3>2. Creation' /\ Workers'
      BY <1>0, <2>1, <2>3, <3>1 DEF Base, Creation, Workers, Others
    <3>3. FirstAttempt' /\ Locked'
      BY <1>0, <2>1, <2>3, <3>1 DEF Base, FirstAttempt, Locked, Others
    <3> QED
      BY <3>2, <3>3 DEF Base
  <2> QED
    BY <1>7, <2>2, <2>3 DEF RemoveJobs
<1>8. CASE Delete(r)
  <2>1. /\ Others(r) /\ at'[r] \in {"idle", "release"}
        /\ lock' = Unlocked(r) \/ (lock' = lock /\ op'[r] = op[r])
        /\ \A n \in Attempts : job'[n] = job[n]
        /\ at'[r] = "release" => lock' = lock /\ op'[r] = op[r]
    BY <1>0, <1>8, EndMove, GoMove DEF Delete
  <2>2. cv' = "deleted" /\ running' = FALSE /\ expiries' = expiries /\ at[r] = "delete"
    BY <1>8 DEF Delete
  <2>3. cv \notin {"absent", "creating"}
    BY <1>0, <2>2 DEF Base, Creation
  <2>4. Creation' /\ Workers' /\ FirstAttempt' /\ Locked'
    BY <1>0, <2>1, <2>2, <2>3 DEF Base, Creation, Workers, FirstAttempt, Locked, Others
  <2> QED
    BY <2>4 DEF Base
<1> QED
  BY <1>1, <1>2, <1>3, <1>4, <1>5, <1>6, <1>7, <1>8

LEMMA BaseDrop ==
  ASSUME Parts, Base, NEW x \in Callers, Drop(x)
  PROVE  Base'
<1>0. /\ UNCHANGED <<cv, status, attempt, expiries, running>> /\ at[x] = "drop"
      /\ Requests \subseteq Callers /\ Attempts \subseteq Callers
  BY DEF Drop, rowVars, boundVars, Callers
<1>1. CASE End(x)
  BY <1>0, <1>1, QuietEnd, QuietBase DEF RowsCalm
<1>2. CASE Go(x, "open") /\ op[x] = "start"
  <2>1. Others(x) /\ at'[x] = "open" /\ op'[x] = "start" /\ lock' = lock /\ job' = job
    BY <1>2, GoMove
  <2>2. Creation' /\ Workers' /\ FirstAttempt' /\ Locked'
    BY <1>0, <1>2, <2>1 DEF Base, Creation, Workers, FirstAttempt, Locked, Others
  <2> QED
    BY <2>2 DEF Base
<1> QED
  BY <1>1, <1>2 DEF Drop

LEMMA BaseProfile ==
  ASSUME Parts, Base, NEW n \in Attempts, StartJob(n) \/ ProfileFails(n)
  PROVE  Base'
<1>0. /\ n \in Callers /\ Requests \subseteq Callers /\ Attempts \subseteq Callers
      /\ n \in Int /\ n # 0 /\ \A r \in Requests : r # n
  BY AnalysisAssumption DEF Callers, Attempts
<1>1. CASE StartJob(n)
  <2>1. /\ UNCHANGED <<cv, attempt, op, lock, expiries, running>>
        /\ job[n] = "waiting"
    BY <1>1 DEF StartJob, boundVars
  <2>2. CASE /\ IsAnalysis("PENDING", n)
             /\ status' = "ANALYZING"
             /\ job' = [job EXCEPT ![n] = "active"]
             /\ at' = [at EXCEPT ![n] = "read_job"]
    <3>1. /\ at'[n] = "read_job" /\ \A y \in Callers : y # n => at'[y] = at[y]
      BY <1>0, <2>2 DEF Parts, CallOK, PlaceOK
    <3>2. /\ job'[n] = "active" /\ \A m \in Attempts : m # n => job'[m] = job[m]
      BY <2>2 DEF Parts, CallOK, JobOK
    <3>3. cv = "stored" /\ attempt = n
      BY <2>2 DEF IsAnalysis
    <3>4. Creation' /\ Workers'
      BY <1>0, <2>1, <2>2, <3>1, <3>2, <3>3 DEF Base, Creation, Workers
    <3>5. FirstAttempt' /\ Locked'
      BY <1>0, <2>1, <3>1, <3>3 DEF Base, FirstAttempt, Locked
    <3> QED
      BY <3>4, <3>5 DEF Base
  <2>3. CASE job' = [job EXCEPT ![n] = "none"] /\ UNCHANGED <<status, at>>
    <3>1. /\ job'[n] = "none" /\ \A m \in Attempts : m # n => job'[m] = job[m]
      BY <2>3 DEF Parts, CallOK, JobOK
    <3>2. Creation' /\ Workers' /\ FirstAttempt' /\ Locked'
      BY <1>0, <2>1, <2>3, <3>1 DEF Base, Creation, Workers, FirstAttempt, Locked
    <3> QED
      BY <3>2 DEF Base
  <2> QED
    BY <1>1, <2>2, <2>3 DEF StartJob
<1>2. CASE ProfileFails(n)
  <2>0. UNCHANGED <<cv, status, attempt, expiries, running>>
    BY <1>2 DEF ProfileFails, rowVars
  <2>1. CASE job[n] = "active" /\ job' = [job EXCEPT ![n] = "waiting"] /\ Forget(n)
             /\ UNCHANGED lock
    <3>1. /\ job'[n] = "waiting" /\ \A m \in Attempts : m # n => job'[m] = job[m]
      BY <2>1 DEF Parts, CallOK, JobOK
    <3>2. Others(n) /\ at'[n] = "idle"
      BY <1>0, <2>1, ForgetMove
    <3>3. Creation'
      BY <1>0, <2>0, <2>1, <3>2 DEF Base, Creation, Others
    <3>4. Workers'
      <4>1. \A m \in Attempts : at'[m] # "idle" => job'[m] = "active"
        BY <1>0, <3>1, <3>2 DEF Base, Workers, Others
      <4>2. ASSUME cv = "stored", NEW m \in Attempts
            PROVE  /\ job'[m] # "none" => m <= attempt
                   /\ job'[m] = "active" /\ m = attempt => status # "PENDING"
        BY <2>1, <3>1, <4>2 DEF Base, Workers
      <4> QED
        BY <2>0, <4>1, <4>2 DEF Workers
    <3>5. FirstAttempt' /\ Locked'
      BY <1>0, <2>0, <2>1, <3>2 DEF Base, FirstAttempt, Locked, Others
    <3> QED
      BY <3>3, <3>4, <3>5 DEF Base
  <2>2. CASE job[n] = "active" /\ Go(n, "job_failed")
    <3>1. Others(n) /\ at'[n] = "job_failed" /\ op'[n] = op[n] /\ lock' = lock /\ job' = job
      BY <1>0, <2>2, GoMove
    <3>2. cv \notin {"absent", "creating"}
      BY <2>2 DEF Base, Creation
    <3>3. Creation' /\ Workers' /\ FirstAttempt' /\ Locked'
      BY <1>0, <2>0, <2>2, <3>1, <3>2
         DEF Base, Creation, Workers, FirstAttempt, Locked, Others
    <3> QED
      BY <3>3 DEF Base
  <2>3. CASE End(n)
    <3>1. /\ Others(n) /\ at'[n] = "idle" /\ lock' = Unlocked(n)
          /\ \A m \in Attempts : job'[m] = IF m = n THEN "none" ELSE job[m]
      BY <1>0, <2>3, EndMove
    <3>2. \A r \in Requests : lock = r => lock' = r
      BY <1>0, <3>1 DEF Unlocked
    <3>3. Creation' /\ Workers' /\ FirstAttempt' /\ Locked'
      BY <1>0, <2>0, <3>1, <3>2
         DEF Base, Creation, Workers, FirstAttempt, Locked, Others
    <3> QED
      BY <3>3 DEF Base
  <2> QED
    BY <1>2, <2>1, <2>2, <2>3 DEF ProfileFails
<1> QED
  BY <1>1, <1>2

LEMMA BaseStep == Parts /\ Base /\ [Next]_vars => Base'
<1> SUFFICES ASSUME Parts, Base, [Next]_vars PROVE Base'
  OBVIOUS
<1>1. Requests \subseteq Callers /\ Attempts \subseteq Callers
  BY DEF Callers
<1> QED
  BY <1>1, Steps, BaseTime, BaseBegin, BaseRequest, BaseDrop, BaseProfile, QuietMoves,
     QuietBase
\* Types and Base, of every state.
LEMMA Invariance == Spec => [](Parts /\ Base)
<1>1. Init => Parts /\ Base
  BY PartsInit, BaseInit
<1>2. (Parts /\ Base) /\ [Next]_vars => (Parts /\ Base)'
  BY PartsStep, BaseStep
<1> QED
  BY <1>1, <1>2, PTL DEF Spec

-----------------------------------------------------------------------------
(* Interviews and credits.                                                   *)

LEMMA ExpiriesGrow ==
  ASSUME Parts, [Next]_vars
  PROVE  expiries' = 0 => expiries = 0
<1>1. expiries \in Nat
  BY AnalysisAssumption DEF Parts, BoundOK
<1>2. CASE LockExpires
  BY <1>1, <1>2 DEF LockExpires
<1>3. CASE ~ LockExpires
  BY <1>3, Steps
     DEF boundVars, BecomeStale, ReservationExpires, SubmitInterview, vars,
         Call, BeginCreate, Retry, Start, AdminQuestions, Remove, StoreCv, Claim, Enqueue,
         Undo, Reserve, Hold, ReserveThen, Open, RemoveJobs, Delete, RequestFails,
         StartJob, ReadJob, Conclude, JobFailed, Prepare, ProfileFails, StartQuestionJob,
         StoreSet, FailSet, Consume, ReleaseSet, QuestionFails, Take, Missed, Drop,
         EnqueueSet, UndoSet, Release
<1> QED
  BY <1>2, <1>3

LEMMA RunningStep ==
  ASSUME Parts, Base, [Next]_vars
  PROVE  expiries' = 0 /\ running => cv' = "stored"
<1> SUFFICES ASSUME expiries' = 0, running PROVE cv' = "stored"
  OBVIOUS
<1>1. cv = "stored" /\ \A r \in Requests : at[r] \notin {"jobs", "delete"}
  BY ExpiriesGrow DEF Base, Locked
<1>2. \A r \in Requests : at[r] # "store"
  BY <1>1 DEF Base, Creation
<1>3. ASSUME NEW r \in Requests,
             BeginCreate(r) \/ StoreCv(r) \/ Claim(r) \/ Undo(r) \/ Delete(r)
      PROVE  cv' = cv
  BY <1>1, <1>2, <1>3 DEF BeginCreate, StoreCv, Claim, Undo, Delete
<1>4. ASSUME NEW n \in Attempts, StartJob(n) \/ Conclude(n) \/ JobFailed(n)
      PROVE  cv' = cv
  BY <1>4 DEF StartJob, Conclude, JobFailed
<1> QED
  BY <1>1, <1>3, <1>4, RowMoves

\* While the lock keeps what it promises, start() and the two removals exclude
\* each other: no CV goes away under a running interview.
THEOREM RunningInterviewKeptAlways == Spec => RunningInterviewKept
<1>1. Parts /\ Base /\ [Next]_vars => [expiries' = 0 /\ running => cv' = "stored"]_vars
  BY RunningStep
<1> QED
  BY <1>1, Invariance, PTL DEF Spec, RunningInterviewKept

Delivered == cv = "deleted" \/ sets # {}

LEMMA DeliveredStays ==
  ASSUME Base, Delivered, [Next]_vars
  PROVE  Delivered'
<1> USE DEF Delivered
<1>1. cv = "deleted" => cv' = "deleted"
  BY RowMoves DEF BeginCreate, StoreCv, Claim, Undo, Delete, StartJob, Conclude, JobFailed,
                  Base, Creation
<1>2. sets' = sets \/ sets' # {} \/ cv' = "deleted"
  BY SetMoves DEF Delete, StoreSet, FailSet, Take, UndoSet
<1> QED
  BY <1>1, <1>2

LEMMA ConsumeBegins ==
  ASSUME Parts, [Next]_vars, NEW m \in Attempts, gen'[m] = "consume"
  PROVE  gen[m] = "consume" \/ sets' # {}
<1>1. gen \in [Attempts -> {"idle", "generate", "consume", "release", "job_failed"}]
  BY DEF Parts, GenOK
<1>2. CASE UNCHANGED gen
  BY <1>2
<1>3. ASSUME NEW n \in Attempts,
             \/ StartQuestionJob(n) \/ FailSet(n) \/ Consume(n) \/ ReleaseSet(n)
             \/ QuestionFails(n)
      PROVE  gen[m] = "consume"
  <2>1. PICK place \in {"idle", "generate", "release", "job_failed"} :
          gen' = [gen EXCEPT ![n] = place]
    BY <1>3 DEF StartQuestionJob, FailSet, Consume, ReleaseSet, QuestionFails, Generate,
                EndQuestionJob
  <2> QED
    BY <1>1, <2>1
<1>4. ASSUME NEW n \in Attempts, StoreSet(n)
      PROVE  gen[m] = "consume" \/ sets' # {}
  BY <1>1, <1>4 DEF StoreSet, EndQuestionJob
<1> QED
  BY <1>2, <1>3, <1>4, GenMoves

LEMMA ChargedStep ==
  ASSUME Parts, Base, Charged, [Next]_vars
  PROVE  Charged'
<1>1. ASSUME NEW m \in Attempts, gen'[m] = "consume"
      PROVE  Delivered'
  BY <1>1, ConsumeBegins, DeliveredStays DEF Charged, Delivered
<1>2. ASSUME rsv' = "CONSUMED"
      PROVE  Delivered'
  BY <1>2, CreditMoves, DeliveredStays DEF Consume, Charged, Delivered
<1> QED
  BY <1>1, <1>2 DEF Charged, Delivered

\* Credits are consumed only for a set that is stored.
THEOREM ChargedForQuestionsAlways == Spec => []ChargedForQuestions
<1>1. Init => Charged
  BY DEF Init, Charged
<1>2. Charged => ChargedForQuestions
  BY DEF Charged, ChargedForQuestions
<1>3. (Parts /\ Base) /\ Charged /\ [Next]_vars => Charged'
  BY ChargedStep
<1> QED
  BY <1>1, <1>2, <1>3, Invariance, PTL DEF Spec

-----------------------------------------------------------------------------
(* What carries a PENDING analysis.                                          *)

Carries(s) ==
  \/ at[s] = "claim" /\ op[s] = "create" /\ attempt = 0
  \/ at[s] = "enqueue"
  \/ at[s] = "undo" /\ seen[s] = attempt

JobWaits == attempt \in Attempts /\ job[attempt] = "waiting"

LEMMA CarriedParts == Carried <=> JobWaits \/ \E s \in Requests : Carries(s)
  BY DEF Carried, JobWaits, Carries

\* What a step leaves of the requests that carry.
Same(s) == Carries(s)' <=> Carries(s)

LEMMA SameOthers ==
  ASSUME NEW x, NEW s \in Requests, s # x, UNCHANGED attempt,
         \A y \in Callers : y # x => at'[y] = at[y] /\ op'[y] = op[y] /\ seen'[y] = seen[y]
  PROVE  Same(s)
  BY DEF Same, Carries, Callers

LEMMA SameRest ==
  ASSUME UNCHANGED <<at, op, seen, attempt, job>>
  PROVE  /\ \A s \in Requests : Same(s)
         /\ JobWaits' <=> JobWaits
  BY DEF Same, Carries, JobWaits

\* The calls that begin carry nothing, or claim for a retry.
LEMMA CallCarries ==
  ASSUME Parts, NEW r \in Requests, Retry(r) \/ Start(r) \/ AdminQuestions(r) \/ Remove(r)
  PROVE  /\ \A s \in Requests : Same(s)
         /\ UNCHANGED <<cv, status, attempt, faults, lost, job>>
<1>1. /\ \A y \in Callers : y # r => at'[y] = at[y] /\ op'[y] = op[y]
      /\ at[r] = "idle" /\ at'[r] \notin {"enqueue", "undo"} /\ op'[r] # "create"
      /\ UNCHANGED <<cv, status, attempt, faults, lost, job>>
  BY CallMove DEF Retry, Start, AdminQuestions, Remove
<1>2. \A y \in Callers : y # r => seen'[y] = seen[y]
  BY DEF Parts, CallOK, SeenOK, Retry, Start, AdminQuestions, Remove
<1>3. ~ Carries(r) /\ ~ Carries(r)'
  BY <1>1 DEF Carries
<1> QED
  BY <1>1, <1>2, <1>3, SameOthers DEF Same

\* A worker or a request that ends, or goes on to where nothing is carried.
LEMMA QuietCarries ==
  ASSUME NEW x \in Callers, Quiet(x), UNCHANGED attempt,
         at[x] \notin {"claim", "enqueue", "undo"}
  PROVE  \A s \in Requests : Same(s)
<1>1. ASSUME NEW s \in Requests, s # x PROVE Same(s)
  BY <1>1, SameOthers DEF Quiet, Others
<1>2. ~ Carries(x) /\ ~ Carries(x)'
  BY DEF Quiet, Carries, Calm, Preparing
<1> QED
  BY <1>1, <1>2 DEF Same

\* The jobs that such a step leaves alone: all but that of a worker that began.
LEMMA QuietJobs ==
  ASSUME Parts, Base, NEW x \in Callers, Quiet(x), UNCHANGED attempt, cv = "stored",
         status = "PENDING"
  PROVE  JobWaits' <=> JobWaits
<1>1. CASE JobWaits /\ x = attempt
  <2>1. x \in Attempts /\ job[x] = "waiting" /\ at[x] # "idle"
    BY <1>1 DEF JobWaits, Quiet
  <2> QED
    BY <2>1 DEF Base, Workers
<1>2. CASE ~ JobWaits /\ JobWaits'
  BY <1>2 DEF JobWaits, Quiet
<1>3. CASE JobWaits /\ x # attempt
  BY <1>3 DEF JobWaits, Quiet
<1> QED
  BY <1>1, <1>2, <1>3
\* A step that changes nothing of a PENDING analysis and of what carries it.
Neutral ==
  /\ UNCHANGED <<cv, status, attempt, lost>>
  /\ faults' = faults \/ faults' # 0
  /\ \A s \in Requests : Same(s)
  /\ JobWaits' <=> JobWaits

LEMMA NeutralQuiet ==
  ASSUME Parts, Base, cv = "stored", status = "PENDING", NEW x \in Callers,
         \/ \E r \in Requests : x = r /\ (Hold(r) \/ Reserve(r) \/ Open(r))
         \/ \E n \in Attempts : x = n /\ (ReadJob(n) \/ Conclude(n) \/ JobFailed(n) \/ Prepare(n))
         \/ Take(x) \/ Missed(x) \/ Drop(x) \/ EnqueueSet(x) \/ UndoSet(x) \/ Release(x)
  PROVE  Neutral
<1> USE DEF rowVars, boundVars
<1>1. UNCHANGED <<cv, status, attempt, lost, faults>>
  BY DEF Hold, Reserve, ReserveThen, Open, ReadJob, Conclude, JobFailed, Prepare, IsAnalysis,
         Take, Missed, Drop, EnqueueSet, UndoSet, Release
<1>2. at[x] \notin {"idle", "store", "claim", "enqueue", "undo"}
  BY DEF Hold, Reserve, ReserveThen, Open, ReadJob, Conclude, JobFailed, Prepare,
         Take, Missed, Drop, EnqueueSet, UndoSet, Release
<1>3. CASE Quiet(x)
  BY <1>1, <1>2, <1>3, QuietCarries, QuietJobs DEF Neutral
<1>4. CASE End(x)
  BY <1>2, <1>3, <1>4, QuietEnd
<1>5. ASSUME NEW r \in Requests, x = r, Reserve(r) PROVE Neutral
  <2>1. CASE Go(r, "claim")
    <3>1. Others(r) /\ at'[r] = "claim" /\ op'[r] = "retry" /\ job' = job
      BY <1>5, <2>1, GoMove DEF Reserve, ReserveThen, Base, Locked
    <3>2. ~ Carries(r) /\ ~ Carries(r)'
      BY <1>2, <1>5, <3>1 DEF Carries
    <3>3. \A s \in Requests : Same(s)
      BY <1>1, <3>1, <3>2, SameOthers DEF Same, Others
    <3>4. JobWaits' <=> JobWaits
      BY <1>1, <3>1 DEF JobWaits
    <3> QED
      BY <1>1, <3>3, <3>4 DEF Neutral
  <2> QED
    BY <1>4, <1>5, <2>1 DEF Reserve, ReserveThen
<1>6. CASE Drop(x)
  <2>1. CASE Go(x, "open")
    <3>1. Others(x) /\ at'[x] = "open" /\ job' = job
      BY <2>1, GoMove
    <3>2. ~ Carries(x) /\ ~ Carries(x)'
      BY <1>2, <3>1 DEF Carries
    <3>3. \A s \in Requests : Same(s)
      BY <1>1, <3>1, <3>2, SameOthers DEF Same, Others
    <3>4. JobWaits' <=> JobWaits
      BY <1>1, <3>1 DEF JobWaits
    <3> QED
      BY <1>1, <3>3, <3>4 DEF Neutral
  <2> QED
    BY <1>4, <1>6, <2>1 DEF Drop
<1>7. CASE \E r \in Requests : x = r /\ Open(r)
  BY <1>4, <1>7 DEF Open
<1> QED
  BY <1>3, <1>5, <1>6, <1>7, QuietMoves

LEMMA NeutralTime ==
  ASSUME Parts,
         \/ BecomeStale \/ ReservationExpires \/ LockExpires \/ SubmitInterview
         \/ UNCHANGED vars
         \/ \E n \in Attempts : StartQuestionJob(n) \/ StoreSet(n) \/ FailSet(n)
                                \/ Consume(n) \/ ReleaseSet(n) \/ QuestionFails(n)
  PROVE  Neutral
<1>1. faults \in Nat
  BY AnalysisAssumption DEF Parts, BoundOK
<1>2. UNCHANGED <<cv, status, attempt, lost, at, op, seen, job>>
  BY DEF BecomeStale, ReservationExpires, LockExpires, SubmitInterview, vars, rowVars,
         callVars, StartQuestionJob, StoreSet, FailSet, Consume, ReleaseSet, QuestionFails
<1>3. faults' = faults \/ faults' # 0
  BY <1>1 DEF BecomeStale, ReservationExpires, LockExpires, SubmitInterview, vars,
              boundVars, StartQuestionJob, StoreSet, FailSet, Consume, ReleaseSet,
              QuestionFails, Fault
<1> QED
  BY <1>2, <1>3, SameRest DEF Neutral

LEMMA NeutralSteps ==
  ASSUME Parts, Base, cv = "stored", status = "PENDING", [Next]_vars
  PROVE  \/ Neutral
         \/ \E r \in Requests : \/ Claim(r) \/ Enqueue(r) \/ Undo(r) \/ RemoveJobs(r)
                                \/ Delete(r) \/ RequestFails(r)
         \/ \E n \in Attempts : StartJob(n) \/ ProfileFails(n)
<1>1. ASSUME NEW r \in Requests, BeginCreate(r) \/ StoreCv(r)
      PROVE  FALSE
  BY <1>1 DEF BeginCreate, StoreCv, Base, Creation
<1>2. ASSUME NEW r \in Requests, Retry(r) \/ Start(r) \/ AdminQuestions(r) \/ Remove(r)
      PROVE  Neutral
  BY <1>2, CallCarries DEF Neutral, JobWaits
<1>3. Requests \subseteq Callers /\ Attempts \subseteq Callers
  BY DEF Callers
<1> QED
  BY <1>1, <1>2, <1>3, Steps, NeutralTime, NeutralQuiet
-----------------------------------------------------------------------------
(* A PENDING analysis has a job, or is stranded for good.                    *)

LEMMA WaitingStep ==
  ASSUME Parts, Base, WaitingHasJob, [Next]_vars
  PROVE  WaitingHasJob'
<1> SUFFICES ASSUME cv' = "stored", status' = "PENDING", faults' = 0, ~ lost'
             PROVE  JobWaits' \/ \E s \in Requests : Carries(s)'
  BY CarriedParts DEF WaitingHasJob, Carried, JobWaits, Carries
<1> USE DEF boundVars, rowVars
<1>0. /\ faults \in Nat /\ Requests \subseteq Callers
      /\ \A r \in Requests, n \in Attempts : r # n
  BY AnalysisAssumption DEF Parts, BoundOK, Callers
<1>1. ASSUME NEW r \in Requests, StoreCv(r)
      PROVE  Carries(r)'
  <2>1. op[r] = "create" /\ attempt = 0 /\ UNCHANGED attempt
    BY <1>0, <1>1 DEF StoreCv, Base, Creation
  <2>2. Go(r, "claim")
    BY <1>1 DEF StoreCv
  <2> QED
    BY <1>0, <2>1, <2>2, GoMove DEF Carries
<1>2. ASSUME NEW r \in Requests, Claim(r), Go(r, "enqueue")
      PROVE  Carries(r)'
  BY <1>0, <1>2, GoMove DEF Carries
<1>3. CASE /\ \A r \in Requests : ~ StoreCv(r)
           /\ \A r \in Requests : ~ (Claim(r) /\ Go(r, "enqueue"))
  <2>1. cv = "stored" /\ status = "PENDING" /\ UNCHANGED attempt
    <3>1. ASSUME NEW r \in Requests, BeginCreate(r) \/ Claim(r) \/ Undo(r) \/ Delete(r)
          PROVE  cv = "stored" /\ status = "PENDING" /\ UNCHANGED attempt
      BY <1>3, <3>1 DEF BeginCreate, Claim, Undo, Delete
    <3>2. ASSUME NEW n \in Attempts, StartJob(n) \/ Conclude(n) \/ JobFailed(n)
          PROVE  cv = "stored" /\ status = "PENDING" /\ UNCHANGED attempt
      BY <3>2 DEF StartJob, Conclude, JobFailed, IsAnalysis, Verdicts
    <3> QED
      BY <1>3, <3>1, <3>2, RowMoves
  <2>2. ASSUME faults = 0, ~ lost
        PROVE  JobWaits \/ \E s \in Requests : Carries(s)
    BY <2>1, <2>2, CarriedParts DEF WaitingHasJob
  <2>3. CASE Neutral
    BY <2>2, <2>3 DEF Neutral, Same
  \* Where one request moves and another one, or the job, may go on carrying.
  <2>4. ASSUME NEW r \in Requests, Others(r), ~ Carries(r), faults = 0, ~ lost,
               JobWaits => JobWaits'
        PROVE  JobWaits' \/ \E s \in Requests : Carries(s)'
    BY <2>1, <2>2, <2>4, SameOthers DEF Same, Others
  <2>5. ASSUME NEW r \in Requests, Claim(r)
        PROVE  JobWaits' \/ \E s \in Requests : Carries(s)'
    <3>1. at[r] = "claim" /\ End(r) /\ UNCHANGED <<faults, lost>>
          /\ ~ (Claimable /\ attempt < MaxAttempts)
      BY <1>3, <2>5 DEF Claim
    <3>2. ~ Carries(r)
      BY <2>1, <3>1, AnalysisAssumption DEF Claimable, Carries
    <3>3. Others(r) /\ \A n \in Attempts : job'[n] = job[n]
      BY <1>0, <3>1, EndMove
    <3>4. JobWaits => JobWaits'
      BY <2>1, <3>3 DEF JobWaits
    <3> QED
      BY <2>4, <3>1, <3>2, <3>3, <3>4
  <2>6. ASSUME NEW r \in Requests, Enqueue(r)
        PROVE  JobWaits' \/ \E s \in Requests : Carries(s)'
    <3>1. attempt \in Attempts
      BY <2>1, <2>6 DEF Enqueue, Base, FirstAttempt, Parts, RowOK, Attempts
    <3>2. CASE job' = [job EXCEPT ![attempt] = IF @ = "none" THEN "waiting" ELSE @]
      BY <2>1, <3>1, <3>2 DEF JobWaits, Base, Workers, Parts, CallOK, JobOK
    <3>3. CASE at' = [at EXCEPT ![r] = "undo"] /\ seen' = [seen EXCEPT ![r] = attempt]
      BY <1>0, <2>1, <3>3 DEF Carries, Parts, CallOK, PlaceOK, SeenOK
    <3> QED
      BY <2>1, <2>6, <3>2, <3>3 DEF Enqueue
  <2>7. ASSUME NEW r \in Requests, Undo(r)
        PROVE  JobWaits' \/ \E s \in Requests : Carries(s)'
    <3>1. ~ Carries(r)
      BY <2>1, <2>7 DEF Undo, IsAnalysis, Carries
    <3>2. Others(r) /\ job' = job
      BY <1>0, <2>7, GoMove DEF Undo
    <3> QED
      BY <2>1, <2>4, <2>7, <3>1, <3>2 DEF Undo, JobWaits
  <2>8. ASSUME NEW r \in Requests, RemoveJobs(r)
        PROVE  JobWaits' \/ \E s \in Requests : Carries(s)'
    <3>1. ~ Carries(r) /\ UNCHANGED faults /\ ~ lost
      BY <2>8 DEF RemoveJobs, Carries
    <3>2. Others(r)
      <4>1. CASE at' = [at EXCEPT ![r] = "delete"] /\ UNCHANGED <<op, seen, qSeen, lock>>
        BY <1>0, <4>1 DEF Others, Parts, CallOK, PlaceOK
      <4>2. CASE Forget(r)
        BY <1>0, <4>2, ForgetMove
      <4> QED
        BY <2>8, <4>1, <4>2 DEF RemoveJobs
    <3>3. JobWaits => JobWaits'
      BY <2>1, <2>8 DEF RemoveJobs, JobWaits
    <3> QED
      BY <2>4, <3>1, <3>2, <3>3
  <2>9. ASSUME NEW r \in Requests, Delete(r) \/ RequestFails(r)
        PROVE  FALSE
    BY <1>0, <2>9 DEF Delete, RequestFails, Fault
  <2>10. ASSUME NEW n \in Attempts, ProfileFails(n)
         PROVE  FALSE
    BY <1>0, <2>10 DEF ProfileFails, Fault
  <2>11. ASSUME NEW n \in Attempts, StartJob(n)
         PROVE  JobWaits' \/ \E s \in Requests : Carries(s)'
    <3>1. /\ n # attempt /\ job' = [job EXCEPT ![n] = "none"]
          /\ UNCHANGED <<at, op, seen, attempt, faults, lost>>
      BY <2>1, <2>11 DEF StartJob, IsAnalysis
    <3>2. JobWaits => JobWaits'
      BY <3>1 DEF JobWaits, Parts, CallOK, JobOK
    <3>3. \A s \in Requests : Carries(s) => Carries(s)'
      BY <3>1 DEF Carries
    <3> QED
      BY <2>2, <3>1, <3>2, <3>3
  <2> QED
    BY <2>1, <2>3, <2>5, <2>6, <2>7, <2>8, <2>9, <2>10, <2>11, NeutralSteps
<1> QED
  BY <1>1, <1>2, <1>3

\* Without faults and refused removals no PENDING analysis is without a job.
THEOREM WaitingHasJobAlways == Spec => []WaitingHasJob
<1>1. Init => WaitingHasJob
  BY DEF Init, WaitingHasJob
<1>2. (Parts /\ Base) /\ WaitingHasJob /\ [Next]_vars => WaitingHasJob'
  BY WaitingStep
<1> QED
  BY <1>1, <1>2, Invariance, PTL DEF Spec

LEMMA StrandedStep ==
  ASSUME Parts, Base, Stranded, [Next]_vars
  PROVE  Stranded' \/ cv' = "deleted"
<1> USE DEF boundVars, rowVars
<1>0. cv = "stored" /\ status = "PENDING" /\ Requests \subseteq Callers
  BY DEF Stranded, Callers
<1>1. ~ JobWaits /\ \A s \in Requests : ~ Carries(s)
  BY CarriedParts DEF Stranded
<1>2. ASSUME UNCHANGED <<cv, status, attempt>>, ~ JobWaits', \A s \in Requests : ~ Carries(s)'
      PROVE  Stranded'
  BY <1>0, <1>2 DEF Stranded, Carried, JobWaits, Carries
<1>3. CASE Neutral
  BY <1>1, <1>2, <1>3 DEF Neutral, Same
\* Where one request moves, to where it does not carry.
<1>4. ASSUME NEW r \in Requests, Others(r), UNCHANGED <<cv, status, attempt>>,
             at'[r] \notin {"claim", "enqueue", "undo"},
             \A n \in Attempts : job'[n] = "waiting" => job[n] = "waiting"
      PROVE  Stranded'
  <2>1. \A s \in Requests : ~ Carries(s)'
    BY <1>1, <1>4, SameOthers DEF Same, Others, Carries
  <2>2. ~ JobWaits'
    BY <1>1, <1>4 DEF JobWaits
  <2> QED
    BY <1>2, <1>4, <2>1, <2>2
<1>5. ASSUME NEW r \in Requests, Claim(r)
      PROVE  Stranded'
  <2>1. End(r) /\ UNCHANGED <<cv, status, attempt>>
    BY <1>0, <1>1, <1>5 DEF Claim, Claimable, Base, FirstAttempt, Carries
  <2>2. Others(r) /\ at'[r] = "idle" /\ \A n \in Attempts : job'[n] = "waiting" => job[n] = "waiting"
    BY <1>0, <2>1, EndMove
  <2> QED
    BY <1>4, <2>1, <2>2
<1>6. ASSUME NEW r \in Requests, Enqueue(r)
      PROVE  FALSE
  BY <1>1, <1>6 DEF Enqueue, Carries
<1>7. ASSUME NEW r \in Requests, Undo(r)
      PROVE  Stranded'
  <2>1. UNCHANGED <<cv, status, attempt>> /\ Go(r, "release")
    BY <1>1, <1>7 DEF Undo, IsAnalysis, Carries
  <2> QED
    BY <1>0, <1>4, <2>1, GoMove
<1>8. ASSUME NEW r \in Requests, RemoveJobs(r)
      PROVE  Stranded'
  <2>1. Others(r) /\ at'[r] \in {"idle", "delete"}
    <3>1. CASE at' = [at EXCEPT ![r] = "delete"] /\ UNCHANGED <<op, seen, qSeen, lock>>
      BY <1>0, <3>1 DEF Others, Parts, CallOK, PlaceOK
    <3>2. CASE Forget(r)
      BY <1>0, <3>2, ForgetMove
    <3> QED
      BY <1>8, <3>1, <3>2 DEF RemoveJobs
  <2> QED
    BY <1>4, <1>8, <2>1 DEF RemoveJobs
<1>9. ASSUME NEW r \in Requests, RequestFails(r)
      PROVE  Stranded'
  BY <1>0, <1>4, <1>9, ForgetMove DEF RequestFails
<1>10. ASSUME NEW r \in Requests, Delete(r)
       PROVE  cv' = "deleted"
  BY <1>10 DEF Delete
<1>11. ASSUME NEW n \in Attempts, StartJob(n) \/ ProfileFails(n)
       PROVE  Stranded'
  <2>0. n \in Callers /\ \A r \in Requests : r # n
    BY AnalysisAssumption DEF Callers
  <2>1. UNCHANGED <<cv, status, attempt>>
    BY <1>1, <1>11 DEF StartJob, ProfileFails, IsAnalysis, JobWaits
  <2>2. \A s \in Requests : at'[s] = at[s] /\ op'[s] = op[s] /\ seen'[s] = seen[s]
    <3>1. CASE StartJob(n)
      BY <1>0, <2>0, <3>1 DEF StartJob, Parts, CallOK, PlaceOK
    <3>2. CASE ProfileFails(n)
      BY <1>0, <2>0, <3>2, GoMove, ForgetMove, EndMove DEF ProfileFails, Others
    <3> QED
      BY <1>11, <3>1, <3>2
  <2>3. ~ JobWaits'
    <3>1. attempt \in Attempts => job[attempt] = "none"
      BY <1>0, <1>1 DEF JobWaits, Base, Workers, Parts, CallOK, JobOK
    <3>2. attempt \in Attempts => job'[attempt] # "waiting"
      <4>1. CASE StartJob(n)
        BY <3>1, <4>1 DEF StartJob, Parts, CallOK, JobOK
      <4>2. CASE ProfileFails(n)
        BY <2>0, <3>1, <4>2, GoMove, EndMove DEF ProfileFails, Parts, CallOK, JobOK
      <4> QED
        BY <1>11, <4>1, <4>2
    <3> QED
      BY <2>1, <3>2 DEF JobWaits
  <2> QED
    BY <1>1, <1>2, <2>1, <2>2, <2>3 DEF Carries
<1> QED
  BY <1>0, <1>3, <1>5, <1>6, <1>7, <1>8, <1>9, <1>10, <1>11, NeutralSteps

\* And one that is stranded stays so until its CV is deleted: no request and no
\* job gets it going again.
THEOREM StrandedForGoodAlways == Spec => StrandedForGood
<1>1. Parts /\ Base /\ [Next]_vars => [Stranded => Stranded' \/ cv' = "deleted"]_vars
  BY StrandedStep
<1> QED
  BY <1>1, Invariance, PTL DEF Spec, StrandedForGood

-----------------------------------------------------------------------------
(* The offer.                                                                *)

\* At most one worker owes the charge; what hangs on the row goes with it; no credits
\* are held before the upload.
Dues ==
  /\ \A m, n \in Attempts : gen[m] = "consume" /\ gen[n] = "consume" => m = n
  /\ cv # "stored" => sets = {} /\ ~ running
  /\ cv = "absent" => rsv = "none"

\* A set is stored once in the life of a CV.
StoresSet(n) ==
  /\ IsGenerating(n) /\ sets = {} /\ sets' = {n}
  /\ gen' = [gen EXCEPT ![n] = "consume"]
  /\ UNCHANGED <<cv, status, running, rsv>>

LEMMA GenConsumes ==
  ASSUME Parts, [Next]_vars
  PROVE  \/ \E n \in Attempts : StoresSet(n)
         \/ \A m \in Attempts : gen'[m] = "consume" => gen[m] = "consume"
<1>1. gen \in [Attempts -> {"idle", "generate", "consume", "release", "job_failed"}]
  BY DEF Parts, GenOK
<1>2. CASE UNCHANGED gen
  BY <1>2
<1>3. ASSUME NEW n \in Attempts, NEW place \in {"idle", "generate", "release", "job_failed"},
             gen' = [gen EXCEPT ![n] = place]
      PROVE  \A m \in Attempts : gen'[m] = "consume" => gen[m] = "consume"
  BY <1>1, <1>3
<1>4. ASSUME NEW n \in Attempts,
             \/ StartQuestionJob(n) \/ FailSet(n) \/ Consume(n) \/ ReleaseSet(n)
             \/ QuestionFails(n)
      PROVE  \E place \in {"idle", "generate", "release", "job_failed"} :
               gen' = [gen EXCEPT ![n] = place]
  BY <1>4 DEF StartQuestionJob, FailSet, Consume, ReleaseSet, QuestionFails, Generate,
              EndQuestionJob
<1>5. ASSUME NEW n \in Attempts, StoreSet(n)
      PROVE  \/ StoresSet(n)
             \/ gen' = [gen EXCEPT ![n] = "idle"]
  BY <1>5 DEF StoreSet, StoresSet, Generate, EndQuestionJob, rowVars
<1> QED
  BY <1>2, <1>3, <1>4, <1>5, GenMoves

LEMMA RunningMoves ==
  ASSUME [Next]_vars
  PROVE  \/ running' = running
         \/ SubmitInterview
         \/ \E r \in Requests : Open(r) \/ Delete(r)
  BY Steps
     DEF BecomeStale, ReservationExpires, LockExpires, vars,
         Call, BeginCreate, Retry, Start, AdminQuestions, Remove, StoreCv, Claim, Enqueue,
         Undo, Reserve, Hold, ReserveThen, RemoveJobs, RequestFails,
         StartJob, ReadJob, Conclude, JobFailed, Prepare, ProfileFails, StartQuestionJob,
         StoreSet, FailSet, Consume, ReleaseSet, QuestionFails, Take, Missed,
         Drop, EnqueueSet, UndoSet, Release

\* The steps of the row, as far as the verdict goes.
LEMMA StageMoves ==
  ASSUME Base, [Next]_vars
  PROVE  \/ cv' = cv /\ (status \in Verdicts \/ status' \in Verdicts => status' = status)
         \/ \E r \in Requests : BeginCreate(r) \/ StoreCv(r) \/ Delete(r)
         \/ \E n \in Attempts : Conclude(n)
<1>1. ASSUME NEW r \in Requests, Claim(r) \/ Undo(r)
      PROVE  cv' = cv /\ (status \in Verdicts \/ status' \in Verdicts => status' = status)
  BY <1>1 DEF Claim, Claimable, Undo, IsAnalysis, Verdicts
<1>2. ASSUME NEW n \in Attempts, StartJob(n) \/ JobFailed(n)
      PROVE  cv' = cv /\ (status \in Verdicts \/ status' \in Verdicts => status' = status)
  BY <1>2 DEF StartJob, JobFailed, IsAnalysis, Verdicts
<1> QED
  BY <1>1, <1>2, RowMoves

LEMMA RowStays ==
  ASSUME Base, [Next]_vars, cv = "stored", cv' # "stored"
  PROVE  \E r \in Requests : Delete(r)
<1>1. \A r \in Requests : ~ BeginCreate(r) /\ ~ StoreCv(r)
  BY DEF BeginCreate, StoreCv, Base, Creation
<1>2. ASSUME NEW n \in Attempts, Conclude(n) PROVE cv' = cv
  BY <1>2 DEF Conclude
<1> QED
  BY <1>1, <1>2, StageMoves

LEMMA DuesStep ==
  ASSUME Parts, Base, Charged, Dues, [Next]_vars
  PROVE  Dues'
<1>1. \A m, n \in Attempts : gen'[m] = "consume" /\ gen'[n] = "consume" => m = n
  <2>1. ASSUME NEW s \in Attempts, StoresSet(s)
        PROVE  \A m \in Attempts : gen'[m] = "consume" => m = s
    <3>1. \A m \in Attempts : gen[m] # "consume"
      BY <2>1 DEF StoresSet, IsGenerating, Charged
    <3>2. gen \in [Attempts -> {"idle", "generate", "consume", "release", "job_failed"}]
      BY DEF Parts, GenOK
    <3> QED
      BY <2>1, <3>1, <3>2 DEF StoresSet
  <2> QED
    BY <2>1, GenConsumes DEF Dues
<1>2. ASSUME cv' # "stored" PROVE sets' = {} /\ ~ running'
  <2>1. CASE \E r \in Requests : Delete(r)
    BY <2>1 DEF Delete
  <2>2. CASE ~ \E r \in Requests : Delete(r)
    <3>1. cv # "stored"
      BY <1>2, <2>2, RowStays
    <3>2. sets' = {}
      BY <2>2, <3>1, SetMoves DEF Dues, StoreSet, FailSet, IsGenerating, Take, UndoSet
    <3>3. ~ running'
      BY <2>2, <3>1, RunningMoves DEF Dues, SubmitInterview, Open
    <3> QED
      BY <3>2, <3>3
  <2> QED
    BY <2>1, <2>2
<1>3. ASSUME cv' = "absent" PROVE rsv' = "none"
  <2>1. cv = "absent"
    BY <1>3, StageMoves DEF BeginCreate, StoreCv, Delete, Conclude
  <2>2. /\ \A x \in Callers : at[x] \in {"idle", "store"}
        /\ rsv = "none"
    BY <2>1 DEF Base, Creation, Dues
  <2>3. \A r \in Requests : ~ Reserve(r) /\ ~ Hold(r)
    BY <2>2 DEF Reserve, Hold, ReserveThen, Callers
  <2>4. \A r \in Requests : ~ BeginCreate(r)
    BY <1>3 DEF BeginCreate
  <2> QED
    BY <2>2, <2>3, <2>4, Steps
       DEF BecomeStale, ReservationExpires, LockExpires, SubmitInterview, vars,
           Call, Retry, Start, AdminQuestions, Remove, StoreCv, Claim, Enqueue,
           Undo, Open, RemoveJobs, Delete, RequestFails,
           StartJob, ReadJob, Conclude, JobFailed, Prepare, ProfileFails, StartQuestionJob,
           StoreSet, FailSet, Consume, ReleaseSet, QuestionFails, Take, Missed, Drop,
           EnqueueSet, UndoSet, Release, Released, Consumed
<1> QED
  BY <1>1, <1>2, <1>3 DEF Dues

\* Who touches the credits.
LEMMA RsvMoves ==
  ASSUME [Next]_vars
  PROVE  \/ rsv' = rsv
         \/ ReservationExpires
         \/ \E r \in Requests : BeginCreate(r) \/ Reserve(r) \/ Hold(r)
         \/ \E n \in Attempts : Consume(n) \/ ReleaseSet(n)
         \/ \E x \in Callers : Drop(x) \/ Release(x)
  BY Steps
     DEF BecomeStale, LockExpires, SubmitInterview, vars,
         Call, Retry, Start, AdminQuestions, Remove, StoreCv, Claim, Enqueue,
         Undo, Open, RemoveJobs, Delete, RequestFails,
         StartJob, ReadJob, Conclude, JobFailed, Prepare, ProfileFails, StartQuestionJob,
         StoreSet, FailSet, QuestionFails, Take, Missed, EnqueueSet, UndoSet

LEMMA StageSame ==
  ASSUME cv' = cv, status \in Verdicts \/ status' \in Verdicts => status' = status
  PROVE  Stage' = Stage
  BY DEF Stage

LEMMA DueSame == gen' = gen => Due' = Due
  BY DEF Due

\* Most steps are none of the offer's business.
LEMMA OfferSame ==
  ASSUME cv' = cv, status \in Verdicts \/ status' \in Verdicts => status' = status,
         sets' = sets, gen' = gen, running' = running, rsv' = rsv
  PROVE  UNCHANGED Offer!offerVars
  BY StageSame, DueSame DEF Offer!offerVars

LEMMA OfferWaits ==
  ASSUME Base,
         \/ BecomeStale \/ LockExpires \/ UNCHANGED vars
         \/ \E r \in Requests :
              \/ Retry(r) \/ Start(r) \/ AdminQuestions(r) \/ Remove(r)
              \/ Claim(r) \/ Enqueue(r) \/ Undo(r) \/ RemoveJobs(r) \/ RequestFails(r)
         \/ \E n \in Attempts :
              StartJob(n) \/ ReadJob(n) \/ JobFailed(n) \/ Prepare(n) \/ ProfileFails(n)
         \/ \E x \in Callers : Take(x) \/ Missed(x) \/ EnqueueSet(x) \/ UndoSet(x)
  PROVE  UNCHANGED Offer!offerVars
<1> USE DEF rowVars, setVars, genVars
<1>1. UNCHANGED <<sets, gen, running, rsv>>
  BY DEF BecomeStale, LockExpires, vars, Call, Retry, Start, AdminQuestions, Remove, Claim,
         Enqueue, Undo, RemoveJobs, RequestFails, StartJob, ReadJob, JobFailed, Prepare,
         ProfileFails, Take, Missed, EnqueueSet, UndoSet
<1>2. cv' = cv
  BY DEF BecomeStale, LockExpires, vars, Call, Retry, Start, AdminQuestions, Remove, Claim,
         Enqueue, Undo, RemoveJobs, RequestFails, StartJob, ReadJob, JobFailed, Prepare,
         ProfileFails, Take, Missed, EnqueueSet, UndoSet
<1>3. status \in Verdicts \/ status' \in Verdicts => status' = status
  BY DEF BecomeStale, LockExpires, vars, Call, Retry, Start, AdminQuestions, Remove, Claim,
         Claimable, IsAnalysis, Verdicts,
         Enqueue, Undo, RemoveJobs, RequestFails, StartJob, ReadJob, JobFailed, Prepare,
         ProfileFails, Take, Missed, EnqueueSet, UndoSet
<1> QED
  BY <1>1, <1>2, <1>3, OfferSame

\* Credits are held and given back.
LEMMA OfferCredits ==
  ASSUME Parts, Base,
         \/ ReservationExpires
         \/ \E r \in Requests : Reserve(r) \/ Hold(r)
         \/ \E x \in Callers : Drop(x) \/ Release(x)
  PROVE  [Offer!Next]_(Offer!offerVars)
<1>1. UNCHANGED <<cv, status, sets, gen, running>>
  BY DEF rowVars, setVars, genVars, ReservationExpires, Reserve, Hold, ReserveThen, Drop, Release
<1>2. UNCHANGED <<Stage, Due>>
  BY <1>1, StageSame, DueSame
<1>3. CASE rsv' = rsv
  BY <1>1, <1>3, OfferSame
<1>4. CASE rsv = "PENDING" /\ rsv' = "none"
  <2>1. Offer!GiveBack
    BY <1>1, <1>2, <1>4 DEF Offer!GiveBack
  <2> QED
    BY <2>1 DEF Offer!Next
<1>5. ASSUME rsv = "none", rsv' = "PENDING"
      PROVE  [Offer!Next]_(Offer!offerVars)
  <2>1. \E r \in Requests : at[r] \in {"reserve", "hold"}
    BY <1>5 DEF ReservationExpires, Reserve, Hold, ReserveThen, Drop, Release, Released
  <2>2. cv \notin {"absent", "creating"}
    BY <2>1 DEF Base, Creation, Callers
  <2>3. Stage \notin {"absent", "uploading"}
    BY <2>2 DEF Stage, Verdicts, Parts, RowOK
  <2>4. Offer!Hold
    BY <1>1, <1>2, <1>5, <2>3 DEF Offer!Hold
  <2> QED
    BY <2>4 DEF Offer!Next
<1>6. rsv' = rsv \/ (rsv = "PENDING" /\ rsv' = "none") \/ (rsv = "none" /\ rsv' = "PENDING")
  BY DEF ReservationExpires, Reserve, Hold, ReserveThen, Drop, Release, Released, Held
<1> QED
  BY <1>3, <1>4, <1>5, <1>6

\* An interview begins or ends.
LEMMA OfferInterview ==
  ASSUME Parts, SubmitInterview \/ \E r \in Requests : Open(r)
  PROVE  [Offer!Next]_(Offer!offerVars)
<1>1. UNCHANGED <<cv, status, sets, gen, rsv>>
  BY DEF rowVars, setVars, genVars, SubmitInterview, Open
<1>2. UNCHANGED <<Stage, Due>>
  BY <1>1, StageSame, DueSame
<1>3. CASE running' = running
  BY <1>1, <1>3, OfferSame
<1>4. CASE running /\ running' = FALSE
  <2>1. Offer!HandIn
    BY <1>1, <1>2, <1>4 DEF Offer!HandIn
  <2> QED
    BY <2>1 DEF Offer!Next
<1>5. CASE sets # {} /\ ~ running /\ running' = TRUE
  <2>1. Offer!Open
    BY <1>1, <1>2, <1>5 DEF Offer!Open
  <2> QED
    BY <2>1 DEF Offer!Next
<1>6. \/ running' = running
      \/ running /\ running' = FALSE
      \/ sets # {} /\ ~ running /\ running' = TRUE
  <2>1. running \in BOOLEAN
    BY DEF Parts, RestOK
  <2> QED
    BY <2>1, Zenon DEF SubmitInterview, Open
<1> QED
  BY <1>3, <1>4, <1>5, <1>6

\* The upload, and the verdict.
LEMMA OfferBegins ==
  ASSUME Parts, Base, Dues,
         \/ \E r \in Requests : BeginCreate(r) \/ StoreCv(r)
         \/ \E n \in Attempts : Conclude(n)
  PROVE  [Offer!Next]_(Offer!offerVars)
<1>1. UNCHANGED <<sets, gen, running>>
  BY DEF setVars, genVars, BeginCreate, StoreCv, Conclude
<1>2. Due' = Due
  BY <1>1, DueSame
<1>3. ASSUME NEW r \in Requests, BeginCreate(r) PROVE Offer!Apply
  <2>1. Stage = "absent" /\ Stage' = "uploading" /\ rsv = "none" /\ rsv' = "PENDING"
    BY <1>3 DEF BeginCreate, Stage, Dues
  <2> QED
    BY <1>1, <1>2, <2>1 DEF Offer!Apply
<1>4. ASSUME NEW r \in Requests, StoreCv(r) PROVE Offer!Upload
  <2>1. cv = "creating" /\ status = "PENDING"
    BY <1>4 DEF StoreCv, Base, Creation
  <2>2. Stage = "uploading" /\ Stage' \in {"pending", "removed"} /\ rsv' = rsv
    BY <1>4, <2>1 DEF StoreCv, Stage, Verdicts
  <2> QED
    BY <1>1, <1>2, <2>2 DEF Offer!Upload
<1>5. ASSUME NEW n \in Attempts, Conclude(n) PROVE [Offer!Next]_(Offer!offerVars)
  <2>1. cv' = cv /\ rsv' = rsv
    BY <1>5 DEF Conclude
  <2>2. CASE status' = status \/ (status \notin Verdicts /\ status' \notin Verdicts)
    BY <1>1, <2>1, <2>2, OfferSame
  <2>3. ASSUME NEW verdict \in Verdicts, cv = "stored", status = "ANALYZING", status' = verdict
        PROVE  Offer!Decide(verdict)
    <3>1. Stage = "pending" /\ Stage' = verdict
      BY <2>1, <2>3 DEF Stage, Verdicts
    <3> QED
      BY <1>1, <1>2, <2>1, <3>1 DEF Offer!Decide
  <2>4. \/ status' = status \/ (status \notin Verdicts /\ status' \notin Verdicts)
        \/ \E verdict \in Verdicts : cv = "stored" /\ status = "ANALYZING" /\ status' = verdict
    BY <1>5 DEF Conclude, IsAnalysis, Verdicts
  <2> QED
    BY <2>2, <2>3, <2>4 DEF Offer!Next
<1> QED
  BY <1>3, <1>4, <1>5 DEF Offer!Next

\* The question job: a set is delivered, and paid for or not.
LEMMA OfferQuestions ==
  ASSUME Parts, Dues, Charged, NEW n \in Attempts,
         \/ StartQuestionJob(n) \/ StoreSet(n) \/ FailSet(n) \/ Consume(n) \/ ReleaseSet(n)
         \/ QuestionFails(n)
  PROVE  [Offer!Next]_(Offer!offerVars)
<1>0. gen \in [Attempts -> {"idle", "generate", "consume", "release", "job_failed"}]
  BY DEF Parts, GenOK
<1>1. UNCHANGED <<cv, status, running>>
  BY DEF rowVars, StartQuestionJob, StoreSet, FailSet, Consume, ReleaseSet, QuestionFails
<1>2. Stage' = Stage
  BY <1>1, StageSame
<1>3. ASSUME StoresSet(n) PROVE Offer!Deliver
  <2>1. Stage = "READY"
    BY <1>3 DEF StoresSet, IsGenerating, Stage, Verdicts
  <2>2. Due' = TRUE
    <3>1. gen'[n] = "consume"
      BY <1>0, <1>3 DEF StoresSet
    <3> QED
      BY <3>1 DEF Due
  <2>3. (sets # {}) = FALSE /\ (sets # {})' = TRUE
    BY <1>3 DEF StoresSet
  <2> QED
    BY <1>2, <1>3, <2>1, <2>2, <2>3 DEF Offer!Deliver, StoresSet
<1>4. ASSUME UNCHANGED <<sets, rsv>>,
             \A m \in Attempts : gen'[m] = "consume" => gen[m] = "consume"
      PROVE  [Offer!Next]_(Offer!offerVars)
  <2>1. CASE Due' = Due
    BY <1>1, <1>2, <1>4, <2>1 DEF Offer!offerVars
  <2>2. ASSUME Due, Due' = FALSE PROVE Offer!Waive
    BY <1>1, <1>2, <1>4, <2>2 DEF Offer!Waive
  <2>3. Due' => Due
    BY <1>4 DEF Due
  <2>4. Due' = Due \/ (Due /\ Due' = FALSE)
    <3>1. Due \in BOOLEAN /\ Due' \in BOOLEAN
      BY DEF Due
    <3> QED
      BY <2>3, <3>1
  <2> QED
    BY <2>1, <2>2, <2>4 DEF Offer!Next
<1>5. CASE StartQuestionJob(n) \/ FailSet(n) \/ QuestionFails(n)
  <2>1. PICK place \in {"idle", "generate", "release", "job_failed"} :
          gen' = [gen EXCEPT ![n] = place]
    BY <1>5 DEF StartQuestionJob, FailSet, QuestionFails, Generate, EndQuestionJob
  <2>2. \A m \in Attempts : gen'[m] = "consume" => gen[m] = "consume"
    BY <1>0, <2>1
  <2>3. UNCHANGED <<sets, rsv>>
    BY <1>5 DEF setVars, StartQuestionJob, FailSet, QuestionFails
  <2> QED
    BY <1>4, <2>2, <2>3
<1>6. CASE StoreSet(n)
  <2>1. CASE StoresSet(n)
    BY <1>3, <2>1 DEF Offer!Next
  <2>2. CASE gen' = [gen EXCEPT ![n] = "idle"] /\ UNCHANGED <<sets, rsv>>
    <3>1. \A m \in Attempts : gen'[m] = "consume" => gen[m] = "consume"
      BY <1>0, <2>2
    <3> QED
      BY <1>4, <2>2, <3>1
  <2>3. StoresSet(n) \/ (gen' = [gen EXCEPT ![n] = "idle"] /\ UNCHANGED <<sets, rsv>>)
    BY <1>6 DEF StoreSet, StoresSet, Generate, EndQuestionJob, rowVars
  <2> QED
    BY <2>1, <2>2, <2>3
<1>7. CASE Consume(n)
  <2>1. gen[n] = "consume" /\ gen' = [gen EXCEPT ![n] = "idle"] /\ sets' = sets
    BY <1>7 DEF Consume, EndQuestionJob, setVars
  <2>2. \A m \in Attempts : gen'[m] # "consume"
    BY <1>0, <2>1 DEF Dues
  <2>3. Due /\ Due' = FALSE
    BY <2>1, <2>2 DEF Due
  <2>4. CASE rsv = "PENDING"
    <3>1. rsv' = "CONSUMED"
      BY <1>7, <2>4 DEF Consume, Consumed
    <3>2. Offer!Pay
      BY <1>1, <1>2, <2>1, <2>3, <2>4, <3>1 DEF Offer!Pay
    <3> QED
      BY <3>2 DEF Offer!Next
  <2>5. CASE rsv # "PENDING"
    <3>1. rsv' = rsv
      BY <1>7, <2>5 DEF Consume, Consumed
    <3> QED
      BY <1>4, <2>1, <2>2, <3>1
  <2> QED
    BY <2>4, <2>5
<1>8. CASE ReleaseSet(n)
  <2>1. gen[n] = "release" /\ gen' = [gen EXCEPT ![n] = "idle"] /\ sets' = sets /\ rsv' = Released
    BY <1>8 DEF ReleaseSet, EndQuestionJob, setVars
  <2>2. \A m \in Attempts : gen'[m] = "consume" <=> gen[m] = "consume"
    BY <1>0, <2>1
  <2>3. Due' = Due
    BY <2>2 DEF Due
  <2>4. CASE rsv = "PENDING"
    <3>1. Offer!GiveBack
      BY <1>1, <1>2, <2>1, <2>3, <2>4 DEF Offer!GiveBack, Released
    <3> QED
      BY <3>1 DEF Offer!Next
  <2>5. CASE rsv # "PENDING"
    BY <1>4, <2>1, <2>2, <2>5 DEF Released
  <2> QED
    BY <2>4, <2>5
<1> QED
  BY <1>5, <1>6, <1>7, <1>8

LEMMA OfferRemoves ==
  ASSUME Parts, Base, Dues, NEW r \in Requests, Delete(r)
  PROVE  Offer!RemoveAnyway \/ UNCHANGED Offer!offerVars
<1>1. UNCHANGED <<gen, rsv>>
  BY DEF Delete, genVars
<1>2. cv' = "deleted" /\ sets' = {} /\ running' = FALSE
  BY DEF Delete
<1>3. Due' = Due
  BY <1>1, DueSame
<1>4. cv \in {"stored", "deleted"}
  BY DEF Delete, Base, Creation, Callers, Parts, RowOK
<1>5. Stage' = "removed"
  BY <1>2 DEF Stage
<1>6. CASE cv = "stored"
  <2>1. Stage \in Verdicts \cup {"pending"}
    BY <1>6 DEF Stage
  <2> QED
    BY <1>1, <1>2, <1>3, <1>5, <2>1 DEF Offer!RemoveAnyway
<1>7. CASE cv = "deleted"
  <2>1. Stage = "removed"
    BY <1>7 DEF Stage
  <2>2. sets = {} /\ running = FALSE
    BY <1>7 DEF Dues, Parts, RestOK
  <2> QED
    BY <1>1, <1>2, <1>3, <1>5, <2>1, <2>2 DEF Offer!offerVars
<1> QED
  BY <1>4, <1>6, <1>7

LEMMA OfferInit == Init => Offer!Init
<1> SUFFICES ASSUME Init PROVE Offer!Init
  OBVIOUS
<1>1. Stage = "absent" /\ rsv = "none" /\ running = FALSE /\ sets = {}
  BY DEF Init, Stage
<1>2. Due = FALSE
  BY DEF Init, Due
<1> QED
  BY <1>1, <1>2 DEF Offer!Init

LEMMA OfferStep ==
  ASSUME Parts, Base, Charged, Dues, [Next]_vars
  PROVE  [Offer!Next]_(Offer!offerVars) \/ \E r \in Requests : Delete(r)
  BY Steps, OfferWaits, OfferCredits, OfferInterview, OfferBegins, OfferQuestions

LEMMA OfferInvariance == Spec => [](Parts /\ Base /\ Charged /\ Dues)
<1>1. Init => Charged /\ Dues
  BY DEF Init, Charged, Dues
<1>2. (Parts /\ Base) /\ Charged /\ Dues /\ [Next]_vars => Charged' /\ Dues'
  BY ChargedStep, DuesStep
<1> QED
  BY <1>1, <1>2, Invariance, PTL DEF Spec

\* The pipeline is one offer: a verdict that is final, one set of questions while the CV
\* is there, interviews from it, and one charge at most, for what was delivered, however
\* workers, requests, crons and removals race.
THEOREM OfferImplemented == Spec => ImplementsOffer
<1>1. Parts /\ Base /\ Charged /\ Dues /\ [Next]_vars => [Offer!LooseNext]_(Offer!offerVars)
  BY OfferStep, OfferRemoves DEF Offer!LooseNext
<1> QED
  BY <1>1, OfferInit, OfferInvariance, PTL DEF Spec, ImplementsOffer, Offer!LooseSpec

\* As long as no lock expires under its holder, no removal takes an interview away that
\* is running.
THEOREM RemovalWaits == MaxExpiries = 0 => (Spec => Offer!Spec)
<1> SUFFICES ASSUME MaxExpiries = 0 PROVE Spec => Offer!Spec
  OBVIOUS
<1>1. ASSUME Parts, Base, Charged, Dues, [Next]_vars
      PROVE  [Offer!Next]_(Offer!offerVars)
  <2>1. expiries = 0
    BY <1>1 DEF Parts, BoundOK
  <2>2. ASSUME NEW r \in Requests, Delete(r) PROVE ~ running
    BY <1>1, <2>1, <2>2 DEF Delete, Base, Locked
  <2>3. ASSUME NEW r \in Requests, Delete(r) PROVE [Offer!Next]_(Offer!offerVars)
    BY <1>1, <2>2, <2>3, OfferRemoves DEF Offer!Remove, Offer!Next
  <2> QED
    BY <1>1, <2>3, OfferStep
<1> QED
  BY <1>1, OfferInit, OfferInvariance, PTL DEF Spec, Offer!Spec
=============================================================================
