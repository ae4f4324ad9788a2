-------------------------- MODULE ExplanationsProofs --------------------------
(* Theorems about Explanations, for every set of users and texts and every   *)
(* bound.                                                                    *)
EXTENDS Explanations, FiniteSetTheorems, TLAPS

-----------------------------------------------------------------------------
(* Types.                                                                    *)

\* A request is about a text first, about a term from the claim on.
Asked ==
  \A u \in Users :
    /\ at[u] = "claim" => about[u] \in Keys
    /\ at[u] \in {"reserve", "enqueue", "undo", "release"} => about[u] \in Terms

\* The recovery is at a term for the user it read.
UserRead == \A t \in Terms : rec[t].at # "idle" => rec[t].user \in Users

Shape == TypeOK /\ Asked /\ UserRead

LEMMA TypeInit == Init => Shape
  BY ExplanationAssumption
     DEF Init, NothingKnown, NobodyAsked, Shape, TypeOK, Asked, UserRead,
         Stored, NoAnswer, AtRest

\* What a settlement leaves of the ledger.
LEMMA SettleType ==
  ASSUME TypeOK, NEW u \in Users, NEW t, NEW consume \in BOOLEAN, Settle(u, t, consume)
  PROVE  /\ rsv' \in [Users -> [Terms -> {"none", "PENDING", "CONSUMED", "RELEASED"}]]
         /\ used' \in [Users -> Nat]
         /\ reserved' \in [Users -> Int]
         /\ overtaken' \subseteq Users
<1>1. PICK charged \in {consume, FALSE} :
        /\ rsv' = [rsv EXCEPT ![u][t] = IF charged THEN "CONSUMED" ELSE "RELEASED"]
        /\ reserved' = [reserved EXCEPT ![u] = @ - 1]
        /\ used' = [used EXCEPT ![u] = @ + (IF charged THEN 1 ELSE 0)]
  BY DEF Settle
<1>2. rsv' \in [Users -> [Terms -> {"none", "PENDING", "CONSUMED", "RELEASED"}]]
  BY <1>1 DEF TypeOK
<1>3. used' \in [Users -> Nat]
  BY <1>1 DEF TypeOK
<1>4. reserved' \in [Users -> Int]
  BY <1>1 DEF TypeOK
<1>5. overtaken' \subseteq Users
  BY DEF TypeOK, Settle
<1> QED
  BY <1>2, <1>3, <1>4, <1>5

LEMMA HoldType ==
  ASSUME TypeOK, NEW u \in Users, NEW t, Hold(u, t)
  PROVE  /\ rsv' \in [Users -> [Terms -> {"none", "PENDING", "CONSUMED", "RELEASED"}]]
         /\ used' \in [Users -> Nat]
         /\ reserved' \in [Users -> Int]
         /\ overtaken' \subseteq Users
<1>1. rsv' \in [Users -> [Terms -> {"none", "PENDING", "CONSUMED", "RELEASED"}]]
  BY DEF TypeOK, Hold
<1>2. used' \in [Users -> Nat] /\ reserved' \in [Users -> Int] /\ overtaken' \subseteq Users
  BY DEF TypeOK, Hold
<1> QED
  BY <1>1, <1>2

LEMMA RequestType ==
  ASSUME TypeOK, NEW u \in Users, NEW place, NEW subject, Request(u, place, subject),
         place \in {"idle", "claim", "reserve", "enqueue", "undo", "release"},
         subject \in Keys \cup Terms \cup {None}
  PROVE  /\ at' \in [Users -> {"idle", "claim", "reserve", "enqueue", "undo",
                               "release"}]
         /\ about' \in [Users -> Keys \cup Terms \cup {None}]
  BY DEF TypeOK, Request

LEMMA WorkType ==
  ASSUME TypeOK, NEW u \in Users, NEW t \in Terms, NEW place,
         place \in {"idle", "store", "alias", "charge", "fail", "release"},
         Go(u, t, place) \/ End(u, t) \/ SettleNext(u, t, place)
  PROVE  /\ job' \in [Users -> [Terms -> {"none", "waiting", "active"}]]
         /\ gen' \in [Users -> [Terms -> {"idle", "store", "alias", "charge",
                                          "fail", "release"}]]
         /\ answer' \in [Users -> [Terms -> [key : Keys \cup {None},
                                             term : Terms \cup {None}]]]
<1>1. CASE Go(u, t, place)
  BY <1>1 DEF TypeOK, Go
<1>2. CASE End(u, t)
  <2>1. NoAnswer \in [key : Keys \cup {None}, term : Terms \cup {None}]
    BY DEF NoAnswer
  <2>2. job' \in [Users -> [Terms -> {"none", "waiting", "active"}]]
    BY <1>2 DEF TypeOK, End
  <2>3. gen' \in [Users -> [Terms -> {"idle", "store", "alias", "charge",
                                      "fail", "release"}]]
    BY <1>2 DEF TypeOK, End
  <2>4. answer' \in [Users -> [Terms -> [key : Keys \cup {None},
                                         term : Terms \cup {None}]]]
    BY <1>2, <2>1 DEF TypeOK, End
  <2> QED
    BY <2>2, <2>3, <2>4
<1> QED
  BY <1>1, <1>2 DEF SettleNext

LEMMA FailTermType ==
  ASSUME TypeOK, NEW t, FailTerm(t)
  PROVE  status' \in [Terms -> Stored \cup {"absent", "PENDING", "FAILED"}]
  BY DEF TypeOK, FailTerm

LEMMA TypeRequest ==
  ASSUME TypeOK, Asked, NEW u \in Users, RequestStep(u)
  PROVE  TypeOK'
<1> USE ExplanationAssumption DEF creditVars, termVars, counts, workVars, cronVars, callVars
<1>1. CASE Claim(u)
  <2>1. about[u] \in Keys \cup Terms \cup {None}
    BY DEF TypeOK
  <2>2. ASSUME NEW t \in Terms, ClaimFor(u, t)
        PROVE  /\ status' \in [Terms -> Stored \cup {"absent", "PENDING", "FAILED"}]
               /\ owner' \in [Terms -> Users \cup {None}]
               /\ Request(u, "reserve", t)
    BY <2>2 DEF ClaimFor, TypeOK
  <2>3. CASE \E t \in Owners(about[u]) :
               /\ status[t] = "FAILED"
               /\ ClaimFor(u, t)
               /\ UNCHANGED <<key, text>>
    <3>1. PICK t \in Terms : ClaimFor(u, t) /\ UNCHANGED <<key, text>>
      BY <2>3 DEF Owners
    <3> QED
      BY <1>1, <2>2, <3>1, RequestType DEF Claim, TypeOK
  <2>4. CASE \E t \in Terms :
               /\ Owners(about[u]) = {}
               /\ status[t] = "absent" /\ \A s \in 1..(t - 1) : status[s] # "absent"
               /\ ClaimFor(u, t)
               /\ key' = [key EXCEPT ![t] = about[u]]
               /\ text' = [text EXCEPT ![t] = about[u]]
    <3>1. PICK t \in Terms : /\ ClaimFor(u, t)
                             /\ key' = [key EXCEPT ![t] = about[u]]
                             /\ text' = [text EXCEPT ![t] = about[u]]
      BY <2>4
    <3>2. about[u] \in Keys
      BY <1>1 DEF Claim, Asked
    <3>3. /\ key' \in [Terms -> Keys \cup {None}]
          /\ text' \in [Terms -> Keys \cup {None}]
      BY <3>1, <3>2 DEF TypeOK
    <3> QED
      BY <1>1, <2>2, <3>1, <3>3, RequestType DEF Claim, TypeOK
  <2>5. CASE Request(u, "idle", None) /\ UNCHANGED <<status, owner, key, text>>
    BY <1>1, <2>5, RequestType DEF Claim, TypeOK
  <2> QED
    BY <1>1, <2>3, <2>4, <2>5 DEF Claim
<1>2. CASE Reserve(u)
  <2>1. about[u] \in Keys \cup Terms \cup {None}
    BY DEF TypeOK
  <2>2. /\ rsv' \in [Users -> [Terms -> {"none", "PENDING", "CONSUMED", "RELEASED"}]]
        /\ used' \in [Users -> Nat] /\ reserved' \in [Users -> Int]
        /\ overtaken' \subseteq Users
    <3>1. Hold(u, about[u]) \/ UNCHANGED creditVars
      BY <1>2 DEF Reserve
    <3> QED
      BY <3>1, HoldType DEF TypeOK
  <2>3. Request(u, "enqueue", about[u]) \/ Request(u, "idle", None)
    BY <1>2 DEF Reserve
  <2> QED
    BY <1>2, <2>1, <2>2, <2>3, RequestType DEF Reserve, TypeOK
<1>3. CASE Enqueue(u)
  <2>1. about[u] \in Keys \cup Terms \cup {None}
    BY DEF TypeOK
  <2>2. Request(u, "idle", None) \/ Request(u, "undo", about[u])
    BY <1>3 DEF Enqueue
  <2>3. job' \in [Users -> [Terms -> {"none", "waiting", "active"}]]
    <3>1. job' = [job EXCEPT ![u][about[u]] = "waiting"] \/ job' = job
      BY <1>3 DEF Enqueue
    <3>2. job \in [Users -> [Terms -> {"none", "waiting", "active"}]]
      BY DEF TypeOK
    <3> QED
      BY <3>1, <3>2
  <2> QED
    BY <1>3, <2>1, <2>2, <2>3, RequestType DEF Enqueue, TypeOK
<1>4. CASE Undo(u)
  <2>1. about[u] \in Keys \cup Terms \cup {None}
    BY DEF TypeOK
  <2>2. FailTerm(about[u])
    BY <1>4 DEF Undo
  <2>3. Request(u, "release", about[u]) \/ Request(u, "idle", None)
    BY <1>4 DEF Undo
  <2> QED
    BY <1>4, <2>1, <2>2, <2>3, FailTermType, RequestType DEF Undo, FailTerm, TypeOK
<1>5. CASE GiveBack(u)
  <2>1. Settle(u, about[u], FALSE) /\ Request(u, "idle", None)
    BY <1>5 DEF GiveBack
  <2>2. /\ rsv' \in [Users -> [Terms -> {"none", "PENDING", "CONSUMED", "RELEASED"}]]
        /\ used' \in [Users -> Nat] /\ reserved' \in [Users -> Int]
        /\ overtaken' \subseteq Users
    BY <2>1, SettleType
  <2>3. /\ at' \in [Users -> {"idle", "claim", "reserve", "enqueue", "undo",
                               "release"}]
        /\ about' \in [Users -> Keys \cup Terms \cup {None}]
    BY <2>1, RequestType
  <2> QED
    BY <1>5, <2>2, <2>3 DEF GiveBack, TypeOK
<1> QED
  BY <1>1, <1>2, <1>3, <1>4, <1>5 DEF RequestStep

LEMMA TypeWork ==
  ASSUME TypeOK, NEW u \in Users, NEW t \in Terms,
         WorkerStep(u, t) \/ WorkerFails(u, t) \/ ExpiryStep(u, t)
  PROVE  TypeOK'
<1> USE ExplanationAssumption DEF creditVars, termVars, counts, workVars, cronVars, callVars
<1>1. CASE Generate(u, t)
  <2>1. \/ End(u, t)
        \/ /\ job' = [job EXCEPT ![u][t] = "active"]
           /\ \/ gen' = [gen EXCEPT ![u][t] = "fail"] /\ UNCHANGED answer
              \/ /\ gen' = [gen EXCEPT ![u][t] = "store"]
                 /\ \E c \in Keys, s \in Terms \cup {None} :
                      answer' = [answer EXCEPT ![u][t] = [key |-> c, term |-> s]]
    <3>1. \A c \in Keys : Canonical(t, c) # {} =>
             (CHOOSE s \in Canonical(t, c) : TRUE) \in Terms
      BY DEF Canonical, Owners
    <3> QED
      BY <1>1, <3>1 DEF Generate
  <2>2. CASE End(u, t)
    BY <1>1, <2>2, WorkType DEF Generate, TypeOK
  <2>3. CASE ~ End(u, t)
    <3>1. job' \in [Users -> [Terms -> {"none", "waiting", "active"}]]
      <4>1. job' = [job EXCEPT ![u][t] = "active"]
        BY <2>1, <2>3
      <4>2. job \in [Users -> [Terms -> {"none", "waiting", "active"}]]
        BY DEF TypeOK
      <4> QED
        BY <4>1, <4>2
    <3>2. gen' \in [Users -> [Terms -> {"idle", "store", "alias", "charge",
                                        "fail", "release"}]]
      <4>1. gen' = [gen EXCEPT ![u][t] = "fail"] \/ gen' = [gen EXCEPT ![u][t] = "store"]
        BY <2>1, <2>3
      <4>2. gen \in [Users -> [Terms -> {"idle", "store", "alias", "charge",
                                        "fail", "release"}]]
        BY DEF TypeOK
      <4> QED
        BY <4>1, <4>2
    <3>3. answer' \in [Users -> [Terms -> [key : Keys \cup {None},
                                           term : Terms \cup {None}]]]
      <4>1. CASE UNCHANGED answer
        BY <4>1 DEF TypeOK
      <4>2. ASSUME NEW c \in Keys, NEW s \in Terms \cup {None},
                   answer' = [answer EXCEPT ![u][t] = [key |-> c, term |-> s]]
            PROVE  answer' \in [Users -> [Terms -> [key : Keys \cup {None},
                                                    term : Terms \cup {None}]]]
        <5>1. [key |-> c, term |-> s] \in [key : Keys \cup {None}, term : Terms \cup {None}]
          OBVIOUS
        <5> QED
          BY <4>2, <5>1 DEF TypeOK
      <4> QED
        BY <2>1, <2>3, <4>1, <4>2
    <3> QED
      BY <1>1, <3>1, <3>2, <3>3 DEF Generate, TypeOK
  <2> QED
    BY <2>2, <2>3
<1>2. CASE Merge(u, t)
  <2>1. SettleNext(u, t, "charge")
    BY <1>2 DEF Merge
  <2>2. answer[u][t].term \in Terms
    BY <1>2 DEF Merge, TypeOK
  <2>3. /\ status' \in [Terms -> Stored \cup {"absent", "PENDING", "FAILED"}]
        /\ into' \in [Terms -> Terms \cup {None}]
        /\ alias' \in [Keys -> Terms \cup {None}]
    BY <1>2, <2>2 DEF Merge, TypeOK, Stored
  <2> QED
    BY <1>2, <2>1, <2>3, WorkType DEF Merge, TypeOK
<1>3. CASE Store(u, t)
  <2>1. Go(u, t, "alias") \/ Go(u, t, "fail") \/ SettleNext(u, t, "charge")
    BY <1>3 DEF Store
  <2>2. /\ status' \in [Terms -> Stored \cup {"absent", "PENDING", "FAILED"}]
        /\ key' \in [Terms -> Keys \cup {None}]
    <3>1. \/ /\ status' = [status EXCEPT ![t] = "READY"]
             /\ key' = [key EXCEPT ![t] = answer[u][t].key]
          \/ UNCHANGED <<status, key>>
      BY <1>3 DEF Store
    <3>2. answer[u][t].key \in Keys \cup {None}
      BY DEF TypeOK
    <3> QED
      BY <3>1, <3>2 DEF TypeOK, Stored
  <2> QED
    BY <1>3, <2>1, <2>2, WorkType DEF Store, TypeOK
<1>4. CASE StoreAlias(u, t)
  <2>1. SettleNext(u, t, "charge") /\ alias' \in [Keys -> Terms \cup {None}]
    BY <1>4 DEF StoreAlias, TypeOK
  <2> QED
    BY <1>4, <2>1, WorkType DEF StoreAlias, TypeOK
<1>5. CASE Charge(u, t)
  <2>1. Settle(u, t, TRUE) /\ End(u, t)
    BY <1>5 DEF Charge
  <2>2. /\ rsv' \in [Users -> [Terms -> {"none", "PENDING", "CONSUMED", "RELEASED"}]]
        /\ used' \in [Users -> Nat] /\ reserved' \in [Users -> Int]
        /\ overtaken' \subseteq Users
    BY <2>1, SettleType
  <2> QED
    BY <1>5, <2>1, <2>2, WorkType DEF Charge, TypeOK
<1>6. CASE Fail(u, t)
  <2>1. FailTerm(t) /\ SettleNext(u, t, "release")
    BY <1>6 DEF Fail
  <2>2. status' \in [Terms -> Stored \cup {"absent", "PENDING", "FAILED"}]
    BY <2>1, FailTermType
  <2> QED
    BY <1>6, <2>1, <2>2, WorkType DEF Fail, FailTerm, TypeOK
<1>7. CASE Release(u, t)
  <2>1. Settle(u, t, FALSE) /\ End(u, t)
    BY <1>7 DEF Release
  <2>2. /\ rsv' \in [Users -> [Terms -> {"none", "PENDING", "CONSUMED", "RELEASED"}]]
        /\ used' \in [Users -> Nat] /\ reserved' \in [Users -> Int]
        /\ overtaken' \subseteq Users
    BY <2>1, SettleType
  <2> QED
    BY <1>7, <2>1, <2>2, WorkType DEF Release, TypeOK
<1>8. CASE WorkerFails(u, t)
  <2>1. faults' \in 0..MaxFaults
    BY <1>8 DEF WorkerFails, TypeOK
  <2>2. /\ job' \in [Users -> [Terms -> {"none", "waiting", "active"}]]
        /\ gen' \in [Users -> [Terms -> {"idle", "store", "alias", "charge",
                                         "fail", "release"}]]
        /\ answer' \in [Users -> [Terms -> [key : Keys \cup {None},
                                            term : Terms \cup {None}]]]
    <3>1. CASE Go(u, t, "fail")
      BY <3>1, WorkType
    <3>2. ASSUME NEW state \in {"waiting", "none"},
                 job' = [job EXCEPT ![u][t] = state],
                 gen' = [gen EXCEPT ![u][t] = "idle"],
                 answer' = [answer EXCEPT ![u][t] = NoAnswer]
          PROVE  /\ job' \in [Users -> [Terms -> {"none", "waiting", "active"}]]
                 /\ gen' \in [Users -> [Terms -> {"idle", "store", "alias", "charge",
                                                  "fail", "release"}]]
                 /\ answer' \in [Users -> [Terms -> [key : Keys \cup {None},
                                                     term : Terms \cup {None}]]]
      <4>1. job' \in [Users -> [Terms -> {"none", "waiting", "active"}]]
        BY <3>2 DEF TypeOK
      <4>2. gen' \in [Users -> [Terms -> {"idle", "store", "alias", "charge",
                                          "fail", "release"}]]
        BY <3>2 DEF TypeOK
      <4>3. NoAnswer \in [key : Keys \cup {None}, term : Terms \cup {None}]
        BY DEF NoAnswer
      <4>4. answer' \in [Users -> [Terms -> [key : Keys \cup {None},
                                             term : Terms \cup {None}]]]
        BY <3>2, <4>3 DEF TypeOK
      <4> QED
        BY <4>1, <4>2, <4>4
    <3> QED
      BY <1>8, <3>1, <3>2 DEF WorkerFails
  <2> QED
    BY <1>8, <2>1, <2>2 DEF WorkerFails, TypeOK
<1>9. CASE ReadToExpire(u, t)
  BY <1>9 DEF ReadToExpire, TypeOK
<1>10. CASE Expire(u, t)
  <2>1. Settle(u, t, FALSE) /\ exp' \in [Users -> [Terms -> BOOLEAN]]
    BY <1>10 DEF Expire, TypeOK
  <2>2. /\ rsv' \in [Users -> [Terms -> {"none", "PENDING", "CONSUMED", "RELEASED"}]]
        /\ used' \in [Users -> Nat] /\ reserved' \in [Users -> Int]
        /\ overtaken' \subseteq Users
    BY <2>1, SettleType
  <2> QED
    BY <1>10, <2>1, <2>2 DEF Expire, TypeOK
<1> QED
  BY <1>1, <1>2, <1>3, <1>4, <1>5, <1>6, <1>7, <1>8, <1>9, <1>10
     DEF WorkerStep, ExpiryStep

LEMMA TypeRecovery ==
  ASSUME TypeOK, UserRead, NEW t \in Terms, RecoveryStep(t)
  PROVE  TypeOK'
<1> USE ExplanationAssumption DEF creditVars, termVars, counts, workVars, cronVars, callVars
<1>1. CASE ListStale(t)
  <2>1. [at |-> "fail", user |-> owner[t]]
          \in [at : {"idle", "fail", "release"}, user : Users \cup {None}]
    BY DEF TypeOK
  <2> QED
    BY <1>1, <2>1 DEF ListStale, TypeOK
<1>2. CASE RecoverTerm(t)
  <2>1. FailTerm(t)
    BY <1>2 DEF RecoverTerm
  <2>2. status' \in [Terms -> Stored \cup {"absent", "PENDING", "FAILED"}]
    BY <2>1, FailTermType
  <2>3. rec' \in [Terms -> [at : {"idle", "fail", "release"},
                            user : Users \cup {None}]]
    <3>1. rec \in [Terms -> [at : {"idle", "fail", "release"}, user : Users \cup {None}]]
      BY DEF TypeOK
    <3>2. rec' = [rec EXCEPT ![t] = IF rsv[rec[t].user][t] = "PENDING"
                                      THEN [@ EXCEPT !.at = "release"] ELSE AtRest]
      BY <1>2 DEF RecoverTerm, RecoverNext
    <3> QED
      BY <3>1, <3>2 DEF AtRest
  <2> QED
    BY <1>2, <2>1, <2>2, <2>3 DEF RecoverTerm, FailTerm, TypeOK
<1>3. CASE RecoverCredit(t)
  <2>1. /\ rsv' \in [Users -> [Terms -> {"none", "PENDING", "CONSUMED", "RELEASED"}]]
        /\ used' \in [Users -> Nat] /\ reserved' \in [Users -> Int]
        /\ overtaken' \subseteq Users
    <3>1. rec[t].user \in Users
      BY <1>3 DEF RecoverCredit, UserRead
    <3>2. Settle(rec[t].user, t, FALSE)
      BY <1>3 DEF RecoverCredit
    <3> QED
      BY <3>1, <3>2, SettleType
  <2>2. rec' \in [Terms -> [at : {"idle", "fail", "release"},
                            user : Users \cup {None}]]
    BY <1>3 DEF RecoverCredit, AtRest, TypeOK
  <2> QED
    BY <1>3, <2>1, <2>2 DEF RecoverCredit, TypeOK
<1> QED
  BY <1>1, <1>2, <1>3 DEF RecoveryStep

\* Only the requests move.
LEMMA AskedStep == TypeOK /\ Asked /\ [Next]_vars => Asked'
<1> SUFFICES ASSUME TypeOK, Asked, [Next]_vars PROVE Asked'
  OBVIOUS
<1>1. ASSUME NEW u \in Users, NEW place, NEW subject, Request(u, place, subject),
             \/ place = "idle"
             \/ place = "claim" /\ subject \in Keys
             \/ place \in {"reserve", "enqueue", "undo", "release"} /\ subject \in Terms
      PROVE  Asked'
  BY <1>1 DEF Request, Asked, TypeOK
<1>2. CASE UNCHANGED <<at, about>>
  BY <1>2 DEF Asked
<1>3. ASSUME NEW u \in Users, NEW k \in Keys, Ask(u, k)
      PROVE  Asked'
  BY <1>1, <1>3 DEF Ask
<1>4. ASSUME NEW u \in Users, RequestStep(u)
      PROVE  Asked'
  <2>1. CASE Claim(u)
    <3>1. \/ \E t \in Terms : Request(u, "reserve", t)
          \/ Request(u, "idle", None)
      BY <2>1 DEF Claim, ClaimFor, Owners
    <3> QED
      BY <1>1, <3>1
  <2>2. CASE Reserve(u)
    <3>1. about[u] \in Terms
      BY <2>2 DEF Reserve, Asked
    <3>2. Request(u, "enqueue", about[u]) \/ Request(u, "idle", None)
      BY <2>2 DEF Reserve
    <3> QED
      BY <1>1, <3>1, <3>2
  <2>3. CASE Enqueue(u)
    <3>1. about[u] \in Terms
      BY <2>3 DEF Enqueue, Asked
    <3>2. Request(u, "idle", None) \/ Request(u, "undo", about[u])
      BY <2>3 DEF Enqueue
    <3> QED
      BY <1>1, <3>1, <3>2
  <2>4. CASE Undo(u)
    <3>1. about[u] \in Terms
      BY <2>4 DEF Undo, Asked
    <3>2. Request(u, "release", about[u]) \/ Request(u, "idle", None)
      BY <2>4 DEF Undo
    <3> QED
      BY <1>1, <3>1, <3>2
  <2>5. CASE GiveBack(u)
    BY <1>1, <2>5 DEF GiveBack
  <2> QED
    BY <1>4, <2>1, <2>2, <2>3, <2>4, <2>5 DEF RequestStep
<1>5. ASSUME NEW u \in Users, NEW t \in Terms,
             WorkerStep(u, t) \/ WorkerFails(u, t) \/ ExpiryStep(u, t)
      PROVE  Asked'
  BY <1>2, <1>5
     DEF WorkerStep, Generate, Merge, Store, StoreAlias, Charge, Fail, Release,
         WorkerFails, ExpiryStep, ReadToExpire, Expire, callVars
<1>6. ASSUME NEW t \in Terms, RecoveryStep(t)
      PROVE  Asked'
  BY <1>2, <1>6 DEF RecoveryStep, ListStale, RecoverTerm, RecoverCredit, callVars
<1>7. CASE UNCHANGED vars
  BY <1>2, <1>7 DEF vars, callVars
<1> QED
  BY <1>3, <1>4, <1>5, <1>6, <1>7 DEF Next

LEMMA UserReadStep == TypeOK /\ UserRead /\ [Next]_vars => UserRead'
<1> SUFFICES ASSUME TypeOK, UserRead, [Next]_vars PROVE UserRead'
  OBVIOUS
<1>1. CASE UNCHANGED rec
  BY <1>1 DEF UserRead
<1>2. ASSUME NEW t \in Terms, RecoveryStep(t)
      PROVE  UserRead'
  <2>1. CASE ListStale(t)
    <3>1. owner[t] \in Users
      BY <2>1 DEF ListStale, TypeOK
    <3> QED
      BY <2>1, <3>1 DEF ListStale, UserRead, TypeOK
  <2>2. CASE RecoverTerm(t)
    BY <2>2 DEF RecoverTerm, RecoverNext, AtRest, UserRead, TypeOK
  <2>3. CASE RecoverCredit(t)
    BY <2>3 DEF RecoverCredit, AtRest, UserRead, TypeOK
  <2> QED
    BY <1>2, <2>1, <2>2, <2>3 DEF RecoveryStep
<1>3. ASSUME NEW u \in Users, RequestStep(u)
      PROVE  UserRead'
  BY <1>1, <1>3 DEF RequestStep, Claim, Reserve, Enqueue, Undo, GiveBack, workVars, cronVars
<1>4. ASSUME NEW u \in Users, NEW t \in Terms,
             WorkerStep(u, t) \/ WorkerFails(u, t) \/ ExpiryStep(u, t)
      PROVE  UserRead'
  BY <1>1, <1>4
     DEF WorkerStep, Generate, Merge, Store, StoreAlias, Charge, Fail, Release,
         WorkerFails, ExpiryStep, ReadToExpire, Expire, cronVars
<1>5. ASSUME NEW u \in Users, NEW k \in Keys, Ask(u, k)
      PROVE  UserRead'
  BY <1>1, <1>5 DEF Ask, cronVars
<1>6. CASE UNCHANGED vars
  BY <1>1, <1>6 DEF vars, cronVars
<1> QED
  BY <1>2, <1>3, <1>4, <1>5, <1>6 DEF Next

LEMMA TypeStep == Shape /\ [Next]_vars => Shape'
<1> SUFFICES ASSUME TypeOK, Asked, UserRead, [Next]_vars PROVE TypeOK'
  BY AskedStep, UserReadStep DEF Shape
<1>1. ASSUME NEW u \in Users, NEW k \in Keys, Ask(u, k)
      PROVE  TypeOK'
  <2>1. Request(u, "claim", k) /\ asks' \in 0..MaxAsks
    BY <1>1, ExplanationAssumption DEF Ask, TypeOK
  <2> QED
    BY <1>1, <2>1, RequestType
       DEF Ask, TypeOK, creditVars, termVars, workVars, cronVars
<1>2. CASE UNCHANGED vars
  BY <1>2
     DEF vars, TypeOK, creditVars, termVars, counts, workVars, cronVars, callVars
<1> QED
  BY <1>1, <1>2, TypeRequest, TypeWork, TypeRecovery DEF Next

\* Every variable keeps its type, reserved credits that fell below zero included.
THEOREM TypeCorrect == Spec => []TypeOK
<1>1. Shape => TypeOK
  BY DEF Shape
<1> QED
  BY TypeInit, TypeStep, <1>1, PTL DEF Spec

-----------------------------------------------------------------------------
(* The inductive invariant.                                                  *)

Working(u, t) == gen[u][t] # "idle"

\* A term has one job, and only a job that runs has a worker.
OneWorker ==
  /\ \A t \in Terms : \A u, v \in Users :
       job[u][t] # "none" /\ job[v][t] # "none" => u = v
  /\ \A t \in Terms, u \in Users : Working(u, t) => job[u][t] = "active"

\* A worker stores an explanation only for a term that has none, merges it into
\* one that has, and settles when the row is written.
WorkInOrder ==
  \A t \in Terms, u \in Users :
    /\ gen[u][t] = "store" => status[t] # "READY"
    /\ gen[u][t] \in {"alias", "charge"} => status[t] \in Stored
    /\ answer[u][t].term # None => status[answer[u][t].term] = "READY"

MergedSomewhere == \A t \in Terms : status[t] = "MERGED" => into[t] # None

\* Whoever is at a term that was never merged is its only payer.
PayerWorks ==
  \A t \in Terms, u, v \in Users :
    /\ gen[u][t] \in {"store", "alias", "charge"} /\ into[t] = None
    /\ rsv[v][t] = "CONSUMED"
    => u = v

IInv ==
  /\ OneWorker /\ WorkInOrder /\ MergedSomewhere /\ PayerWorks
  /\ MergedIntoReady /\ PaidIsStored /\ OnePayer

-----------------------------------------------------------------------------
(* The steps that neither store an explanation nor charge for one.           *)

\* No row is stored or leaves what it was stored as.
RowsQuiet ==
  /\ into' = into
  /\ \A s \in Terms :
       status[s] \in Stored \/ status'[s] \in Stored => status'[s] = status[s]

\* Nobody is charged.
CreditsQuiet ==
  \A v \in Users, s \in Terms : rsv'[v][s] = "CONSUMED" => rsv[v][s] = "CONSUMED"

\* No job is queued, and no worker comes nearer to storing or to charging.
WorkQuiet ==
  \A v \in Users, s \in Terms :
    /\ job'[v][s] # "none" => job[v][s] # "none"
    /\ gen'[v][s] \in {gen[v][s], "idle", "fail", "release"}
    /\ gen'[v][s] # "idle" => job'[v][s] = "active"
    /\ answer'[v][s] \in {answer[v][s], NoAnswer}

LEMMA QuietStep ==
  ASSUME TypeOK, TypeOK', IInv, RowsQuiet, CreditsQuiet, WorkQuiet
  PROVE  IInv'
<1>1. \A t \in Terms, u \in Users :
        gen'[u][t] \in {"store", "alias", "charge"} => gen'[u][t] = gen[u][t]
  BY DEF WorkQuiet
<1>2. OneWorker'
  BY DEF IInv, OneWorker, Working, WorkQuiet
<1>3. MergedSomewhere'
  BY DEF IInv, MergedSomewhere, RowsQuiet, Stored
<1>4. MergedIntoReady'
  BY DEF IInv, MergedIntoReady, RowsQuiet, Stored, TypeOK
<1>5. PaidIsStored'
  BY DEF IInv, PaidIsStored, RowsQuiet, CreditsQuiet
<1>6. OnePayer'
  BY DEF IInv, OnePayer, RowsQuiet, CreditsQuiet
<1>7. PayerWorks'
  BY <1>1 DEF IInv, PayerWorks, RowsQuiet, CreditsQuiet
<1>8. WorkInOrder'
  <2> SUFFICES ASSUME NEW t \in Terms, NEW u \in Users
               PROVE  /\ gen'[u][t] = "store" => status'[t] # "READY"
                      /\ gen'[u][t] \in {"alias", "charge"} => status'[t] \in Stored
                      /\ answer'[u][t].term # None =>
                           status'[answer'[u][t].term] = "READY"
    BY DEF WorkInOrder
  <2>1. gen'[u][t] = "store" => status'[t] # "READY"
    BY <1>1 DEF IInv, WorkInOrder, RowsQuiet, Stored
  <2>2. gen'[u][t] \in {"alias", "charge"} => status'[t] \in Stored
    BY <1>1 DEF IInv, WorkInOrder, RowsQuiet
  <2>3. ASSUME answer'[u][t].term # None
        PROVE  status'[answer'[u][t].term] = "READY"
    <3>1. answer'[u][t] = answer[u][t]
      BY <2>3 DEF WorkQuiet, NoAnswer
    <3>2. answer[u][t].term \in Terms
      BY <2>3, <3>1 DEF TypeOK
    <3>3. status[answer[u][t].term] = "READY"
      BY <2>3, <3>1 DEF IInv, WorkInOrder
    <3> QED
      BY <3>1, <3>2, <3>3 DEF RowsQuiet, Stored
  <2> QED
    BY <2>1, <2>2, <2>3
<1> QED
  BY <1>2, <1>3, <1>4, <1>5, <1>6, <1>7, <1>8 DEF IInv

-----------------------------------------------------------------------------
(* What a step leaves.                                                       *)

\* Only the job of t for u moves.
OnlyJob(u, t) ==
  \A v \in Users, s \in Terms : v # u \/ s # t =>
    job'[v][s] = job[v][s] /\ gen'[v][s] = gen[v][s] /\ answer'[v][s] = answer[v][s]

LEMMA GoMove ==
  ASSUME TypeOK, NEW u \in Users, NEW t \in Terms, NEW place, Go(u, t, place)
  PROVE  /\ OnlyJob(u, t) /\ gen'[u][t] = place
         /\ job'[u][t] = job[u][t] /\ answer'[u][t] = answer[u][t]
<1>1. /\ gen \in [Users -> [Terms -> {"idle", "store", "alias", "charge",
                                      "fail", "release"}]]
      /\ gen' = [gen EXCEPT ![u][t] = place] /\ job' = job /\ answer' = answer
  BY DEF TypeOK, Go
<1> QED
  BY <1>1 DEF OnlyJob

LEMMA EndMove ==
  ASSUME TypeOK, NEW u \in Users, NEW t \in Terms, End(u, t)
  PROVE  /\ OnlyJob(u, t)
         /\ gen'[u][t] = "idle" /\ job'[u][t] = "none" /\ answer'[u][t] = NoAnswer
<1>1. /\ gen \in [Users -> [Terms -> {"idle", "store", "alias", "charge",
                                      "fail", "release"}]]
      /\ gen' = [gen EXCEPT ![u][t] = "idle"]
  BY DEF TypeOK, End
<1>2. /\ job \in [Users -> [Terms -> {"none", "waiting", "active"}]]
      /\ job' = [job EXCEPT ![u][t] = "none"]
  BY DEF TypeOK, End
<1>3. /\ answer \in [Users -> [Terms -> [key : Keys \cup {None},
                                         term : Terms \cup {None}]]]
      /\ answer' = [answer EXCEPT ![u][t] = NoAnswer]
  BY DEF TypeOK, End
<1>4. \A v \in Users, s \in Terms : v # u \/ s # t => gen'[v][s] = gen[v][s]
  BY <1>1
<1>5. \A v \in Users, s \in Terms : v # u \/ s # t => job'[v][s] = job[v][s]
  BY <1>2
<1>6. \A v \in Users, s \in Terms : v # u \/ s # t => answer'[v][s] = answer[v][s]
  BY <1>3
<1>7. gen'[u][t] = "idle" /\ job'[u][t] = "none" /\ answer'[u][t] = NoAnswer
  BY <1>1, <1>2, <1>3
<1> QED
  BY <1>4, <1>5, <1>6, <1>7 DEF OnlyJob

LEMMA SettleMove ==
  ASSUME TypeOK, NEW u \in Users, NEW t, NEW consume \in BOOLEAN, Settle(u, t, consume)
  PROVE  \A v \in Users, s \in Terms :
           rsv'[v][s] = "CONSUMED" => rsv[v][s] = "CONSUMED" \/ (consume /\ v = u /\ s = t)
<1>1. PICK charged \in {consume, FALSE} :
        rsv' = [rsv EXCEPT ![u][t] = IF charged THEN "CONSUMED" ELSE "RELEASED"]
  BY DEF Settle
<1>2. rsv \in [Users -> [Terms -> {"none", "PENDING", "CONSUMED", "RELEASED"}]]
  BY DEF TypeOK
<1>3. charged => consume
  BY <1>1
<1>4. \A v \in Users, s \in Terms :
        rsv'[v][s] = IF v = u /\ s = t THEN IF charged THEN "CONSUMED" ELSE "RELEASED"
                                       ELSE rsv[v][s]
  BY <1>1, <1>2
<1> QED
  BY <1>3, <1>4

LEMMA ReleaseMove ==
  ASSUME TypeOK, NEW u \in Users, NEW t, Settle(u, t, FALSE)
  PROVE  CreditsQuiet
<1>1. \A v \in Users, s \in Terms :
        rsv'[v][s] = "CONSUMED" => rsv[v][s] = "CONSUMED" \/ (FALSE /\ v = u /\ s = t)
  BY SettleMove, FALSE \in BOOLEAN
<1> QED
  BY <1>1 DEF CreditsQuiet

LEMMA HoldMove ==
  ASSUME TypeOK, NEW u \in Users, NEW t, Hold(u, t)
  PROVE  CreditsQuiet
<1>1. /\ rsv \in [Users -> [Terms -> {"none", "PENDING", "CONSUMED", "RELEASED"}]]
      /\ rsv' = [rsv EXCEPT ![u][t] = "PENDING"]
  BY DEF TypeOK, Hold
<1> QED
  BY <1>1 DEF CreditsQuiet

LEMMA FailTermMove ==
  ASSUME TypeOK, NEW t, FailTerm(t)
  PROVE  RowsQuiet
  BY DEF TypeOK, FailTerm, RowsQuiet, Stored

LEMMA WorkStays == ASSUME OneWorker, UNCHANGED <<job, gen, answer>> PROVE WorkQuiet
  BY DEF OneWorker, Working, WorkQuiet

LEMMA RowsStay == ASSUME UNCHANGED <<status, into>> PROVE RowsQuiet
  BY DEF RowsQuiet

LEMMA CreditsStay == ASSUME UNCHANGED rsv PROVE CreditsQuiet
  BY DEF CreditsQuiet

-----------------------------------------------------------------------------
(* The steps.                                                                *)

LEMMA InvInit == Init => IInv
  BY ExplanationAssumption
     DEF Init, NothingKnown, IInv, OneWorker, Working, WorkInOrder, MergedSomewhere,
         PayerWorks, MergedIntoReady, PaidIsStored, OnePayer, NoAnswer

LEMMA InvRequest ==
  ASSUME TypeOK, TypeOK', Asked, IInv, NEW u \in Users, RequestStep(u)
  PROVE  IInv'
<1> USE DEF creditVars, termVars, counts, workVars, cronVars, callVars
<1>1. CASE Claim(u)
  <2>1. WorkQuiet /\ CreditsQuiet
    BY <1>1, WorkStays, CreditsStay DEF Claim, IInv
  <2>2. RowsQuiet
    <3>1. CASE UNCHANGED status
      BY <1>1, <3>1, RowsStay DEF Claim
    <3>2. CASE \E t \in Terms : /\ status[t] \in {"FAILED", "absent"}
                                /\ status' = [status EXCEPT ![t] = "PENDING"]
      BY <1>1, <3>2 DEF Claim, RowsQuiet, Stored, TypeOK
    <3> QED
      BY <1>1, <3>1, <3>2 DEF Claim, ClaimFor, Owners
  <2> QED
    BY <2>1, <2>2, QuietStep
<1>2. CASE Reserve(u)
  <2>1. WorkQuiet /\ RowsQuiet
    BY <1>2, WorkStays, RowsStay DEF Reserve, IInv
  <2>2. CreditsQuiet
    BY <1>2, HoldMove, CreditsStay DEF Reserve
  <2> QED
    BY <2>1, <2>2, QuietStep
<1>3. CASE Enqueue(u)
  <2>1. UNCHANGED <<status, into, rsv, gen, answer>>
    BY <1>3 DEF Enqueue
  <2>2. CASE job' = job
    BY <2>1, <2>2, WorkStays, RowsStay, CreditsStay, QuietStep DEF IInv
  <2>3. CASE job' # job
    <3> DEFINE t == about[u]
    <3>1. /\ t \in Terms
          /\ \A v \in Users : job[v][t] = "none"
          /\ job' = [job EXCEPT ![u][t] = "waiting"]
      BY <1>3, <2>3 DEF Enqueue, Asked
    <3> HIDE DEF t
    <3>2. job \in [Users -> [Terms -> {"none", "waiting", "active"}]]
      BY DEF TypeOK
    <3>3. \A v \in Users, s \in Terms : v # u \/ s # t => job'[v][s] = job[v][s]
      BY <3>1, <3>2
    <3>4. OneWorker'
      <4>1. ASSUME NEW s \in Terms, NEW v \in Users, NEW w \in Users,
                   job'[v][s] # "none", job'[w][s] # "none"
            PROVE  v = w
        BY <3>1, <3>3, <4>1 DEF IInv, OneWorker
      <4>2. ASSUME NEW s \in Terms, NEW v \in Users, Working(v, s)'
            PROVE  job'[v][s] = "active"
        BY <2>1, <3>1, <3>3, <4>2 DEF IInv, OneWorker, Working
      <4> QED
        BY <4>1, <4>2 DEF OneWorker
    <3> QED
      BY <2>1, <3>4 DEF IInv, WorkInOrder, MergedSomewhere, PayerWorks,
                        MergedIntoReady, PaidIsStored, OnePayer
  <2> QED
    BY <2>2, <2>3
<1>4. CASE Undo(u)
  BY <1>4, WorkStays, CreditsStay, FailTermMove, QuietStep DEF Undo, IInv
<1>5. CASE GiveBack(u)
  <2>1. WorkQuiet /\ RowsQuiet
    BY <1>5, WorkStays, RowsStay DEF GiveBack, IInv
  <2>2. CreditsQuiet
    BY <1>5, ReleaseMove DEF GiveBack
  <2> QED
    BY <2>1, <2>2, QuietStep
<1> QED
  BY <1>1, <1>2, <1>3, <1>4, <1>5 DEF RequestStep

\* A worker that stops, fails or releases.
LEMMA WorkLeaves ==
  ASSUME TypeOK, OneWorker, NEW u \in Users, NEW t \in Terms,
         \/ End(u, t)
         \/ job[u][t] = "active" /\ (Go(u, t, "fail") \/ Go(u, t, "release"))
  PROVE  WorkQuiet
<1>1. CASE End(u, t)
  <2>1. /\ OnlyJob(u, t)
        /\ gen'[u][t] = "idle" /\ job'[u][t] = "none" /\ answer'[u][t] = NoAnswer
    BY <1>1, EndMove
  <2> QED
    BY <2>1 DEF OnlyJob, WorkQuiet, OneWorker, Working
<1>2. CASE job[u][t] = "active" /\ (Go(u, t, "fail") \/ Go(u, t, "release"))
  <2>1. /\ OnlyJob(u, t) /\ gen'[u][t] \in {"fail", "release"}
        /\ job'[u][t] = job[u][t] /\ answer'[u][t] = answer[u][t]
    BY <1>2, GoMove
  <2> QED
    BY <1>2, <2>1 DEF OnlyJob, WorkQuiet, OneWorker, Working
<1> QED
  BY <1>1, <1>2

\* The other workers have other terms.
LEMMA Alone ==
  ASSUME OneWorker, NEW t \in Terms, NEW u \in Users, NEW v \in Users,
         gen[u][t] # "idle", gen[v][t] # "idle"
  PROVE  u = v
  BY DEF OneWorker, Working

\* Whatever the worker of u does with t, the others go on with theirs.
LEMMA OneWorkerStep ==
  ASSUME OneWorker, NEW u \in Users, NEW t \in Terms, OnlyJob(u, t),
         job[u][t] # "none",
         gen'[u][t] # "idle" => job'[u][t] = "active"
  PROVE  OneWorker'
<1>1. ASSUME NEW s \in Terms, NEW v \in Users, NEW w \in Users,
             job'[v][s] # "none", job'[w][s] # "none"
      PROVE  v = w
  <2>1. job[v][s] # "none" /\ job[w][s] # "none"
    BY <1>1 DEF OnlyJob
  <2> QED
    BY <2>1 DEF OneWorker
<1>2. ASSUME NEW s \in Terms, NEW v \in Users, Working(v, s)'
      PROVE  job'[v][s] = "active"
  BY <1>2 DEF OneWorker, Working, OnlyJob
<1> QED
  BY <1>1, <1>2 DEF OneWorker

\* The worker of t goes on to the settlement, or comes to its end.
WorkStored(u, t) ==
  /\ OnlyJob(u, t)
  /\ gen'[u][t] \in {"alias", "charge", "idle"}
  /\ gen'[u][t] # "idle" => job'[u][t] = "active"
  /\ answer'[u][t] \in {answer[u][t], NoAnswer}

LEMMA MoveStored ==
  ASSUME TypeOK, NEW u \in Users, NEW t \in Terms, job[u][t] = "active",
         End(u, t) \/ Go(u, t, "alias") \/ SettleNext(u, t, "charge")
  PROVE  WorkStored(u, t)
<1>1. End(u, t) \/ Go(u, t, "alias") \/ Go(u, t, "charge")
  BY DEF SettleNext
<1>2. CASE End(u, t)
  BY <1>2, EndMove DEF WorkStored
<1>3. CASE Go(u, t, "alias") \/ Go(u, t, "charge")
  BY <1>3, GoMove DEF WorkStored
<1> QED
  BY <1>1, <1>2, <1>3

\* What a worker that stores and charges for t leaves.
LEMMA StoredStep ==
  ASSUME TypeOK, TypeOK', IInv, NEW u \in Users, NEW t \in Terms,
         gen[u][t] \in {"store", "alias", "charge"}, WorkStored(u, t),
         status'[t] \in Stored,
         \A s \in Terms : status[s] = "READY" => status'[s] = "READY",
         \A s \in Terms : s # t => status'[s] = status[s],
         \A s \in Terms : into[s] # None => into'[s] # None,
         \A v \in Users, s \in Terms :
           rsv'[v][s] = "CONSUMED" => rsv[v][s] = "CONSUMED" \/ (v = u /\ s = t)
  PROVE  OneWorker' /\ WorkInOrder' /\ PayerWorks' /\ PaidIsStored' /\ OnePayer'
<1>0. OneWorker /\ job[u][t] = "active"
  BY DEF IInv, OneWorker, Working
<1>1. OneWorker'
  BY <1>0, OneWorkerStep DEF WorkStored
<1>2. WorkInOrder'
  <2> SUFFICES ASSUME NEW s \in Terms, NEW v \in Users
               PROVE  /\ gen'[v][s] = "store" => status'[s] # "READY"
                      /\ gen'[v][s] \in {"alias", "charge"} => status'[s] \in Stored
                      /\ answer'[v][s].term # None =>
                           status'[answer'[v][s].term] = "READY"
    BY DEF WorkInOrder
  <2>1. ASSUME gen'[v][s] = "store"
        PROVE  status'[s] # "READY"
    <3>1. gen[v][s] = "store" /\ (v # u \/ s # t)
      BY <2>1 DEF WorkStored, OnlyJob
    <3>2. s # t
      BY <1>0, <3>1, Alone
    <3> QED
      BY <3>1, <3>2 DEF IInv, WorkInOrder
  <2>2. ASSUME gen'[v][s] \in {"alias", "charge"}
        PROVE  status'[s] \in Stored
    <3>1. CASE s = t
      BY <3>1
    <3>2. CASE s # t
      BY <2>2, <3>2 DEF WorkStored, OnlyJob, IInv, WorkInOrder
    <3> QED
      BY <3>1, <3>2
  <2>3. ASSUME answer'[v][s].term # None
        PROVE  status'[answer'[v][s].term] = "READY"
    <3>1. answer'[v][s] = answer[v][s]
      BY <2>3 DEF WorkStored, OnlyJob, NoAnswer
    <3>2. answer[v][s].term \in Terms
      BY <2>3, <3>1 DEF TypeOK
    <3> QED
      BY <2>3, <3>1, <3>2 DEF IInv, WorkInOrder
  <2> QED
    BY <2>1, <2>2, <2>3
<1>3. PayerWorks'
  <2> SUFFICES ASSUME NEW s \in Terms, NEW v \in Users, NEW w \in Users,
                      gen'[v][s] \in {"store", "alias", "charge"}, into'[s] = None,
                      rsv'[w][s] = "CONSUMED"
               PROVE  v = w
    BY DEF PayerWorks
  <2>1. gen[v][s] \in {"store", "alias", "charge"}
    BY DEF WorkStored, OnlyJob
  <2>2. CASE rsv[w][s] = "CONSUMED"
    BY <2>1, <2>2 DEF IInv, PayerWorks
  <2>3. CASE w = u /\ s = t
    BY <1>0, <2>1, <2>3, Alone
  <2> QED
    BY <2>2, <2>3
<1>4. PaidIsStored'
  BY DEF IInv, PaidIsStored, Stored
<1>5. OnePayer'
  <2> SUFFICES ASSUME NEW s \in Terms, NEW v \in Users, NEW w \in Users,
                      into'[s] = None, rsv'[v][s] = "CONSUMED", rsv'[w][s] = "CONSUMED"
               PROVE  v = w
    BY DEF OnePayer
  <2>1. into[s] = None
    OBVIOUS
  <2>2. CASE s = t
    <3>1. \A x \in Users : rsv[x][t] = "CONSUMED" => u = x
      BY <2>1, <2>2 DEF IInv, PayerWorks
    <3> QED
      BY <2>2, <3>1
  <2>3. CASE s # t
    BY <2>1, <2>3 DEF IInv, OnePayer
  <2> QED
    BY <2>2, <2>3
<1> QED
  BY <1>1, <1>2, <1>3, <1>4, <1>5

LEMMA InvWork ==
  ASSUME TypeOK, TypeOK', IInv, NEW u \in Users, NEW t \in Terms,
         WorkerStep(u, t) \/ WorkerFails(u, t) \/ ExpiryStep(u, t)
  PROVE  IInv'
<1> USE DEF creditVars, termVars, counts, workVars, cronVars, callVars
<1>0. OneWorker /\ (gen[u][t] # "idle" => job[u][t] = "active")
  BY DEF IInv, OneWorker, Working
<1>1. CASE Generate(u, t)
  <2>1. UNCHANGED <<status, into, rsv>>
    BY <1>1 DEF Generate
  <2>2. CASE End(u, t)
    BY <1>0, <2>1, <2>2, WorkLeaves, RowsStay, CreditsStay, QuietStep
  <2>3. CASE ~ End(u, t)
    <3>1. /\ status[t] # "READY"
          /\ job' = [job EXCEPT ![u][t] = "active"]
          /\ \/ gen' = [gen EXCEPT ![u][t] = "fail"] /\ UNCHANGED answer
             \/ /\ gen' = [gen EXCEPT ![u][t] = "store"]
                /\ \E c \in Keys :
                     answer' = [answer EXCEPT ![u][t] =
                       [key |-> c, term |-> IF Canonical(t, c) = {} THEN None
                                            ELSE CHOOSE s \in Canonical(t, c) : TRUE]]
      BY <1>1, <2>3 DEF Generate
    <3>2. /\ \A v \in Users, s \in Terms : v # u \/ s # t => job'[v][s] = job[v][s]
          /\ job'[u][t] = "active"
      <4>1. job \in [Users -> [Terms -> {"none", "waiting", "active"}]]
        BY DEF TypeOK
      <4> QED
        BY <3>1, <4>1
    <3>3. /\ \A v \in Users, s \in Terms : v # u \/ s # t => gen'[v][s] = gen[v][s]
          /\ gen'[u][t] \in {"fail", "store"}
      <4>1. gen \in [Users -> [Terms -> {"idle", "store", "alias", "charge",
                                        "fail", "release"}]]
        BY DEF TypeOK
      <4> QED
        BY <3>1, <4>1
    <3>4. /\ \A v \in Users, s \in Terms : v # u \/ s # t => answer'[v][s] = answer[v][s]
          /\ answer'[u][t].term # None =>
               status[answer'[u][t].term] = "READY"
      <4>1. answer \in [Users -> [Terms -> [key : Keys \cup {None},
                                           term : Terms \cup {None}]]]
        BY DEF TypeOK
      <4>2. CASE UNCHANGED answer
        BY <4>2 DEF IInv, WorkInOrder
      <4>3. ASSUME NEW c \in Keys,
                   answer' = [answer EXCEPT ![u][t] =
                     [key |-> c, term |-> IF Canonical(t, c) = {} THEN None
                                          ELSE CHOOSE s \in Canonical(t, c) : TRUE]]
            PROVE  <3>4!1 /\ <3>4!2
        <5>1. answer'[u][t].term = IF Canonical(t, c) = {} THEN None
                                   ELSE CHOOSE s \in Canonical(t, c) : TRUE
          BY <4>1, <4>3
        <5>2. Canonical(t, c) # {} =>
                status[CHOOSE s \in Canonical(t, c) : TRUE] = "READY"
          BY DEF Canonical
        <5>3. \A v \in Users, s \in Terms : v # u \/ s # t => answer'[v][s] = answer[v][s]
          BY <4>1, <4>3
        <5> QED
          BY <5>1, <5>2, <5>3
      <4> QED
        BY <3>1, <4>2, <4>3
    <3>5. OnlyJob(u, t)
      BY <3>2, <3>3, <3>4 DEF OnlyJob
    <3>6. OneWorker'
      <4>1. job[u][t] # "none"
        BY <1>1 DEF Generate
      <4> QED
        BY <1>0, <3>2, <3>5, <4>1, OneWorkerStep
    <3>7. WorkInOrder'
      <4> SUFFICES ASSUME NEW s \in Terms, NEW v \in Users
                   PROVE  /\ gen'[v][s] = "store" => status[s] # "READY"
                          /\ gen'[v][s] \in {"alias", "charge"} => status[s] \in Stored
                          /\ answer'[v][s].term # None =>
                               status[answer'[v][s].term] = "READY"
        BY <2>1 DEF WorkInOrder
      <4>1. CASE v = u /\ s = t
        BY <3>1, <3>3, <3>4, <4>1
      <4>2. CASE v # u \/ s # t
        BY <3>5, <4>2 DEF OnlyJob, IInv, WorkInOrder
      <4> QED
        BY <4>1, <4>2
    <3>8. PayerWorks'
      <4> SUFFICES ASSUME NEW s \in Terms, NEW v \in Users, NEW w \in Users,
                          gen'[v][s] \in {"store", "alias", "charge"}, into[s] = None,
                          rsv[w][s] = "CONSUMED"
                   PROVE  v = w
        BY <2>1 DEF PayerWorks
      <4>1. CASE v = u /\ s = t
        BY <3>1, <4>1 DEF IInv, PaidIsStored, MergedSomewhere, Stored
      <4>2. CASE v # u \/ s # t
        BY <3>5, <4>2 DEF OnlyJob, IInv, PayerWorks
      <4> QED
        BY <4>1, <4>2
    <3> QED
      BY <2>1, <3>6, <3>7, <3>8
         DEF IInv, MergedSomewhere, MergedIntoReady, PaidIsStored, OnePayer
  <2> QED
    BY <2>2, <2>3
<1>2. CASE Merge(u, t)
  <2>1. PICK s \in Terms : /\ s = answer[u][t].term /\ s # None
                           /\ status' = [status EXCEPT ![t] = "MERGED"]
                           /\ into' = [into EXCEPT ![t] = s]
                           /\ rsv' = rsv
    BY <1>2 DEF Merge, TypeOK
  <2>2. status[t] # "READY" /\ status[s] = "READY" /\ gen[u][t] = "store"
    BY <1>2, <2>1 DEF Merge, IInv, WorkInOrder
  <2>3. WorkStored(u, t)
    BY <1>0, <1>2, MoveStored DEF Merge
  <2>4. /\ status'[t] = "MERGED" /\ into'[t] = s
        /\ \A x \in Terms : x # t => status'[x] = status[x] /\ into'[x] = into[x]
    BY <2>1 DEF TypeOK
  <2>5. MergedSomewhere'
    BY <2>1, <2>4 DEF IInv, MergedSomewhere
  <2>6. MergedIntoReady'
    <3> SUFFICES ASSUME NEW x \in Terms, into'[x] # None
                 PROVE  status'[into'[x]] = "READY"
      BY DEF MergedIntoReady
    <3>1. into'[x] \in Terms /\ status[into'[x]] = "READY"
      BY <2>1, <2>2, <2>4 DEF IInv, MergedIntoReady, TypeOK
    <3> QED
      BY <2>2, <2>4, <3>1
  <2> QED
    BY <2>1, <2>2, <2>3, <2>4, <2>5, <2>6, StoredStep DEF IInv, Stored
<1>3. CASE Store(u, t)
  <2>1. UNCHANGED <<into, rsv>> /\ gen[u][t] = "store"
    BY <1>3 DEF Store
  <2>2. CASE Go(u, t, "fail") /\ UNCHANGED status
    BY <1>0, <2>1, <2>2, WorkLeaves, RowsStay, CreditsStay, QuietStep
  <2>3. CASE /\ status' = [status EXCEPT ![t] = "READY"]
             /\ SettleNext(u, t, "charge") \/ Go(u, t, "alias")
    <3>1. WorkStored(u, t)
      BY <1>0, <2>1, <2>3, MoveStored
    <3>2. /\ status'[t] = "READY"
          /\ \A x \in Terms : x # t => status'[x] = status[x]
      BY <2>3 DEF TypeOK
    <3>3. MergedSomewhere' /\ MergedIntoReady'
      BY <2>1, <3>2 DEF IInv, MergedSomewhere, MergedIntoReady, TypeOK
    <3> QED
      BY <2>1, <3>1, <3>2, <3>3, StoredStep DEF IInv, Stored
  <2> QED
    BY <1>3, <2>2, <2>3 DEF Store
<1>4. CASE StoreAlias(u, t)
  <2>1. UNCHANGED <<status, into, rsv>> /\ gen[u][t] = "alias"
    BY <1>4 DEF StoreAlias
  <2>2. WorkStored(u, t)
    BY <1>0, <1>4, MoveStored DEF StoreAlias
  <2>3. status[t] \in Stored
    BY <2>1 DEF IInv, WorkInOrder
  <2>4. MergedSomewhere' /\ MergedIntoReady'
    BY <2>1 DEF IInv, MergedSomewhere, MergedIntoReady
  <2> QED
    BY <2>1, <2>2, <2>3, <2>4, StoredStep DEF IInv
<1>5. CASE Charge(u, t)
  <2>1. UNCHANGED <<status, into>> /\ gen[u][t] = "charge"
    BY <1>5 DEF Charge
  <2>2. WorkStored(u, t)
    BY <1>0, <1>5, <2>1, MoveStored DEF Charge
  <2>3. status[t] \in Stored
    BY <2>1 DEF IInv, WorkInOrder
  <2>4. MergedSomewhere' /\ MergedIntoReady'
    BY <2>1 DEF IInv, MergedSomewhere, MergedIntoReady
  <2>5. \A v \in Users, s \in Terms :
          rsv'[v][s] = "CONSUMED" => rsv[v][s] = "CONSUMED" \/ (v = u /\ s = t)
    <3>1. Settle(u, t, TRUE)
      BY <1>5 DEF Charge
    <3>2. \A v \in Users, s \in Terms :
            rsv'[v][s] = "CONSUMED" => rsv[v][s] = "CONSUMED" \/ (TRUE /\ v = u /\ s = t)
      BY <3>1, SettleMove, TRUE \in BOOLEAN
    <3> QED
      BY <3>2
  <2> QED
    BY <2>1, <2>2, <2>3, <2>4, <2>5, StoredStep DEF IInv
<1>6. CASE Fail(u, t)
  <2>1. RowsQuiet /\ CreditsQuiet
    BY <1>6, FailTermMove, CreditsStay DEF Fail
  <2>2. End(u, t) \/ Go(u, t, "release")
    BY <1>6 DEF Fail, SettleNext
  <2> QED
    BY <1>0, <1>6, <2>1, <2>2, WorkLeaves, QuietStep DEF Fail
<1>7. CASE Release(u, t)
  <2>1. RowsQuiet /\ CreditsQuiet
    BY <1>7, RowsStay, ReleaseMove DEF Release
  <2> QED
    BY <1>0, <1>7, <2>1, WorkLeaves, QuietStep DEF Release
<1>8. CASE WorkerFails(u, t)
  <2>1. RowsQuiet /\ CreditsQuiet
    BY <1>8, RowsStay, CreditsStay DEF WorkerFails
  <2>2. CASE Go(u, t, "fail")
    BY <1>0, <1>8, <2>1, <2>2, WorkLeaves, QuietStep DEF WorkerFails
  <2>3. ASSUME NEW state \in {"waiting", "none"},
               job' = [job EXCEPT ![u][t] = state],
               gen' = [gen EXCEPT ![u][t] = "idle"],
               answer' = [answer EXCEPT ![u][t] = NoAnswer]
        PROVE  WorkQuiet
    <3>1. /\ \A v \in Users, s \in Terms : v # u \/ s # t => job'[v][s] = job[v][s]
          /\ job[u][t] = "active"
      <4>1. job \in [Users -> [Terms -> {"none", "waiting", "active"}]]
        BY DEF TypeOK
      <4> QED
        BY <1>8, <2>3, <4>1 DEF WorkerFails
    <3>2. /\ \A v \in Users, s \in Terms : v # u \/ s # t => gen'[v][s] = gen[v][s]
          /\ gen'[u][t] = "idle"
      <4>1. gen \in [Users -> [Terms -> {"idle", "store", "alias", "charge",
                                        "fail", "release"}]]
        BY DEF TypeOK
      <4> QED
        BY <2>3, <4>1
    <3>3. /\ \A v \in Users, s \in Terms : v # u \/ s # t => answer'[v][s] = answer[v][s]
          /\ answer'[u][t] = NoAnswer
      <4>1. answer \in [Users -> [Terms -> [key : Keys \cup {None},
                                           term : Terms \cup {None}]]]
        BY DEF TypeOK
      <4> QED
        BY <2>3, <4>1
    <3> QED
      BY <1>0, <3>1, <3>2, <3>3 DEF WorkQuiet, OneWorker, Working
  <2> QED
    BY <1>8, <2>1, <2>2, <2>3, QuietStep DEF WorkerFails
<1>9. CASE ReadToExpire(u, t)
  BY <1>0, <1>9, WorkStays, RowsStay, CreditsStay, QuietStep DEF ReadToExpire
<1>10. CASE Expire(u, t)
  BY <1>0, <1>10, WorkStays, RowsStay, ReleaseMove, QuietStep DEF Expire
<1> QED
  BY <1>1, <1>2, <1>3, <1>4, <1>5, <1>6, <1>7, <1>8, <1>9, <1>10
     DEF WorkerStep, ExpiryStep

LEMMA InvRecovery ==
  ASSUME TypeOK, TypeOK', UserRead, IInv, NEW t \in Terms, RecoveryStep(t)
  PROVE  IInv'
<1> USE DEF creditVars, termVars, counts, workVars, cronVars, callVars
<1>0. OneWorker
  BY DEF IInv
<1>1. CASE ListStale(t)
  BY <1>0, <1>1, WorkStays, RowsStay, CreditsStay, QuietStep DEF ListStale
<1>2. CASE RecoverTerm(t)
  BY <1>0, <1>2, WorkStays, FailTermMove, CreditsStay, QuietStep DEF RecoverTerm
<1>3. CASE RecoverCredit(t)
  <2>1. rec[t].user \in Users
    BY <1>3 DEF RecoverCredit, UserRead
  <2> QED
    BY <1>0, <1>3, <2>1, WorkStays, RowsStay, ReleaseMove, QuietStep DEF RecoverCredit
<1> QED
  BY <1>1, <1>2, <1>3 DEF RecoveryStep

LEMMA InvStep == Shape /\ IInv /\ [Next]_vars => IInv'
<1> SUFFICES ASSUME Shape, IInv, [Next]_vars PROVE IInv'
  OBVIOUS
<1>0. TypeOK /\ TypeOK' /\ Asked /\ UserRead /\ OneWorker
  BY TypeStep DEF Shape, IInv
<1>1. ASSUME UNCHANGED <<termVars, creditVars, workVars>>
      PROVE  IInv'
  BY <1>0, <1>1, WorkStays, RowsStay, CreditsStay, QuietStep
     DEF termVars, creditVars, workVars
<1>2. ASSUME NEW u \in Users, NEW k \in Keys, Ask(u, k)
      PROVE  IInv'
  BY <1>1, <1>2 DEF Ask
<1>3. CASE UNCHANGED vars
  BY <1>1, <1>3 DEF vars
<1> QED
  BY <1>0, <1>2, <1>3, InvRequest, InvWork, InvRecovery DEF Next

\* A READY row is left alone by whatever finds rows by their status, and by the one
\* worker that could merge it.
LEMMA ReadyStep ==
  ASSUME Shape, IInv, [Next]_vars, NEW r \in Terms, status[r] = "READY"
  PROVE  status'[r] = "READY"
<1> USE DEF creditVars, termVars, counts, workVars, cronVars, callVars
<1>0. TypeOK
  BY DEF Shape
<1>1. ASSUME NEW t, FailTerm(t)
      PROVE  status'[r] = "READY"
  BY <1>0, <1>1 DEF FailTerm, TypeOK
<1>2. ASSUME NEW u \in Users, RequestStep(u)
      PROVE  status'[r] = "READY"
  <2>1. CASE Claim(u)
    <3>1. \/ UNCHANGED status
          \/ \E t \in Terms : /\ status[t] \in {"FAILED", "absent"}
                             /\ status' = [status EXCEPT ![t] = "PENDING"]
      BY <2>1 DEF Claim, ClaimFor, Owners
    <3> QED
      BY <1>0, <3>1 DEF TypeOK
  <2> QED
    BY <1>1, <1>2, <2>1 DEF RequestStep, Reserve, Enqueue, Undo, GiveBack
<1>3. ASSUME NEW u \in Users, NEW t \in Terms,
             WorkerStep(u, t) \/ WorkerFails(u, t) \/ ExpiryStep(u, t)
      PROVE  status'[r] = "READY"
  <2>1. CASE Merge(u, t)
    <3>1. status[t] # "READY"
      BY <2>1 DEF Merge, IInv, WorkInOrder
    <3> QED
      BY <1>0, <2>1, <3>1 DEF Merge, TypeOK
  <2>2. CASE Store(u, t)
    BY <1>0, <2>2 DEF Store, TypeOK
  <2> QED
    BY <1>1, <1>3, <2>1, <2>2
       DEF WorkerStep, Generate, StoreAlias, Charge, Fail, Release, WorkerFails,
           ExpiryStep, ReadToExpire, Expire
<1>4. ASSUME NEW t \in Terms, RecoveryStep(t)
      PROVE  status'[r] = "READY"
  BY <1>1, <1>4 DEF RecoveryStep, ListStale, RecoverTerm, RecoverCredit
<1> QED
  BY <1>2, <1>3, <1>4 DEF Next, Ask, vars

LEMMA Invariance == Spec => [](Shape /\ IInv)
<1>1. Shape /\ IInv /\ [Next]_vars => (Shape /\ IInv)'
  BY TypeStep, InvStep
<1> QED
  BY TypeInit, InvInit, <1>1, PTL DEF Spec

-----------------------------------------------------------------------------
(* What follows.                                                             *)

\* Only a stored explanation is paid for, whatever the recovery, the expiry and
\* late workers did meanwhile: workers settle after the row is written, and no
\* step takes a stored row back.
THEOREM PaidIsStoredAlways == Spec => []PaidIsStored
  BY Invariance, PTL DEF IInv

\* No two users pay for a term that was never merged: it has one worker at a
\* time, and the next one finds it READY.
THEOREM OnePayerAlways == Spec => []OnePayer
  BY Invariance, PTL DEF IInv

\* A merged term leads to an explanation: the term that a worker read as READY
\* is READY when it merges, and for good.
THEOREM MergedIntoReadyAlways == Spec => []MergedIntoReady
  BY Invariance, PTL DEF IInv

\* An explanation that was stored stays READY.
THEOREM ReadyKeptAlways == Spec => ReadyKept
<1>1. Shape /\ IInv /\ [Next]_vars =>
        [\A t \in Terms : status[t] = "READY" => status'[t] = "READY"]_vars
  BY ReadyStep
<1> QED
  BY Invariance, <1>1, PTL DEF Spec, ReadyKept

-----------------------------------------------------------------------------
(* The credits that are held.                                                *)

LEMMA HeldFinite == \A u \in Users : IsFiniteSet(Held(u)) /\ Cardinality(Held(u)) \in Nat
<1>1. IsFiniteSet(Terms)
  BY ExplanationAssumption, FS_Interval, 1 \in Int, MaxTerms \in Int DEF Terms
<1>2. \A u \in Users : Held(u) \subseteq Terms
  BY DEF Held
<1> QED
  BY <1>1, <1>2, FS_Subset, FS_CardinalityType

LEMMA CreditHold ==
  ASSUME TypeOK, ReservedExact, NEW u \in Users, NEW t \in Terms, Hold(u, t)
  PROVE  ReservedExact'
<1> SUFFICES ASSUME NEW v \in Users
             PROVE  /\ reserved'[v] <= Cardinality(Held(v)')
                    /\ v \notin overtaken' => reserved'[v] = Cardinality(Held(v)')
  BY DEF ReservedExact
<1>1. /\ reserved[v] <= Cardinality(Held(v)) /\ reserved[v] \in Int
      /\ v \notin overtaken => reserved[v] = Cardinality(Held(v))
  BY DEF ReservedExact, TypeOK
<1>2. CASE v = u
  <2>1. reserved'[v] = reserved[v] + 1
    BY <1>2 DEF Hold, TypeOK
  <2>2. Held(v)' = Held(v) \cup {t} /\ t \notin Held(v)
    BY <1>2 DEF Hold, Held, TypeOK
  <2>3. Cardinality(Held(v)') = Cardinality(Held(v)) + 1
    BY <2>2, HeldFinite, FS_AddElement
  <2>4. overtaken' = overtaken
    BY DEF Hold
  <2> QED
    BY <1>1, <2>1, <2>3, <2>4, HeldFinite
<1>3. CASE v # u
  <2>1. reserved'[v] = reserved[v] /\ Held(v)' = Held(v) /\ overtaken' = overtaken
    BY <1>3 DEF Hold, Held, TypeOK
  <2> QED
    BY <1>1, <2>1
<1> QED
  BY <1>2, <1>3

LEMMA CreditSettle ==
  ASSUME TypeOK, ReservedExact, NEW u \in Users, NEW t \in Terms, NEW consume \in BOOLEAN,
         Settle(u, t, consume)
  PROVE  ReservedExact'
<1> SUFFICES ASSUME NEW v \in Users
             PROVE  /\ reserved'[v] <= Cardinality(Held(v)')
                    /\ v \notin overtaken' => reserved'[v] = Cardinality(Held(v)')
  BY DEF ReservedExact
<1>1. /\ reserved[v] <= Cardinality(Held(v)) /\ reserved[v] \in Int
      /\ v \notin overtaken => reserved[v] = Cardinality(Held(v))
  BY DEF ReservedExact, TypeOK
<1>2. CASE v = u
  <2>1. reserved'[v] = reserved[v] - 1
    BY <1>2 DEF Settle, TypeOK
  <2>2. Held(v)' = Held(v) \ {t}
    BY <1>2 DEF Settle, Held, TypeOK
  <2>3. /\ Cardinality(Held(v)') >= Cardinality(Held(v)) - 1
        /\ t \in Held(v) => Cardinality(Held(v)') = Cardinality(Held(v)) - 1
    <3>1. IsFiniteSet(Held(v)) /\ Cardinality(Held(v)) \in Nat
      BY HeldFinite
    <3>2. Cardinality(Held(v) \ {t}) =
            IF t \in Held(v) THEN Cardinality(Held(v)) - 1 ELSE Cardinality(Held(v))
      BY <3>1, FS_RemoveElement
    <3> QED
      BY <2>2, <3>1, <3>2
  <2>4. Cardinality(Held(v)') \in Nat
    BY <2>2, HeldFinite, FS_Subset, FS_CardinalityType
  <2>5. v \notin overtaken' => v \notin overtaken /\ t \in Held(v)
    BY <1>2 DEF Settle, Held
  <2> QED
    BY <1>1, <2>1, <2>3, <2>4, <2>5, HeldFinite
<1>3. CASE v # u
  <2>1. /\ reserved'[v] = reserved[v] /\ Held(v)' = Held(v)
        /\ v \notin overtaken' => v \notin overtaken
    BY <1>3 DEF Settle, Held, TypeOK
  <2> QED
    BY <1>1, <2>1
<1> QED
  BY <1>2, <1>3

LEMMA CreditStep == Shape /\ ReservedExact /\ [Next]_vars => ReservedExact'
<1> SUFFICES ASSUME Shape, ReservedExact, [Next]_vars PROVE ReservedExact'
  OBVIOUS
<1> USE DEF creditVars, termVars, counts, workVars, cronVars, callVars
<1>0. TypeOK /\ Asked /\ UserRead
  BY DEF Shape
<1>1. CASE UNCHANGED creditVars
  BY <1>1 DEF ReservedExact, Held
<1>2. ASSUME NEW u \in Users, RequestStep(u)
      PROVE  ReservedExact'
  <2>1. CASE Reserve(u)
    <3>1. about[u] \in Terms
      BY <1>0, <2>1 DEF Reserve, Asked
    <3> QED
      BY <1>0, <1>1, <2>1, <3>1, CreditHold DEF Reserve
  <2>2. CASE GiveBack(u)
    <3>1. about[u] \in Terms
      BY <1>0, <2>2 DEF GiveBack, Asked
    <3> QED
      BY <1>0, <2>2, <3>1, CreditSettle DEF GiveBack
  <2> QED
    BY <1>1, <1>2, <2>1, <2>2 DEF RequestStep, Claim, Enqueue, Undo
<1>3. ASSUME NEW u \in Users, NEW t \in Terms,
             WorkerStep(u, t) \/ WorkerFails(u, t) \/ ExpiryStep(u, t)
      PROVE  ReservedExact'
  <2>1. CASE Charge(u, t)
    BY <1>0, <2>1, CreditSettle DEF Charge
  <2>2. CASE Release(u, t)
    BY <1>0, <2>2, CreditSettle DEF Release
  <2>3. CASE Expire(u, t)
    BY <1>0, <2>3, CreditSettle DEF Expire
  <2> QED
    BY <1>1, <1>3, <2>1, <2>2, <2>3
       DEF WorkerStep, Generate, Merge, Store, StoreAlias, Fail, WorkerFails,
           ExpiryStep, ReadToExpire
<1>4. ASSUME NEW t \in Terms, RecoveryStep(t)
      PROVE  ReservedExact'
  <2>1. CASE RecoverCredit(t)
    <3>1. rec[t].user \in Users
      BY <1>0, <2>1 DEF RecoverCredit, UserRead
    <3> QED
      BY <1>0, <2>1, <3>1, CreditSettle DEF RecoverCredit
  <2> QED
    BY <1>1, <1>4, <2>1 DEF RecoveryStep, ListStale, RecoverTerm
<1> QED
  BY <1>1, <1>2, <1>3, <1>4 DEF Next, Ask, vars

\* A credit is reserved for every open reservation and for nothing else, unless two
\* settlements of one reservation overtook each other; even then none stays reserved
\* for nothing.
THEOREM ReservedExactAlways == Spec => []ReservedExact
<1>1. Init => ReservedExact
  <2>1. ASSUME Init, NEW u \in Users PROVE reserved[u] = 0 /\ Held(u) = {}
    BY <2>1 DEF Init, NothingKnown, Held
  <2> QED
    BY <2>1, FS_EmptySet DEF ReservedExact
<1>2. Shape /\ ReservedExact /\ [Next]_vars => (Shape /\ ReservedExact)'
  BY TypeStep, CreditStep
<1> QED
  BY TypeInit, <1>1, <1>2, PTL DEF Spec
=============================================================================
