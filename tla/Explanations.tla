----------------------------- MODULE Explanations -----------------------------
(* The glossary of technical terms: a user selects a text, a worker has it   *)
(* explained once, and everybody else reads the stored explanation.  The one *)
(* who asked first pays with a credit of his own.                            *)
(*                                                                           *)
(* Users' requests, the workers of the queue and two crons work on the rows  *)
(* of the terms and of the reservations.  A statement of Postgres or a call  *)
(* of the queue is one step.  A settlement of a reservation is two: it reads *)
(* the reservation, in one step with the statement before, then waits for    *)
(* the billing lock of the user and acts on what it read.  There are no      *)
(* clocks: the 90 s of a term and the 5 minutes of a reservation may be over *)
(* at any moment.  Each user has one credit cycle here.                      *)
EXTENDS Integers, FiniteSets

CONSTANTS Users,
          Keys,      \* normalised texts, and so normalised terms
          MaxTerms,  \* the bound on rows of technical_terms
          Granted,   \* the credits of a user's cycle
          MaxAsks,   \* the bound on requests that miss the glossary
          MaxFaults, \* the bound on workers that stall or throw
          None

Terms == 1..MaxTerms

ASSUME ExplanationAssumption ==
  /\ MaxTerms \in Nat /\ Granted \in Nat
  /\ MaxAsks \in Nat /\ MaxFaults \in Nat
  /\ None \notin Users \cup Keys \cup Terms

VARIABLES
  status,    \* technical_terms.status; "absent" before the row is created
  key,       \* .normalizedKey, unique
  text,      \* the text the row was created for, which its jobs carry
  owner,     \* .createdById
  into,      \* .mergedIntoId
  alias,     \* technical_term_aliases: the term of a key
  rsv,       \* rsv[u][t]: the reservation of u for t; EXPIRED is RELEASED here
  used,      \* used[u]: the cycle's usedCredits
  reserved,  \* reserved[u]: the cycle's reservedCredits
  overtaken, \* history: whose credits a settlement moved after another had
  at,        \* at[u]: where the request of u is
  about,     \* about[u]: its key, then its term
  job,       \* job[u][t]: the job of t that was queued for u
  gen,       \* gen[u][t]: where the worker of that job is
  answer,    \* answer[u][t]: what the provider said: the key, the term that has it
  rec,       \* rec[t]: where recoverStaleTerms is with t, and the user it read
  exp,       \* exp[u][t]: expireReservations has read a reservation past its time
  asks, faults

termVars == <<status, key, text, owner, into, alias>>
creditVars == <<rsv, used, reserved, overtaken>>
counts == <<asks, faults>>
callVars == <<at, about, counts>>
workVars == <<job, gen, answer>>
cronVars == <<rec, exp>>
vars == <<termVars, creditVars, callVars, workVars, cronVars>>

Stored == {"READY", "MERGED"}
NoAnswer == [key |-> None, term |-> None]
AtRest == [at |-> "idle", user |-> None]

TypeOK ==
  /\ status \in [Terms -> Stored \cup {"absent", "PENDING", "FAILED"}]
  /\ key \in [Terms -> Keys \cup {None}]
  /\ text \in [Terms -> Keys \cup {None}]
  /\ owner \in [Terms -> Users \cup {None}]
  /\ into \in [Terms -> Terms \cup {None}]
  /\ alias \in [Keys -> Terms \cup {None}]
  /\ rsv \in [Users -> [Terms -> {"none", "PENDING", "CONSUMED", "RELEASED"}]]
  /\ used \in [Users -> Nat]
  /\ reserved \in [Users -> Int]
  /\ overtaken \subseteq Users
  /\ at \in [Users -> {"idle", "claim", "reserve", "enqueue", "undo",
                       "release"}]
  /\ about \in [Users -> Keys \cup Terms \cup {None}]
  /\ job \in [Users -> [Terms -> {"none", "waiting", "active"}]]
  /\ gen \in [Users -> [Terms -> {"idle", "store", "alias", "charge",
                                  "fail", "release"}]]
  /\ answer \in [Users -> [Terms -> [key : Keys \cup {None},
                                     term : Terms \cup {None}]]]
  /\ rec \in [Terms -> [at : {"idle", "fail", "release"},
                        user : Users \cup {None}]]
  /\ exp \in [Users -> [Terms -> BOOLEAN]]
  /\ asks \in 0..MaxAsks /\ faults \in 0..MaxFaults

NobodyAsked ==
  /\ at = [u \in Users |-> "idle"] /\ about = [u \in Users |-> None]
  /\ asks = 0

NothingKnown ==
  /\ status = [t \in Terms |-> "absent"]
  /\ key = [t \in Terms |-> None] /\ text = [t \in Terms |-> None]
  /\ owner = [t \in Terms |-> None] /\ into = [t \in Terms |-> None]
  /\ alias = [k \in Keys |-> None]
  /\ rsv = [u \in Users |-> [t \in Terms |-> "none"]]
  /\ used = [u \in Users |-> 0] /\ reserved = [u \in Users |-> 0]
  /\ overtaken = {}
  /\ job = [u \in Users |-> [t \in Terms |-> "none"]]
  /\ gen = [u \in Users |-> [t \in Terms |-> "idle"]]
  /\ answer = [u \in Users |-> [t \in Terms |-> NoAnswer]]
  /\ rec = [t \in Terms |-> AtRest]
  /\ exp = [u \in Users |-> [t \in Terms |-> FALSE]]
  /\ faults = 0

Init == NothingKnown /\ NobodyAsked

-----------------------------------------------------------------------------
(* The reservation of a user for a term.                                     *)

Held(u) == {t \in Terms : rsv[u][t] = "PENDING"}

\* Mutant: a term that was reserved before is not counted again.
HoldFirstOnly(u, t) ==
  /\ rsv[u][t] # "PENDING"
  /\ used[u] + reserved[u] < Granted
  /\ rsv' = [rsv EXCEPT ![u][t] = "PENDING"]
  /\ reserved' = [reserved EXCEPT ![u] = @ + (IF rsv[u][t] = "none" THEN 1 ELSE 0)]
  /\ UNCHANGED <<used, overtaken>>

\* reserveGeneration, all of it under the billing lock.
Hold(u, t) ==
  /\ rsv[u][t] # "PENDING"
  /\ used[u] + reserved[u] < Granted
  /\ rsv' = [rsv EXCEPT ![u][t] = "PENDING"]
  /\ reserved' = [reserved EXCEPT ![u] = @ + 1]
  /\ UNCHANGED <<used, overtaken>>

\* The second half of finalize(), of a reservation that was PENDING when it was
\* read and is not read again.  One whose 5 minutes are over is not charged any more.
Settle(u, t, consume) ==
  \E charged \in {consume, FALSE} :
    /\ rsv' = [rsv EXCEPT ![u][t] = IF charged THEN "CONSUMED" ELSE "RELEASED"]
    /\ reserved' = [reserved EXCEPT ![u] = @ - 1]
    /\ used' = [used EXCEPT ![u] = @ + (IF charged THEN 1 ELSE 0)]
    /\ overtaken' = IF rsv[u][t] = "PENDING" THEN overtaken ELSE overtaken \cup {u}

-----------------------------------------------------------------------------
(* explain().                                                                *)

\* findResolvedTerm.
Owners(k) == {t \in Terms : key[t] = k}
Resolved(k) ==
  IF \E t \in Owners(k) : into[t] # None
    THEN {into[t] : t \in Owners(k)}
    ELSE IF Owners(k) # {} THEN Owners(k) ELSE {alias[k]} \ {None}

Request(u, place, subject) ==
  /\ at' = [at EXCEPT ![u] = place] /\ about' = [about EXCEPT ![u] = subject]

\* A request that the glossary, or a PENDING term, answers is no step.
Ask(u, k) ==
  /\ at[u] = "idle" /\ asks < MaxAsks
  /\ \A t \in Resolved(k) : status[t] = "FAILED"
  /\ asks' = asks + 1
  /\ Request(u, "claim", k)
  /\ UNCHANGED <<termVars, creditVars, faults, workVars, cronVars>>

\* The row becomes PENDING for u, who has to reserve a credit now.
ClaimFor(u, t) ==
  /\ status' = [status EXCEPT ![t] = "PENDING"]
  /\ owner' = [owner EXCEPT ![t] = u]
  /\ Request(u, "reserve", t)

\* claimNewTerm: a FAILED term is taken over when it is old; a new row is created
\* when its key is unique.  MaxTerms bounds the rows.
Claim(u) ==
  LET k == about[u]
  IN /\ at[u] = "claim"
     /\ \/ \E t \in Owners(k) :
             /\ status[t] = "FAILED"
             /\ ClaimFor(u, t)
             /\ UNCHANGED <<key, text>>
        \/ \E t \in Terms :
             /\ Owners(k) = {}
             /\ status[t] = "absent" /\ \A s \in 1..(t - 1) : status[s] # "absent"
             /\ ClaimFor(u, t)
             /\ key' = [key EXCEPT ![t] = k] /\ text' = [text EXCEPT ![t] = k]
        \/ /\ Owners(k) # {} \/ \A t \in Terms : status[t] # "absent"
           /\ Request(u, "idle", None)
           /\ UNCHANGED <<status, owner, key, text>>
     /\ UNCHANGED <<into, alias, creditVars, counts, workVars, cronVars>>

\* A user who has no credit left is refused, and the term stays PENDING.
Reserve(u) ==
  LET t == about[u]
  IN /\ at[u] = "reserve"
     /\ \/ Hold(u, t) /\ Request(u, "enqueue", t)
        \/ /\ rsv[u][t] = "PENDING"
           /\ Request(u, "enqueue", t)
           /\ UNCHANGED creditVars
        \/ /\ rsv[u][t] # "PENDING" /\ used[u] + reserved[u] >= Granted
           /\ Request(u, "idle", None)
           /\ UNCHANGED creditVars
     /\ UNCHANGED <<termVars, counts, workVars, cronVars>>

\* Mutant: the jobId names the user as well.
EnqueueForUser(u) ==
  LET t == about[u]
  IN /\ at[u] = "enqueue"
     /\ job' = [job EXCEPT ![u][t] = IF @ = "none" THEN "waiting" ELSE @]
     /\ Request(u, "idle", None)
     /\ UNCHANGED <<termVars, creditVars, counts, gen, answer, cronVars>>

\* One job per term: any other, even one that was given up, is kept and the new
\* one dropped without a word.
Enqueue(u) ==
  LET t == about[u]
  IN /\ at[u] = "enqueue"
     /\ \/ /\ job' = IF \A v \in Users : job[v][t] = "none"
                       THEN [job EXCEPT ![u][t] = "waiting"] ELSE job
           /\ Request(u, "idle", None)
        \/ UNCHANGED job /\ Request(u, "undo", t)
     /\ UNCHANGED <<termVars, creditVars, counts, gen, answer, cronVars>>

\* Mutant: the status is not looked at again.
FailAnyTerm(t) ==
  /\ status' = [status EXCEPT ![t] = "FAILED"]
  /\ UNCHANGED <<key, text, owner, into, alias>>

\* A PENDING term fails.
FailTerm(t) ==
  /\ status' = [status EXCEPT ![t] = IF @ = "PENDING" THEN "FAILED" ELSE @]
  /\ UNCHANGED <<key, text, owner, into, alias>>

Undo(u) ==
  LET t == about[u]
  IN /\ at[u] = "undo"
     /\ FailTerm(t)
     /\ IF rsv[u][t] = "PENDING" THEN Request(u, "release", t)
                                 ELSE Request(u, "idle", None)
     /\ UNCHANGED <<creditVars, counts, workVars, cronVars>>

GiveBack(u) ==
  /\ at[u] = "release"
  /\ Settle(u, about[u], FALSE)
  /\ Request(u, "idle", None)
  /\ UNCHANGED <<termVars, counts, workVars, cronVars>>

-----------------------------------------------------------------------------
(* generateInWorker() for the job of t that was queued for u.                *)

Go(u, t, place) ==
  gen' = [gen EXCEPT ![u][t] = place] /\ UNCHANGED <<job, answer>>

\* process() catches whatever is thrown: the job is completed and removed.
End(u, t) ==
  /\ gen' = [gen EXCEPT ![u][t] = "idle"] /\ job' = [job EXCEPT ![u][t] = "none"]
  /\ answer' = [answer EXCEPT ![u][t] = NoAnswer]

\* The reservation is read, to be settled when it is PENDING.
SettleNext(u, t, place) ==
  IF rsv[u][t] = "PENDING" THEN Go(u, t, place) ELSE End(u, t)

\* Mutant: finalizeOrMergeTerm merges into any term that has the key.
CanonicalAny(t, c) == Owners(c) \ {t}

\* The READY terms that finalizeOrMergeTerm would merge t into.
Canonical(t, c) == {s \in Owners(c) \ {t} : status[s] = "READY"}

\* The job up to the provider's answer, which touches no row.  It ends when the
\* term is READY, its question gone or the provider silent (the term is left to
\* the recovery), and fails when the limits of the system refuse the call or the
\* text is no term.  Otherwise the term with the canonical key is read.
Generate(u, t) ==
  /\ job[u][t] = "waiting"
  /\ \/ End(u, t)
     \/ /\ status[t] # "READY"
        /\ job' = [job EXCEPT ![u][t] = "active"]
        /\ \/ gen' = [gen EXCEPT ![u][t] = "fail"] /\ UNCHANGED answer
           \/ /\ gen' = [gen EXCEPT ![u][t] = "store"]
              /\ \E c \in Keys :
                   answer' = [answer EXCEPT ![u][t] =
                     [key |-> c, term |-> IF Canonical(t, c) = {} THEN None
                                          ELSE CHOOSE s \in Canonical(t, c) : TRUE]]
  /\ UNCHANGED <<termVars, creditVars, callVars, cronVars>>

\* One transaction: the term and the alias.
Merge(u, t) ==
  LET s == answer[u][t].term
  IN /\ gen[u][t] = "store" /\ s # None
     /\ status' = [status EXCEPT ![t] = "MERGED"]
     /\ into' = [into EXCEPT ![t] = s]
     /\ alias' = [alias EXCEPT ![text[t]] = s]
     /\ SettleNext(u, t, "charge")
     /\ UNCHANGED <<key, text, owner, creditVars, callVars, cronVars>>

\* The row gets the canonical key, whatever its status; when another row has the
\* key by now the update throws.
Store(u, t) ==
  LET c == answer[u][t].key
  IN /\ gen[u][t] = "store" /\ answer[u][t].term = None
     /\ \/ /\ Owners(c) \subseteq {t}
           /\ status' = [status EXCEPT ![t] = "READY"]
           /\ key' = [key EXCEPT ![t] = c]
           /\ IF c = text[t] THEN SettleNext(u, t, "charge") ELSE Go(u, t, "alias")
        \/ /\ ~ Owners(c) \subseteq {t}
           /\ Go(u, t, "fail")
           /\ UNCHANGED <<status, key>>
     /\ UNCHANGED <<text, owner, into, alias, creditVars, callVars, cronVars>>

StoreAlias(u, t) ==
  /\ gen[u][t] = "alias"
  /\ alias' = [alias EXCEPT ![text[t]] = t]
  /\ SettleNext(u, t, "charge")
  /\ UNCHANGED <<status, key, text, owner, into, creditVars, callVars, cronVars>>

Charge(u, t) ==
  /\ gen[u][t] = "charge"
  /\ Settle(u, t, TRUE)
  /\ End(u, t)
  /\ UNCHANGED <<termVars, callVars, cronVars>>

Fail(u, t) ==
  /\ gen[u][t] = "fail"
  /\ FailTerm(t)
  /\ SettleNext(u, t, "release")
  /\ UNCHANGED <<creditVars, callVars, cronVars>>

Release(u, t) ==
  /\ gen[u][t] = "release"
  /\ Settle(u, t, FALSE)
  /\ End(u, t)
  /\ UNCHANGED <<termVars, callVars, cronVars>>

-----------------------------------------------------------------------------
(* The crons.                                                                *)

\* Mutant: the recovery lists the terms a credit is held for.
ListStaleHeld(t) ==
  /\ rec[t] = AtRest
  /\ status[t] = "PENDING" /\ owner[t] # None
  /\ rsv[owner[t]][t] = "PENDING"
  /\ rec' = [rec EXCEPT ![t] = [at |-> "fail", user |-> owner[t]]]
  /\ UNCHANGED <<termVars, creditVars, callVars, workVars, exp>>

\* recoverStaleTerms lists the terms and the users they are PENDING for ...
ListStale(t) ==
  /\ rec[t] = AtRest
  /\ status[t] = "PENDING" /\ owner[t] # None
  /\ rec' = [rec EXCEPT ![t] = [at |-> "fail", user |-> owner[t]]]
  /\ UNCHANGED <<termVars, creditVars, callVars, workVars, exp>>

\* The credit of the user who was read is settled next.
RecoverNext(t) ==
  rec' = [rec EXCEPT ![t] = IF rsv[rec[t].user][t] = "PENDING"
                              THEN [@ EXCEPT !.at = "release"] ELSE AtRest]

\* Mutant: the recovery does not look at the status again.
RecoverAnyTerm(t) ==
  /\ rec[t].at = "fail"
  /\ status' = [status EXCEPT ![t] = "FAILED"]
  /\ RecoverNext(t)
  /\ UNCHANGED <<key, text, owner, into, alias, creditVars, callVars, workVars, exp>>

\* ... fails those that still are PENDING, and gives back the credit even of a term
\* that has become READY meanwhile.
RecoverTerm(t) ==
  /\ rec[t].at = "fail"
  /\ FailTerm(t)
  /\ RecoverNext(t)
  /\ UNCHANGED <<creditVars, callVars, workVars, exp>>

RecoverCredit(t) ==
  /\ rec[t].at = "release"
  /\ Settle(rec[t].user, t, FALSE)
  /\ rec' = [rec EXCEPT ![t] = AtRest]
  /\ UNCHANGED <<termVars, callVars, workVars, exp>>

\* expireReservations.
ReadToExpire(u, t) ==
  /\ ~ exp[u][t] /\ rsv[u][t] = "PENDING"
  /\ exp' = [exp EXCEPT ![u][t] = TRUE]
  /\ UNCHANGED <<termVars, creditVars, callVars, workVars, rec>>

Expire(u, t) ==
  /\ exp[u][t]
  /\ Settle(u, t, FALSE)
  /\ exp' = [exp EXCEPT ![u][t] = FALSE]
  /\ UNCHANGED <<termVars, callVars, workVars, rec>>

-----------------------------------------------------------------------------
(* A process may die at every point: nothing makes a request or a worker take *)
(* its next step, and a dead worker's job keeps its place in the queue.      *)

\* The stalled job is run again; or given up, and forgotten after a day; or a
\* statement after the provider's answer throws.
WorkerFails(u, t) ==
  /\ job[u][t] = "active" /\ faults < MaxFaults
  /\ faults' = faults + 1
  /\ \/ \E state \in {"waiting", "none"} :
          /\ job' = [job EXCEPT ![u][t] = state]
          /\ gen' = [gen EXCEPT ![u][t] = "idle"]
          /\ answer' = [answer EXCEPT ![u][t] = NoAnswer]
     \/ gen[u][t] \in {"store", "alias", "charge"} /\ Go(u, t, "fail")
  /\ UNCHANGED <<termVars, creditVars, at, about, asks, cronVars>>

-----------------------------------------------------------------------------
RequestStep(u) ==
  \/ Claim(u) \/ Reserve(u) \/ Enqueue(u) \/ Undo(u) \/ GiveBack(u)

WorkerStep(u, t) ==
  \/ Generate(u, t) \/ Merge(u, t) \/ Store(u, t)
  \/ StoreAlias(u, t) \/ Charge(u, t) \/ Fail(u, t) \/ Release(u, t)

RecoveryStep(t) ==
  ListStale(t) \/ RecoverTerm(t) \/ RecoverCredit(t)

ExpiryStep(u, t) == ReadToExpire(u, t) \/ Expire(u, t)

Next ==
  \/ \E u \in Users, k \in Keys : Ask(u, k)
  \/ \E u \in Users : RequestStep(u)
  \/ \E u \in Users, t \in Terms : 
       WorkerStep(u, t) \/ WorkerFails(u, t) \/ ExpiryStep(u, t)
  \/ \E t \in Terms : RecoveryStep(t)

Spec == Init /\ [][Next]_vars

\* Time passes and the crons run; the queue and the requests need not get on.
Fairness == \A t \in Terms : WF_vars(RecoveryStep(t))

FairSpec == Spec /\ Fairness

-----------------------------------------------------------------------------
(* Properties.                                                               *)

\* explanation-credits.service.ts:82 promises that a credit is charged only when
\* the term was stored, whatever the recovery and the expiry did meanwhile.
PaidIsStored ==
  \A u \in Users, t \in Terms : rsv[u][t] = "CONSUMED" => status[t] \in Stored

\* A term is paid for by one user, although a second one may have taken it over
\* while the worker of the first was still at it.  A term that was merged is the
\* exception: a job that comes late passes by READY terms only, has the text
\* explained again and charges the second user as well.
OnePayer ==
  \A t \in Terms : \A u, v \in Users :
    into[t] = None /\ rsv[u][t] = "CONSUMED" /\ rsv[v][t] = "CONSUMED" => u = v

\* A credit is reserved for every reservation that is held and for nothing else,
\* through retries, take-overs, recovery and expiry, unless two settlements of one
\* reservation overtook each other: then too few credits are reserved, never too many.
ReservedExact ==
  \A u \in Users :
    /\ reserved[u] <= Cardinality(Held(u))
    /\ u \notin overtaken => reserved[u] = Cardinality(Held(u))

\* explanation-credits.service.ts:110 promises that requests in parallel do not drive
\* the quota below zero.
QuotaNotNegative == \A u \in Users : reserved[u] >= 0

\* Whoever asks for a merged term gets an explanation.
MergedIntoReady ==
  \A t \in Terms : into[t] # None => status[into[t]] = "READY"

\* An explanation that was stored is never taken back, by no late worker, request
\* or recovery.
ReadyKept == [][\A t \in Terms : status[t] = "READY" => status'[t] = "READY"]_vars

\* No text is blocked for good: a PENDING term is stored or may be tried again,
\* even when its request was refused, its job dropped or its worker dead.
PendingSettles == \A t \in Terms : status[t] = "PENDING" ~> status[t] # "PENDING"
=============================================================================
