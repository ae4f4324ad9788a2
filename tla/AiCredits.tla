------------------------------ MODULE AiCredits ------------------------------
(* AiCreditsService: the credit cycles and credit reservations of one user.  *)
(*                                                                           *)
(* Postgres runs the transactions at READ COMMITTED.  A transaction that     *)
(* takes the user's advisory lock before its first read (reserve,            *)
(* getOrCreateActiveCycle, a plan purchase) is one step.  The transactions   *)
(* that settle a reservation (consume, release, extendReservation and the    *)
(* expiry cron) read the row BEFORE they wait for the lock and never read it *)
(* again: they take two steps, Read and Commit, and what they know of the    *)
(* reservation in the second is the snapshot taken in the first.             *)
EXTENDS CreditUnits

CONSTANTS Settlers,   \* settlement transactions that can be in flight at once
          Cron,       \* the one of them that runs expireReservations
          Scope,      \* Scope[s]: the keys settler s may be asked to settle
          Orders,     \* plan purchases and manual grants
          FreeGrant,  \* FREE_DAILY_AI_CREDITS
          PlanGrant,  \* plan.creditPerCycle
          DayLength,  \* a Vietnam day, in ticks
          PlanLength, \* plan.durationDays, in ticks
          Ttl,        \* getReservationTtlMs, in ticks
          Minimums,   \* minimumExpiresAt callers pass to extendReservation (0: none)
          MaxClock,   \* the bound on the clock
          MaxSkew,    \* the bound on how far below 0 a counter can be driven
          NoRef       \* activeKey of no cycle

ASSUME SettlersAssumption ==
  /\ Cron \in Settlers
  /\ Scope \in [Settlers -> SUBSET Keys]

\* A plan may grant no credits: creditPerCycle is optional, with @Min(0).
ASSUME GrantAssumption == FreeGrant \in Nat /\ PlanGrant \in Nat

ASSUME TimeAssumption ==
  /\ DayLength \in Nat \ {0}
  /\ PlanLength \in Nat \ {0}
  /\ Ttl \in Nat \ {0}
  /\ Minimums \subseteq Nat
  /\ MaxClock \in Nat
  /\ MaxSkew \in Nat

VARIABLES clock,   \* new Date()
          cycles,  \* credit_cycles by sourceReference; not open: no row
          active,  \* the source of the row that has the user's activeKey
          sub,     \* the user's subscription row
          rsv,     \* credit_reservations by idempotencyKey
          txn,     \* the settlement transactions in flight
          raced    \* history: a settlement has moved credits from a stale read

vars == <<clock, cycles, active, sub, rsv, txn, raced>>

FreeRef(day) == <<"free", day>>
LegacyRef(startedAt) == <<"subscription", startedAt>>
OrderRef(o) == <<"order", o>>

Refs == {FreeRef(t \div DayLength) : t \in 0..MaxClock}
          \cup {LegacyRef(t) : t \in 0..MaxClock}
          \cup {OrderRef(o) : o \in Orders}

ASSUME NoRefAssumption == NoRef \notin Refs

Cycle == [open : BOOLEAN, granted : Nat, used : Int, reserved : Int, endsAt : Nat]
NoCycle ==
  [open |-> FALSE, granted |-> 0, used |-> 0, reserved |-> 0, endsAt |-> 0]
NewCycle(granted, endsAt) ==
  [open |-> TRUE, granted |-> granted, used |-> 0, reserved |-> 0, endsAt |-> endsAt]

Statuses == {"NONE", "PENDING", "CONSUMED", "RELEASED", "EXPIRED"}
Reservation == [status : Statuses, cycle : Refs \cup {NoRef}, expiresAt : Nat]

Ops == {"consume", "release", "extend", "expire"}
Idle == [op |-> "idle"]
Txn == [op : Ops, key : Keys, snap : Reservation]

TypeOK ==
  /\ clock \in 0..MaxClock
  /\ cycles \in [Refs -> Cycle]
  /\ active \in Refs \cup {NoRef}
  /\ sub \in [startedAt : 0..MaxClock, expiresAt : Nat]
  /\ rsv \in [Keys -> Reservation]
  /\ txn \in [Settlers -> Txn \cup {Idle}]
  /\ raced \in BOOLEAN

(* The user may have a subscription bought before credits were introduced:   *)
(* no purchase has opened a cycle for it.                                    *)
Init ==
  /\ clock = 0
  /\ cycles = [c \in Refs |-> NoCycle]
  /\ active = NoRef
  /\ \E e \in {0, PlanLength} : sub = [startedAt |-> 0, expiresAt |-> e]
  /\ rsv = [k \in Keys |-> [status |-> "NONE", cycle |-> NoRef, expiresAt |-> 0]]
  /\ txn = [s \in Settlers |-> Idle]
  /\ raced = FALSE

Tick ==
  /\ clock < MaxClock
  /\ clock' = clock + 1
  /\ UNCHANGED <<cycles, active, sub, rsv, txn, raced>>

-----------------------------------------------------------------------------
(* Credit cycles.                                                            *)

Opened(c) == cycles[c].open

\* The cycle that keeps the activeKey once a cycle that has ended has lost it.
Unexpired ==
  IF active # NoRef /\ cycles[active].endsAt > clock THEN active ELSE NoRef

Subscribed == sub.expiresAt > clock

\* Mutant: the free cycle ends a tick before its day does.
EndOfTodayEarly == (clock \div DayLength) * DayLength + DayLength - 1

Today == FreeRef(clock \div DayLength)
EndOfToday == (clock \div DayLength) * DayLength + DayLength

\* getOrCreateActiveCycleInTransaction: the active cycle, else that of the
\* running subscription, else the free cycle of the day.
Current ==
  IF Unexpired # NoRef THEN Unexpired
  ELSE IF Subscribed THEN LegacyRef(sub.startedAt)
  ELSE Today

\* Mutant: a cycle opened late for a subscription lasts a whole plan from now.
CyclesWithCurrentFromNow ==
  IF Opened(Current) THEN cycles
  ELSE [cycles EXCEPT ![Current] =
         IF Subscribed THEN NewCycle(PlanGrant, clock + PlanLength)
                       ELSE NewCycle(FreeGrant, EndOfToday)]

\* openCycleInTransaction for Current: a cycle already opened from the same
\* source is returned as it is.
CyclesWithCurrent ==
  IF Opened(Current) THEN cycles
  ELSE [cycles EXCEPT ![Current] =
         IF Subscribed THEN NewCycle(PlanGrant, sub.expiresAt)
                       ELSE NewCycle(FreeGrant, EndOfToday)]

ActiveWithCurrent ==
  IF Unexpired # NoRef THEN Unexpired
  ELSE IF Opened(Current) THEN NoRef
  ELSE Current

\* getBalance, and assertAvailable when the balance suffices.
GetOrCreateActiveCycle ==
  /\ cycles' = CyclesWithCurrent
  /\ active' = ActiveWithCurrent
  /\ UNCHANGED <<clock, sub, rsv, txn, raced>>

IsFree(c) == c[1] = "free"

\* The billing transaction of a webhook payment or a manual grant: the user has
\* no running subscription, the new paid cycle replaces a free one.
BuyPlan(o) ==
  /\ ~ Opened(OrderRef(o))
  /\ ~ Subscribed
  /\ Unexpired # NoRef => IsFree(Unexpired)
  /\ sub' = [startedAt |-> clock, expiresAt |-> clock + PlanLength]
  /\ cycles' = [cycles EXCEPT ![OrderRef(o)] =
                  NewCycle(PlanGrant, clock + PlanLength)]
  /\ active' = OrderRef(o)
  /\ UNCHANGED <<clock, rsv, txn, raced>>

-----------------------------------------------------------------------------
(* Reservations.                                                             *)

\* Mutant: the claim forgets what the cycle has used.
ReserveIgnoringUsed(k) ==
  LET c == CyclesWithCurrent[Current] IN
  /\ rsv[k].status \notin {"PENDING", "CONSUMED"}
  /\ ActiveWithCurrent = Current /\ c.endsAt > clock
  /\ c.reserved <= c.granted - Cost[k]
  /\ c.reserved >= -MaxSkew
  /\ cycles' = [CyclesWithCurrent EXCEPT ![Current].reserved = @ + Cost[k]]
  /\ active' = ActiveWithCurrent
  /\ rsv' = [rsv EXCEPT ![k] = [status |-> "PENDING", cycle |-> Current,
                                expiresAt |-> clock + Ttl]]
  /\ UNCHANGED <<clock, sub, txn, raced>>

\* Mutant: a reactivated reservation keeps the cycle it was first made on.
ReserveOnOldCycle(k) ==
  LET c == CyclesWithCurrent[Current] IN
  /\ rsv[k].status \notin {"PENDING", "CONSUMED"}
  /\ ActiveWithCurrent = Current /\ c.endsAt > clock
  /\ c.reserved <= c.granted - c.used - Cost[k]
  /\ c.reserved >= -MaxSkew
  /\ cycles' = [CyclesWithCurrent EXCEPT ![Current].reserved = @ + Cost[k]]
  /\ active' = ActiveWithCurrent
  /\ rsv' = [rsv EXCEPT ![k].status = "PENDING", ![k].expiresAt = clock + Ttl,
                        ![k].cycle = IF @ = NoRef THEN Current ELSE @]
  /\ UNCHANGED <<clock, sub, txn, raced>>

\* A key that is PENDING or CONSUMED is returned as it is, and a cycle without
\* enough credits (or without the activeKey) rolls everything back: neither
\* changes the state.
Reserve(k) ==
  LET c == CyclesWithCurrent[Current] IN
  /\ rsv[k].status \notin {"PENDING", "CONSUMED"}
  /\ ActiveWithCurrent = Current
  /\ c.endsAt > clock
  /\ c.reserved <= c.granted - c.used - Cost[k]
  /\ c.reserved >= -MaxSkew
  /\ cycles' = [CyclesWithCurrent EXCEPT ![Current].reserved = @ + Cost[k]]
  /\ active' = ActiveWithCurrent
  /\ rsv' = [rsv EXCEPT ![k] = [status |-> "PENDING", cycle |-> Current,
                                expiresAt |-> clock + Ttl]]
  /\ UNCHANGED <<clock, sub, txn, raced>>

\* The first read of consume, release and extendReservation.
ReadToSettle(s, k, op) ==
  /\ s # Cron
  /\ op # "expire"
  /\ txn[s] = Idle
  /\ k \in Scope[s]
  /\ rsv[k].status # "NONE"
  /\ txn' = [txn EXCEPT ![s] = [op |-> op, key |-> k, snap |-> rsv[k]]]
  /\ UNCHANGED <<clock, cycles, active, sub, rsv, raced>>

Due(k) == rsv[k].status = "PENDING" /\ rsv[k].expiresAt <= clock

\* expireReservations: the due reservation that expired first is read.
ReadToExpire(k) ==
  /\ txn[Cron] = Idle
  /\ k \in Scope[Cron]
  /\ Due(k)
  /\ \A j \in Scope[Cron] : Due(j) => rsv[k].expiresAt <= rsv[j].expiresAt
  /\ txn' = [txn EXCEPT ![Cron] = [op |-> "expire", key |-> k, snap |-> rsv[k]]]
  /\ UNCHANGED <<clock, cycles, active, sub, rsv, raced>>

\* Mutant: an expiry matches the row on its new status and so finds none.
ReleaseUnmatched(k, snap, status) ==
  IF status = "EXPIRED" THEN UNCHANGED <<cycles, rsv>>
  ELSE /\ rsv' = [rsv EXCEPT ![k].status = status, ![k].expiresAt = clock]
       /\ cycles' = [cycles EXCEPT ![snap.cycle].reserved = @ - Cost[k]]

\* releasePendingInTransaction.
ReleasePending(k, snap, status) ==
  /\ rsv' = [rsv EXCEPT ![k].status = status, ![k].expiresAt = clock]
  /\ cycles' = [cycles EXCEPT ![snap.cycle].reserved = @ - Cost[k]]

\* Mutant: the charge leaves the credits reserved as well.
ConsumeReserved(k, snap) ==
  /\ rsv' = [rsv EXCEPT ![k].status = "CONSUMED", ![k].expiresAt = clock]
  /\ cycles' = [cycles EXCEPT ![snap.cycle].used = @ + Cost[k]]

Consume(k, snap) ==
  /\ rsv' = [rsv EXCEPT ![k].status = "CONSUMED", ![k].expiresAt = clock]
  /\ cycles' = [cycles EXCEPT ![snap.cycle].reserved = @ - Cost[k],
                              ![snap.cycle].used = @ + Cost[k]]

Later(t, u) == IF t < u THEN u ELSE t

\* extendReservation: the latest of the old expiry, the time to live from now and
\* what the caller asks for, which a mock asks to cover its interview.
Extend(k, snap, minimum) ==
  /\ rsv' = [rsv EXCEPT ![k].expiresAt =
                Later(Later(snap.expiresAt, clock + Ttl), minimum)]
  /\ UNCHANGED cycles

\* Mutant: consume and release do not look at the status first.
SettleAnyStatus(op, k, snap) ==
  \/ op = "consume" /\ Consume(k, snap)
  \/ op = "release" /\ ReleasePending(k, snap, "RELEASED")
  \/ op = "expire" /\ ReleasePending(k, snap, "EXPIRED")
  \/ op = "extend" /\ \E m \in Minimums : Extend(k, snap, m)

\* What the transaction does once it has the lock, all of it decided by the
\* snapshot.
Settle(op, k, snap) ==
  LET overdue == snap.expiresAt <= clock IN
  \/ /\ snap.status # "PENDING"
     /\ UNCHANGED <<cycles, rsv>>
  \/ /\ snap.status = "PENDING" /\ op = "release"
     /\ ReleasePending(k, snap, "RELEASED")
  \/ /\ snap.status = "PENDING" /\ op = "expire"
     /\ ReleasePending(k, snap, "EXPIRED")
  \/ /\ snap.status = "PENDING" /\ op \in {"consume", "extend"} /\ overdue
     /\ ReleasePending(k, snap, "EXPIRED")
  \/ /\ snap.status = "PENDING" /\ op = "consume" /\ ~ overdue
     /\ Consume(k, snap)
  \/ /\ snap.status = "PENDING" /\ op = "extend" /\ ~ overdue
     /\ \E m \in Minimums : Extend(k, snap, m)

\* Another transaction has settled the reservation, or reactivated it on another
\* cycle, since this one read it.
Overtaken(k, snap) ==
  /\ snap.status = "PENDING"
  /\ rsv[k].status # "PENDING" \/ rsv[k].cycle # snap.cycle

Commit(s) ==
  /\ txn[s] # Idle
  /\ Settle(txn[s].op, txn[s].key, txn[s].snap)
  /\ raced' = (raced \/ (Overtaken(txn[s].key, txn[s].snap) /\ cycles' # cycles))
  /\ txn' = [txn EXCEPT ![s] = Idle]
  /\ UNCHANGED <<clock, active, sub>>

\* The process dies, or the transaction times out waiting for the lock.
Rollback(s) ==
  /\ txn[s] # Idle
  /\ txn' = [txn EXCEPT ![s] = Idle]
  /\ UNCHANGED <<clock, cycles, active, sub, rsv, raced>>

-----------------------------------------------------------------------------

Next ==
  \/ Tick
  \/ GetOrCreateActiveCycle
  \/ \E o \in Orders : BuyPlan(o)
  \/ \E k \in Keys : Reserve(k) \/ ReadToExpire(k)
  \/ \E s \in Settlers, k \in Keys, op \in Ops : ReadToSettle(s, k, op)
  \/ \E s \in Settlers : Commit(s) \/ Rollback(s)

Spec == Init /\ [][Next]_vars

(* The cron runs forever, every five minutes: it reads a due reservation     *)
(* again and again, so its transaction does not roll back every time.        *)
Fairness ==
  /\ WF_vars(\E k \in Keys : ReadToExpire(k))
  /\ SF_vars(Commit(Cron))

FairSpec == Spec /\ Fairness

-----------------------------------------------------------------------------
(* Properties.                                                               *)

(* However the settlements race, the counters of a cycle never promise more  *)
(* than was granted: the conditional update of reserve is the only step that *)
(* raises used + reserved.                                                   *)
WithinGrant ==
  \A c \in Refs : cycles[c].used + cycles[c].reserved <= cycles[c].granted

(* The cycle getOrCreateActiveCycleInTransaction returns has the activeKey   *)
(* and has not ended: the balance it shows is one reserve can claim.  It     *)
(* would fail if the source fallback returned a cycle closed earlier.        *)
CurrentCycleUsable ==
  /\ ActiveWithCurrent = Current
  /\ CyclesWithCurrent[Current].endsAt > clock

(* A purchase accepted because the subscription has ended never fails with   *)
(* CREDIT_CYCLE_CONFLICT: a paid cycle never outlives its subscription.      *)
PurchaseNeverConflicts ==
  ~ Subscribed /\ Unexpired # NoRef => IsFree(Unexpired)

(* A reservation whose time is up does not hold its credits forever, whatever *)
(* the worker and the requests do with it meanwhile.                         *)
DueIsSettled == \A k \in Keys : Due(k) ~> ~ Due(k)

Held(c) == {k \in Keys : rsv[k].status = "PENDING" /\ rsv[k].cycle = c}
Charged(c) == {k \in Keys : rsv[k].status = "CONSUMED" /\ rsv[k].cycle = c}

(* Until a settlement has moved credits from a read that another one had      *)
(* overtaken, the counters of every cycle are the sums of its reservations:  *)
(* the drift reconcileBalances looks for comes from such a race alone (it    *)
(* also reports a PENDING reservation that is overdue and not collected yet). *)
LedgerExact ==
  ~ raced =>
    \A c \in Refs : /\ cycles[c].reserved = Credits(Held(c))
                    /\ cycles[c].used = Credits(Charged(c))

(* Until then the user never spends more than the cycle granted.             *)
NoOverspend ==
  ~ raced => \A c \in Refs : Credits(Held(c) \cup Charged(c)) <= cycles[c].granted

\* The used credits of a cycle rise only as a reservation turns to CONSUMED.
OneCharge ==
  \A c \in Refs : cycles'[c].used > cycles[c].used =>
    \E k \in Keys : rsv[k].status # "CONSUMED" /\ rsv'[k].status = "CONSUMED"

\* The reserved credits of a cycle fall only as a reservation leaves PENDING.
OneRelease ==
  \A c \in Refs : cycles'[c].reserved < cycles[c].reserved =>
    \E k \in Keys : rsv[k].status = "PENDING" /\ rsv'[k].status # "PENDING"

(* consume: "calling it again on a CONSUMED reservation does not charge a    *)
(* second time".  No step charges a reservation twice.                       *)
ConsumeIsIdempotent == [][OneCharge]_vars

(* It does not in every step up to the first that acts on an overtaken read. *)
ChargedOnce == [][~ raced' => OneCharge]_vars

(* release: "retrying a release does not change the balance a second time".  *)
(* It does not in every step up to the first that acts on an overtaken read. *)
ReleasedOnce == [][~ raced' => OneRelease]_vars

(* The service implements the ledger it promises (statuses, cycles and       *)
(* grants, with every counter forgotten), up to the first step that acts on  *)
(* an overtaken read.                                                        *)
LedgerState(r) ==
  CASE r.status = "PENDING" -> "held"
    [] r.status = "CONSUMED" -> "charged"
    [] OTHER -> "free"

Ledger == INSTANCE CreditLedger WITH
  state <- [k \in Keys |-> LedgerState(rsv[k])],
  on <- [k \in Keys |-> rsv[k].cycle],
  grant <- [c \in Refs |-> cycles[c].granted],
  Grants <- {FreeGrant, PlanGrant}

ImplementsLedger ==
  Ledger!Init /\ [][raced' \/ Ledger!Next]_(Ledger!ledgerVars)
=============================================================================
