--------------------------- MODULE AiCreditsProofs ---------------------------
(* Proofs about AiCredits, for every value of its constants.                 *)
EXTENDS AiCredits, FiniteSetTheorems, TLAPS

-----------------------------------------------------------------------------
(* Type correctness.                                                         *)

LEMMA CurrentType ==
  ASSUME TypeOK
  PROVE  /\ Current \in Refs
         /\ Unexpired \in Refs \cup {NoRef}
         /\ ActiveWithCurrent \in Refs \cup {NoRef}
         /\ EndOfToday \in Nat
         /\ CyclesWithCurrent \in [Refs -> Cycle]
         /\ \A c \in Refs : CyclesWithCurrent[c].granted \in Nat
<1>1. Unexpired \in Refs \cup {NoRef}
  BY DEF TypeOK, Unexpired
<1>2. Today \in Refs
  BY DEF TypeOK, Today, Refs
<1>3. LegacyRef(sub.startedAt) \in Refs
  BY DEF TypeOK, Refs
<1>4. Current \in Refs
  BY <1>1, <1>2, <1>3 DEF Current
<1>5. ActiveWithCurrent \in Refs \cup {NoRef}
  BY <1>1, <1>4 DEF ActiveWithCurrent
<1>6. EndOfToday \in Nat
  <2>1. clock \div DayLength \in Nat
    BY TimeAssumption DEF TypeOK
  <2>2. (clock \div DayLength) * DayLength \in Nat
    BY <2>1, TimeAssumption
  <2> QED BY <2>2, TimeAssumption DEF EndOfToday
<1>7. CyclesWithCurrent \in [Refs -> Cycle]
  <2>1. NewCycle(PlanGrant, sub.expiresAt) \in Cycle
    BY GrantAssumption DEF TypeOK, NewCycle, Cycle
  <2>2. NewCycle(FreeGrant, EndOfToday) \in Cycle
    BY <1>6, GrantAssumption DEF NewCycle, Cycle
  <2> QED BY <2>1, <2>2 DEF CyclesWithCurrent, TypeOK
<1> QED BY <1>1, <1>4, <1>5, <1>6, <1>7 DEF Cycle

LEMMA CostType == \A k \in Keys : Cost[k] \in Nat
  BY CostAssumption

\* A snapshot that is PENDING has a cycle: an invariant of its own, below.
Backed ==
  /\ \A k \in Keys : rsv[k].status = "PENDING" => rsv[k].cycle \in Refs
  /\ \A s \in Settlers : txn[s] # Idle /\ txn[s].snap.status = "PENDING" =>
       txn[s].snap.cycle \in Refs

LEMMA TypeInit == Init => TypeOK /\ Backed
<1> SUFFICES ASSUME Init PROVE TypeOK /\ Backed
  OBVIOUS
<1>1. cycles \in [Refs -> Cycle]
  BY DEF Init, Cycle, NoCycle
<1>2. rsv \in [Keys -> Reservation]
  BY DEF Init, Reservation, Statuses
<1>3. raced \in BOOLEAN /\ Backed
  BY DEF Init, Backed
<1> QED
  BY <1>1, <1>2, <1>3, TimeAssumption DEF Init, TypeOK

LEMMA TypeStep == TypeOK /\ Backed /\ [Next]_vars => TypeOK' /\ Backed'
<1> SUFFICES ASSUME TypeOK, Backed, [Next]_vars
             PROVE  TypeOK' /\ Backed'
  OBVIOUS
<1>1. CASE Tick
  BY <1>1, TimeAssumption DEF Tick, TypeOK, Backed
<1>2. CASE GetOrCreateActiveCycle
  BY <1>2, CurrentType DEF GetOrCreateActiveCycle, TypeOK, Backed
<1>3. ASSUME NEW o \in Orders, BuyPlan(o)
      PROVE  TypeOK' /\ Backed'
  <2>1. OrderRef(o) \in Refs
    BY DEF Refs
  <2>2. NewCycle(PlanGrant, clock + PlanLength) \in Cycle
    BY GrantAssumption, TimeAssumption DEF TypeOK, NewCycle, Cycle
  <2> QED BY <1>3, <2>1, <2>2, TimeAssumption DEF BuyPlan, TypeOK, Backed
<1>4. ASSUME NEW k \in Keys, Reserve(k)
      PROVE  TypeOK' /\ Backed'
  <2>1. cycles' \in [Refs -> Cycle]
    BY <1>4, CurrentType, CostType DEF Reserve, Cycle
  <2>2. [status |-> "PENDING", cycle |-> Current, expiresAt |-> clock + Ttl]
          \in Reservation
    BY CurrentType, TimeAssumption DEF TypeOK, Reservation, Statuses
  <2>3. rsv' \in [Keys -> Reservation]
    BY <1>4, <2>2 DEF Reserve, TypeOK
  <2>4. \A j \in Keys : rsv'[j].status = "PENDING" => rsv'[j].cycle \in Refs
    BY <1>4, CurrentType DEF Reserve, TypeOK, Backed
  <2> QED BY <1>4, <2>1, <2>3, <2>4, CurrentType DEF Reserve, TypeOK, Backed
<1>5. ASSUME NEW k \in Keys, ReadToExpire(k)
      PROVE  TypeOK' /\ Backed'
  <2>1. [op |-> "expire", key |-> k, snap |-> rsv[k]] \in Txn
    BY DEF TypeOK, Txn, Ops
  <2> QED BY <1>5, <2>1 DEF ReadToExpire, TypeOK, Backed
<1>6. ASSUME NEW s \in Settlers, NEW k \in Keys, NEW op \in Ops,
             ReadToSettle(s, k, op)
      PROVE  TypeOK' /\ Backed'
  <2>1. [op |-> op, key |-> k, snap |-> rsv[k]] \in Txn
    BY DEF TypeOK, Txn
  <2> QED BY <1>6, <2>1 DEF ReadToSettle, TypeOK, Backed
<1>7. ASSUME NEW s \in Settlers, Commit(s)
      PROVE  TypeOK' /\ Backed'
  <2> DEFINE k == txn[s].key
             snap == txn[s].snap
  <2>1. k \in Keys /\ snap \in Reservation
    BY <1>7 DEF Commit, TypeOK, Txn
  <2>2. snap.status = "PENDING" => snap.cycle \in Refs
    BY <1>7 DEF Commit, Backed
  <2>3. snap.expiresAt \in Nat /\ clock \in Nat
    BY <2>1 DEF Reservation, TypeOK
  <2>4. /\ cycles' \in [Refs -> Cycle]
        /\ rsv' \in [Keys -> Reservation]
        /\ \A j \in Keys : rsv'[j].cycle = rsv[j].cycle
        /\ \A j \in Keys : rsv'[j].status = "PENDING" => rsv[j].status = "PENDING"
    <3>1. Settle(txn[s].op, k, snap)
      BY <1>7 DEF Commit
    <3> HIDE DEF k, snap
    <3>2. CASE cycles' = cycles /\ rsv' = rsv
      BY <3>2 DEF TypeOK
    <3>3. ASSUME NEW st \in {"RELEASED", "EXPIRED"}, snap.status = "PENDING",
                 ReleasePending(k, snap, st)
          PROVE  <2>4!1 /\ <2>4!2 /\ <2>4!3 /\ <2>4!4
      <4>1. cycles' \in [Refs -> Cycle]
        BY <2>1, <2>2, <3>3, CostType DEF ReleasePending, TypeOK, Cycle
      <4> QED
        BY <2>1, <2>3, <3>3, <4>1 DEF ReleasePending, TypeOK, Reservation, Statuses
    <3>4. ASSUME snap.status = "PENDING", Consume(k, snap)
          PROVE  <2>4!1 /\ <2>4!2 /\ <2>4!3 /\ <2>4!4
      <4>1. cycles' \in [Refs -> Cycle]
        BY <2>1, <2>2, <3>4, CostType DEF Consume, TypeOK, Cycle
      <4> QED
        BY <2>1, <2>3, <3>4, <4>1 DEF Consume, TypeOK, Reservation, Statuses
    <3>5. ASSUME NEW m \in Minimums, Extend(k, snap, m)
          PROVE  <2>4!1 /\ <2>4!2 /\ <2>4!3 /\ <2>4!4
      <4>1. Later(Later(snap.expiresAt, clock + Ttl), m) \in Nat
        BY <2>3, TimeAssumption DEF Later
      <4> QED
        BY <2>1, <3>5, <4>1 DEF Extend, TypeOK, Reservation
    <3> QED BY <3>1, <3>2, <3>3, <3>4, <3>5 DEF Settle
  <2> QED BY <1>7, <2>4 DEF Commit, TypeOK, Backed
<1>8. ASSUME NEW s \in Settlers, Rollback(s)
      PROVE  TypeOK' /\ Backed'
  BY <1>8 DEF Rollback, TypeOK, Backed
<1>9. CASE UNCHANGED vars
  BY <1>9 DEF vars, TypeOK, Backed
<1> QED BY <1>1, <1>2, <1>3, <1>4, <1>5, <1>6, <1>7, <1>8, <1>9 DEF Next

(* Every table keeps the types of the schema, and a reservation that holds   *)
(* credits, or whose settlement is in flight, is backed by a cycle.          *)
THEOREM TypeCorrect == Spec => [](TypeOK /\ Backed)
  BY TypeInit, TypeStep, PTL DEF Spec

-----------------------------------------------------------------------------
(* The counters never promise more than the grant.                           *)

LEMMA WithinGrantInit == Init => WithinGrant
  BY DEF Init, WithinGrant, NoCycle

LEMMA WithinGrantStep ==
  TypeOK /\ Backed /\ WithinGrant /\ [Next]_vars => WithinGrant'
<1> SUFFICES ASSUME TypeOK, Backed, WithinGrant, [Next]_vars
             PROVE  WithinGrant'
  OBVIOUS
<1> DEFINE Within(cyc) ==
      \A c \in Refs : cyc[c].used + cyc[c].reserved <= cyc[c].granted
<1>1. Within(CyclesWithCurrent)
  BY CurrentType, GrantAssumption
     DEF CyclesWithCurrent, NewCycle, TypeOK, WithinGrant
<1>2. CASE GetOrCreateActiveCycle
  BY <1>1, <1>2 DEF GetOrCreateActiveCycle, WithinGrant
<1>3. ASSUME NEW o \in Orders, BuyPlan(o)
      PROVE  WithinGrant'
  BY <1>3, GrantAssumption DEF BuyPlan, NewCycle, TypeOK, WithinGrant
<1>4. ASSUME NEW k \in Keys, Reserve(k)
      PROVE  WithinGrant'
  <2>1. \A c \in Refs : CyclesWithCurrent[c] \in Cycle
    BY CurrentType
  <2> QED
    BY <1>1, <1>4, <2>1, CurrentType, CostType DEF Reserve, WithinGrant, Cycle
<1>5. ASSUME NEW s \in Settlers, Commit(s)
      PROVE  WithinGrant'
  <2> DEFINE k == txn[s].key
             snap == txn[s].snap
  <2>1. k \in Keys /\ (snap.status = "PENDING" => snap.cycle \in Refs)
    BY <1>5 DEF Commit, TypeOK, Txn, Backed
  <2>2. Settle(txn[s].op, k, snap)
    BY <1>5 DEF Commit
  <2>3. \A c \in Refs : cycles[c] \in Cycle
    BY DEF TypeOK
  <2> HIDE DEF k, snap
  <2> QED
    BY <2>1, <2>2, <2>3, CostType
       DEF Settle, ReleasePending, Consume, Extend, WithinGrant, TypeOK, Cycle
<1>6. CASE UNCHANGED cycles
  BY <1>6 DEF WithinGrant
<1> QED
  BY <1>2, <1>3, <1>4, <1>5, <1>6
     DEF Next, Tick, ReadToSettle, ReadToExpire, Rollback, vars

(* However the settlements race, no cycle ever promises more than it was     *)
(* granted: used + reserved <= granted.                                      *)
THEOREM NeverOverpromised == Spec => []WithinGrant
  BY WithinGrantInit, WithinGrantStep, TypeCorrect, PTL DEF Spec

-----------------------------------------------------------------------------
(* Sums of prices.                                                           *)

LEMMA UnitsFinite ==
  ASSUME NEW K \in SUBSET Keys
  PROVE  IsFiniteSet(Units(K)) /\ Credits(K) \in Nat
<1>1. IsFiniteSet(K) /\ IsFiniteSet(1..MaxCost)
  BY CostAssumption, FS_Subset, FS_Interval
<1>2. IsFiniteSet(K \X (1..MaxCost))
  BY <1>1, FS_Product
<1>3. Units(K) \in SUBSET (K \X (1..MaxCost))
  BY DEF Units
<1>4. IsFiniteSet(Units(K))
  BY <1>2, <1>3, FS_Subset
<1>5. Cardinality(Units(K)) \in Nat
  BY <1>4, FS_CardinalityType
<1> QED BY <1>4, <1>5 DEF Credits

LEMMA CreditsOfNone == Credits({}) = 0
<1>1. Units({}) = {}
  BY DEF Units
<1> QED BY <1>1, FS_EmptySet DEF Credits

LEMMA CreditsOfOne ==
  ASSUME NEW k \in Keys
  PROVE  Credits({k}) = Cost[k]
<1>1. Cost[k] \in 1..MaxCost
  BY CostAssumption
<1>2. Units({k}) = {k} \X (1..Cost[k])
  BY <1>1, CostAssumption DEF Units
<1>3. Cardinality({k}) = 1 /\ IsFiniteSet({k})
  BY FS_Singleton
<1>4. Cardinality(1..Cost[k]) = Cost[k] /\ IsFiniteSet(1..Cost[k])
  BY <1>1, CostAssumption, FS_Interval
<1>5. Cardinality({k} \X (1..Cost[k])) = Cardinality({k}) * Cardinality(1..Cost[k])
  BY <1>3, <1>4, FS_Product, Zenon
<1>6. Cardinality({k} \X (1..Cost[k])) = Cost[k]
  BY <1>1, <1>3, <1>4, <1>5
<1> QED BY <1>2, <1>6 DEF Credits

\* Sums of disjoint sets of keys add up.
LEMMA CreditsOfUnion ==
  ASSUME NEW K \in SUBSET Keys, NEW L \in SUBSET Keys, K \cap L = {}
  PROVE  Credits(K \cup L) = Credits(K) + Credits(L)
<1>1. Units(K \cup L) = Units(K) \cup Units(L)
  BY DEF Units
<1>2. Units(K) \cap Units(L) = {}
  BY DEF Units
<1>3. /\ IsFiniteSet(Units(K)) /\ IsFiniteSet(Units(L))
      /\ Credits(K) \in Nat /\ Credits(L) \in Nat
  BY UnitsFinite
<1>4. Cardinality(Units(K) \cup Units(L)) =
        Cardinality(Units(K)) + Cardinality(Units(L))
          - Cardinality(Units(K) \cap Units(L))
  BY <1>3, FS_Union
<1>5. Cardinality(Units(K) \cap Units(L)) = 0
  BY <1>2, FS_EmptySet
<1>6. Credits(K \cup L) = Cardinality(Units(K) \cup Units(L))
  BY <1>1 DEF Credits
<1> QED BY <1>3, <1>4, <1>5, <1>6 DEF Credits

LEMMA CreditsWith ==
  ASSUME NEW K \in SUBSET Keys, NEW k \in Keys, k \notin K
  PROVE  Credits(K \cup {k}) = Credits(K) + Cost[k]
  BY CreditsOfUnion, CreditsOfOne

LEMMA CreditsWithout ==
  ASSUME NEW K \in SUBSET Keys, NEW k \in K
  PROVE  Credits(K \ {k}) = Credits(K) - Cost[k]
<1>1. K = (K \ {k}) \cup {k}
  OBVIOUS
<1>2. Credits(K) = Credits(K \ {k}) + Cost[k]
  BY <1>1, CreditsWith
<1>3. Credits(K \ {k}) \in Nat /\ Cost[k] \in Nat
  BY UnitsFinite, CostType
<1> QED BY <1>2, <1>3

-----------------------------------------------------------------------------
(* The ledger is exact until a settlement acts on an overtaken read.         *)

\* A reservation that counts is on a cycle that was opened.
OnOpenCycle ==
  \A k \in Keys : rsv[k].status \in {"PENDING", "CONSUMED"} =>
    rsv[k].cycle \in Refs /\ Opened(rsv[k].cycle)

KnownGrants ==
  \A c \in Refs : /\ cycles[c].granted \in {0, FreeGrant, PlanGrant}
                  /\ ~ Opened(c) => cycles[c].granted = 0

LedgerSums ==
  \A c \in Refs : /\ cycles[c].reserved = Credits(Held(c))
                  /\ cycles[c].used = Credits(Charged(c))

LedgerInv == OnOpenCycle /\ KnownGrants /\ LedgerSums

LEMMA LedgerInit == Init => LedgerInv
<1> SUFFICES ASSUME Init PROVE LedgerInv
  OBVIOUS
<1>1. \A c \in Refs : Held(c) = {} /\ Charged(c) = {}
  BY DEF Init, Held, Charged
<1>2. LedgerSums
  BY <1>1, CreditsOfNone DEF LedgerSums, Init, NoCycle
<1> QED
  BY <1>2 DEF Init, LedgerInv, OnOpenCycle, KnownGrants, Opened, NoCycle

\* Steps that neither settle nor reserve leave every sum of prices as it was.
LEMMA SumsUnchanged ==
  ASSUME UNCHANGED rsv
  PROVE  \A c \in Refs : Held(c)' = Held(c) /\ Charged(c)' = Charged(c)
  BY DEF Held, Charged

\* Opening a cycle: no reservation is on it yet, and its counters start at 0.
LEMMA OpeningKeepsLedger ==
  ASSUME TypeOK, LedgerInv, NEW c \in Refs, ~ Opened(c),
         NEW g \in {FreeGrant, PlanGrant}, NEW e \in Nat
  PROVE  LET opened == [cycles EXCEPT ![c] = NewCycle(g, e)] IN
         \A d \in Refs :
           /\ opened[d].granted \in {0, FreeGrant, PlanGrant}
           /\ ~ opened[d].open => opened[d].granted = 0
           /\ Opened(d) => opened[d].open
           /\ opened[d].reserved = Credits(Held(d))
           /\ opened[d].used = Credits(Charged(d))
<1>1. Held(c) = {} /\ Charged(c) = {}
  BY DEF LedgerInv, OnOpenCycle, Held, Charged
<1>2. Credits(Held(c)) = 0 /\ Credits(Charged(c)) = 0
  BY <1>1, CreditsOfNone
<1> QED
  BY <1>2, GrantAssumption
     DEF TypeOK, LedgerInv, LedgerSums, KnownGrants, NewCycle, Opened

LEMMA CurrentKeepsLedger ==
  ASSUME TypeOK, LedgerInv
  PROVE  \A d \in Refs :
           /\ CyclesWithCurrent[d].granted \in {0, FreeGrant, PlanGrant}
           /\ ~ CyclesWithCurrent[d].open => CyclesWithCurrent[d].granted = 0
           /\ Opened(d) => CyclesWithCurrent[d].open
           /\ CyclesWithCurrent[d].reserved = Credits(Held(d))
           /\ CyclesWithCurrent[d].used = Credits(Charged(d))
<1>1. CASE Opened(Current)
  BY <1>1 DEF CyclesWithCurrent, LedgerInv, LedgerSums, KnownGrants, Opened
<1>2. CASE ~ Opened(Current) /\ Subscribed
  BY <1>2, OpeningKeepsLedger, CurrentType DEF CyclesWithCurrent, TypeOK
<1>3. CASE ~ Opened(Current) /\ ~ Subscribed
  BY <1>3, OpeningKeepsLedger, CurrentType DEF CyclesWithCurrent
<1> QED BY <1>1, <1>2, <1>3

LEMMA CurrentOpened ==
  ASSUME TypeOK
  PROVE  CyclesWithCurrent[Current].open
<1>1. CASE Opened(Current)
  BY <1>1 DEF CyclesWithCurrent, Opened
<1>2. CASE ~ Opened(Current)
  BY <1>2, CurrentType DEF CyclesWithCurrent, NewCycle, TypeOK
<1> QED BY <1>1, <1>2

LEMMA ReserveKeepsLedger ==
  ASSUME TypeOK, LedgerInv, NEW k \in Keys, Reserve(k)
  PROVE  LedgerInv'
<1> PICK cur \in Refs : cur = Current
  BY CurrentType
<1>1. /\ CyclesWithCurrent \in [Refs -> Cycle]
      /\ rsv' = [rsv EXCEPT ![k] = [status |-> "PENDING", cycle |-> cur,
                                    expiresAt |-> clock + Ttl]]
      /\ cycles' = [CyclesWithCurrent EXCEPT ![cur].reserved = @ + Cost[k]]
      /\ rsv[k].status \notin {"PENDING", "CONSUMED"}
      /\ txn' = txn
  BY CurrentType DEF Reserve
<1>2. Held(cur)' = Held(cur) \cup {k} /\ k \notin Held(cur)
  BY <1>1 DEF Held, TypeOK
<1>3. \A c \in Refs : /\ c # cur => Held(c)' = Held(c)
                      /\ Charged(c)' = Charged(c)
  BY <1>1 DEF Held, Charged, TypeOK
<1>4. Held(cur) \in SUBSET Keys
  BY DEF Held
<1>5. Credits(Held(cur)') = Credits(Held(cur)) + Cost[k]
  BY <1>2, <1>4, CreditsWith
<1>6. LedgerSums'
  <2>1. \A c \in Refs : /\ cycles'[c].reserved = Credits(Held(c)')
                        /\ cycles'[c].used = Credits(Charged(c)')
    BY <1>1, <1>3, <1>5, CurrentKeepsLedger DEF Cycle
  <2> QED BY <2>1 DEF LedgerSums, Credits, Units
<1>7. KnownGrants'
  BY <1>1, CurrentKeepsLedger DEF KnownGrants, Opened, Cycle
<1>8. OnOpenCycle'
  <2>1. \A c \in Refs : Opened(c) => cycles'[c].open
    BY <1>1, CurrentKeepsLedger DEF Opened, Cycle
  <2>2. cycles'[cur].open
    BY <1>1, CurrentOpened DEF Cycle
  <2> QED BY <1>1, <2>1, <2>2 DEF LedgerInv, OnOpenCycle, Opened, TypeOK
<1> QED BY <1>6, <1>7, <1>8 DEF LedgerInv

\* Settling a key that is PENDING on cycle c takes it out of what c holds.
LEMMA ReleaseKeepsSums ==
  ASSUME TypeOK, LedgerInv, NEW k \in Keys, NEW snap, NEW c \in Refs,
         snap.cycle = c, rsv[k].status = "PENDING", rsv[k].cycle = c,
         NEW st \in {"RELEASED", "EXPIRED"}, ReleasePending(k, snap, st)
  PROVE  LedgerInv'
<1>1. /\ rsv' = [rsv EXCEPT ![k].status = st, ![k].expiresAt = clock]
      /\ cycles' = [cycles EXCEPT ![c].reserved = @ - Cost[k]]
  BY DEF ReleasePending
<1>2. Held(c)' = Held(c) \ {k} /\ k \in Held(c) /\ Held(c) \in SUBSET Keys
  BY <1>1 DEF Held, TypeOK, Reservation
<1>3. \A d \in Refs : /\ d # c => Held(d)' = Held(d)
                      /\ Charged(d)' = Charged(d)
  BY <1>1 DEF Held, Charged, TypeOK, Reservation
<1>4. Credits(Held(c)') = Credits(Held(c)) - Cost[k]
  BY <1>2, CreditsWithout
<1>5. \A d \in Refs : /\ cycles'[d].reserved = Credits(Held(d)')
                      /\ cycles'[d].used = Credits(Charged(d)')
                      /\ cycles'[d].granted = cycles[d].granted
                      /\ cycles'[d].open = cycles[d].open
  BY <1>1, <1>3, <1>4 DEF LedgerInv, LedgerSums, TypeOK, Cycle
<1>6. OnOpenCycle'
  BY <1>1, <1>5 DEF LedgerInv, OnOpenCycle, Opened, TypeOK, Reservation
<1> QED
  BY <1>5, <1>6 DEF LedgerInv, LedgerSums, KnownGrants, Opened, Credits, Units

\* Consuming it moves its price from what c holds to what c was charged.
LEMMA ConsumeKeepsSums ==
  ASSUME TypeOK, LedgerInv, NEW k \in Keys, NEW snap, NEW c \in Refs,
         snap.cycle = c, rsv[k].status = "PENDING", rsv[k].cycle = c,
         Consume(k, snap)
  PROVE  LedgerInv'
<1>1. /\ rsv' = [rsv EXCEPT ![k].status = "CONSUMED", ![k].expiresAt = clock]
      /\ cycles' = [cycles EXCEPT ![c].reserved = @ - Cost[k],
                                  ![c].used = @ + Cost[k]]
  BY DEF Consume
<1>2. Held(c)' = Held(c) \ {k} /\ k \in Held(c) /\ Held(c) \in SUBSET Keys
  BY <1>1 DEF Held, TypeOK, Reservation
<1>3. /\ Charged(c)' = Charged(c) \cup {k}
      /\ k \notin Charged(c) /\ Charged(c) \in SUBSET Keys
  BY <1>1 DEF Charged, TypeOK, Reservation
<1>4. \A d \in Refs : d # c => Held(d)' = Held(d) /\ Charged(d)' = Charged(d)
  BY <1>1 DEF Held, Charged, TypeOK, Reservation
<1>5. Credits(Held(c)') = Credits(Held(c)) - Cost[k]
  BY <1>2, CreditsWithout
<1>6. Credits(Charged(c)') = Credits(Charged(c)) + Cost[k]
  BY <1>3, CreditsWith
<1>7. \A d \in Refs : /\ cycles'[d].reserved = Credits(Held(d)')
                      /\ cycles'[d].used = Credits(Charged(d)')
                      /\ cycles'[d].granted = cycles[d].granted
                      /\ cycles'[d].open = cycles[d].open
  BY <1>1, <1>4, <1>5, <1>6 DEF LedgerInv, LedgerSums, TypeOK, Cycle
<1>8. OnOpenCycle'
  BY <1>1, <1>7 DEF LedgerInv, OnOpenCycle, Opened, TypeOK, Reservation
<1> QED
  BY <1>7, <1>8 DEF LedgerInv, LedgerSums, KnownGrants, Opened, Credits, Units

\* A commit that is not part of a race changes no status and no credits, or
\* settles a reservation that is still what it read.
SettlesWhatItRead(k, snap) ==
  /\ snap.cycle \in Refs
  /\ rsv[k].status = "PENDING" /\ rsv[k].cycle = snap.cycle
  /\ \/ Consume(k, snap)
     \/ \E st \in {"RELEASED", "EXPIRED"} : ReleasePending(k, snap, st)

SettlesNothing ==
  /\ cycles' = cycles
  /\ \A k \in Keys : rsv'[k].status = rsv[k].status /\ rsv'[k].cycle = rsv[k].cycle

LEMMA CommitWithoutRace ==
  ASSUME TypeOK, Backed, NEW s \in Settlers, Commit(s), ~ raced'
  PROVE  \/ SettlesNothing
         \/ \E k \in Keys, snap \in Reservation : SettlesWhatItRead(k, snap)
<1> PICK k \in Keys, snap \in Reservation :
      /\ txn[s].key = k /\ txn[s].snap = snap
      /\ snap.status = "PENDING" => snap.cycle \in Refs
  BY DEF Commit, TypeOK, Txn, Backed
<1>1. Settle(txn[s].op, k, snap) /\ (~ Overtaken(k, snap) \/ cycles' = cycles)
  BY DEF Commit
<1>2. CASE UNCHANGED <<cycles, rsv>>
  BY <1>2 DEF SettlesNothing
<1>3. ASSUME NEW m \in Minimums, Extend(k, snap, m) PROVE SettlesNothing
  BY <1>3 DEF SettlesNothing, Extend, TypeOK, Reservation
<1>4. ASSUME snap.status = "PENDING",
             Consume(k, snap) \/ \E st \in {"RELEASED", "EXPIRED"} :
                                   ReleasePending(k, snap, st)
      PROVE  SettlesWhatItRead(k, snap)
  <2>1. cycles[snap.cycle] \in Cycle /\ snap.cycle \in Refs /\ Cost[k] \in Nat \ {0}
    BY <1>4, CostAssumption DEF TypeOK
  <2>2. cycles'[snap.cycle].reserved = cycles[snap.cycle].reserved - Cost[k]
    BY <1>4, <2>1 DEF Consume, ReleasePending, TypeOK, Cycle
  <2>3. cycles[snap.cycle].reserved \in Int
    BY <2>1 DEF Cycle
  <2>4. cycles' # cycles
    BY <2>1, <2>2, <2>3
  <2> QED
    BY <1>1, <1>4, <2>1, <2>4 DEF Overtaken, SettlesWhatItRead
<1> QED BY <1>1, <1>2, <1>3, <1>4 DEF Settle

LEMMA CommitKeepsLedger ==
  ASSUME TypeOK, Backed, LedgerInv, NEW s \in Settlers, Commit(s), ~ raced'
  PROVE  LedgerInv'
<1>1. CASE SettlesNothing
  <2>1. \A c \in Refs : Held(c)' = Held(c) /\ Charged(c)' = Charged(c)
    BY <1>1 DEF SettlesNothing, Held, Charged
  <2>2. LedgerSums'
    BY <1>1, <2>1 DEF SettlesNothing, LedgerInv, LedgerSums, Credits, Units
  <2> QED
    BY <1>1, <2>2 DEF SettlesNothing, LedgerInv, KnownGrants, OnOpenCycle, Opened
<1>2. ASSUME NEW k \in Keys, NEW snap \in Reservation, SettlesWhatItRead(k, snap)
      PROVE  LedgerInv'
  BY <1>2, ReleaseKeepsSums, ConsumeKeepsSums DEF SettlesWhatItRead
<1> QED BY <1>1, <1>2, CommitWithoutRace

\* What is proved inductive: the ledger, until a race.
LedgerUntilRace == ~ raced => LedgerInv

LEMMA RacedStays == [Next]_vars => (raced => raced')
  BY DEF Next, Tick, GetOrCreateActiveCycle, BuyPlan, Reserve, ReadToSettle,
         ReadToExpire, Commit, Rollback, vars

LEMMA LedgerStep ==
  TypeOK /\ Backed /\ LedgerUntilRace /\ [Next]_vars => LedgerUntilRace'
<1> SUFFICES ASSUME TypeOK, Backed, LedgerInv, [Next]_vars, ~ raced'
             PROVE  LedgerInv'
  BY RacedStays DEF LedgerUntilRace
<1>1. ASSUME UNCHANGED rsv, NEW cyc \in [Refs -> Cycle], cycles' = cyc,
             \A d \in Refs :
               /\ cyc[d].granted \in {0, FreeGrant, PlanGrant}
               /\ ~ cyc[d].open => cyc[d].granted = 0
               /\ Opened(d) => cyc[d].open
               /\ cyc[d].reserved = Credits(Held(d))
               /\ cyc[d].used = Credits(Charged(d))
      PROVE  LedgerInv'
  <2>1. LedgerSums'
    BY <1>1, SumsUnchanged DEF LedgerSums, Credits, Units
  <2> QED
    BY <1>1, <2>1 DEF LedgerInv, OnOpenCycle, KnownGrants, Opened
<1>2. CASE GetOrCreateActiveCycle
  BY <1>1, <1>2, CurrentKeepsLedger, CurrentType DEF GetOrCreateActiveCycle
<1>3. ASSUME NEW o \in Orders, BuyPlan(o)
      PROVE  LedgerInv'
  <2>1. OrderRef(o) \in Refs /\ clock + PlanLength \in Nat
    BY TimeAssumption DEF Refs, TypeOK
  <2>2. cycles' \in [Refs -> Cycle]
    BY <1>3, <2>1, GrantAssumption DEF BuyPlan, TypeOK, NewCycle, Cycle
  <2>3. /\ cycles' = [cycles EXCEPT ![OrderRef(o)] =
                        NewCycle(PlanGrant, clock + PlanLength)]
        /\ ~ Opened(OrderRef(o)) /\ UNCHANGED rsv
    BY <1>3 DEF BuyPlan
  <2>4. \A d \in Refs :
          /\ cycles'[d].granted \in {0, FreeGrant, PlanGrant}
          /\ ~ cycles'[d].open => cycles'[d].granted = 0
          /\ Opened(d) => cycles'[d].open
          /\ cycles'[d].reserved = Credits(Held(d))
          /\ cycles'[d].used = Credits(Charged(d))
    BY <2>1, <2>3, OpeningKeepsLedger
  <2> QED BY <1>1, <2>2, <2>3, <2>4
<1>4. ASSUME NEW k \in Keys, Reserve(k)
      PROVE  LedgerInv'
  BY <1>4, ReserveKeepsLedger
<1>5. ASSUME NEW s \in Settlers, Commit(s)
      PROVE  LedgerInv'
  BY <1>5, CommitKeepsLedger
<1>6. CASE UNCHANGED <<cycles, rsv>>
  <2>1. LedgerSums'
    BY <1>6, SumsUnchanged DEF LedgerInv, LedgerSums, Credits, Units
  <2> QED
    BY <1>6, <2>1 DEF LedgerInv, OnOpenCycle, KnownGrants, Opened
<1> QED
  BY <1>2, <1>3, <1>4, <1>5, <1>6
     DEF Next, Tick, ReadToSettle, ReadToExpire, Rollback, vars

LEMMA LedgerAlways == Spec => []LedgerUntilRace
<1>1. Init => LedgerUntilRace
  BY LedgerInit DEF LedgerUntilRace
<1> QED BY <1>1, LedgerStep, TypeCorrect, PTL DEF Spec

(* Until a settlement acts on a read that another one has overtaken, the     *)
(* counters of every cycle are the sums of its reservations: whatever drift  *)
(* reconcileBalances reports, beyond what is overdue, was caused by a race.  *)
THEOREM LedgerExactAlways == Spec => []LedgerExact
<1>1. LedgerUntilRace => LedgerExact
  BY DEF LedgerUntilRace, LedgerInv, LedgerSums, LedgerExact
<1> QED BY <1>1, LedgerAlways, PTL

LEMMA InUseSum ==
  ASSUME TypeOK, LedgerInv, NEW c \in Refs
  PROVE  Credits(Held(c) \cup Charged(c)) = cycles[c].reserved + cycles[c].used
<1>1. /\ Held(c) \in SUBSET Keys /\ Charged(c) \in SUBSET Keys
      /\ Held(c) \cap Charged(c) = {}
  BY DEF Held, Charged
<1> QED BY <1>1, CreditsOfUnion DEF LedgerInv, LedgerSums

(* Until then, what a user holds and was charged on a cycle never costs more *)
(* than the cycle granted.                                                   *)
THEOREM NoOverspendAlways == Spec => []NoOverspend
<1>1. TypeOK /\ LedgerUntilRace /\ WithinGrant => NoOverspend
  <2> SUFFICES ASSUME TypeOK, LedgerInv, WithinGrant, NEW c \in Refs
               PROVE  Credits(Held(c) \cup Charged(c)) <= cycles[c].granted
    BY DEF NoOverspend, LedgerUntilRace
  <2>1. cycles[c] \in Cycle
    BY DEF TypeOK
  <2>2. cycles[c].used + cycles[c].reserved <= cycles[c].granted
    BY DEF WithinGrant
  <2>3. Credits(Held(c) \cup Charged(c)) = cycles[c].reserved + cycles[c].used
    BY InUseSum
  <2> QED BY <2>1, <2>2, <2>3 DEF Cycle
<1> QED BY <1>1, LedgerAlways, TypeCorrect, NeverOverpromised, PTL

-----------------------------------------------------------------------------
(* Consume and release are idempotent until then.                            *)

LEMMA SettledOnceStep ==
  ASSUME TypeOK, Backed, LedgerInv, [Next]_vars, ~ raced'
  PROVE  OneCharge /\ OneRelease
<1>1. ASSUME \A c \in Refs : /\ cycles'[c].used = cycles[c].used
                             /\ cycles'[c].reserved \in Int
                             /\ cycles'[c].reserved >= cycles[c].reserved
      PROVE  OneCharge /\ OneRelease
  <2>1. \A c \in Refs : cycles[c].used \in Int /\ cycles[c].reserved \in Int
    BY DEF TypeOK, Cycle
  <2>2. \A c \in Refs : /\ ~ (cycles'[c].used > cycles[c].used)
                        /\ ~ (cycles'[c].reserved < cycles[c].reserved)
    BY <1>1, <2>1
  <2> QED BY <2>2 DEF OneCharge, OneRelease
<1>2. \A c \in Refs : /\ CyclesWithCurrent[c].used = cycles[c].used
                      /\ CyclesWithCurrent[c].reserved = cycles[c].reserved
  BY CurrentKeepsLedger DEF LedgerInv, LedgerSums
<1>3. CASE GetOrCreateActiveCycle
  BY <1>1, <1>2, <1>3 DEF GetOrCreateActiveCycle, TypeOK, Cycle
<1>4. ASSUME NEW o \in Orders, BuyPlan(o)
      PROVE  OneCharge /\ OneRelease
  <2>1. OrderRef(o) \in Refs /\ clock + PlanLength \in Nat
    BY TimeAssumption DEF Refs, TypeOK
  <2>2. /\ cycles' = [cycles EXCEPT ![OrderRef(o)] =
                        NewCycle(PlanGrant, clock + PlanLength)]
        /\ ~ Opened(OrderRef(o))
    BY <1>4 DEF BuyPlan
  <2>3. \A c \in Refs : /\ cycles'[c].used = cycles[c].used
                        /\ cycles'[c].reserved = cycles[c].reserved
    BY <2>1, <2>2, OpeningKeepsLedger DEF LedgerInv, LedgerSums
  <2> QED BY <1>1, <2>3 DEF TypeOK, Cycle
<1>5. ASSUME NEW k \in Keys, Reserve(k)
      PROVE  OneCharge /\ OneRelease
  BY <1>1, <1>2, <1>5, CurrentType, CostType DEF Reserve, TypeOK, Cycle
<1>6. ASSUME NEW s \in Settlers, Commit(s)
      PROVE  OneCharge /\ OneRelease
  <2>1. CASE SettlesNothing
    BY <1>1, <2>1 DEF SettlesNothing, TypeOK, Cycle
  <2>2. ASSUME NEW k \in Keys, NEW snap \in Reservation, SettlesWhatItRead(k, snap),
               NEW st \in {"RELEASED", "EXPIRED"}, ReleasePending(k, snap, st)
        PROVE  OneCharge /\ OneRelease
    <3>1. rsv'[k].status = st /\ st # "PENDING" /\ rsv[k].status = "PENDING"
      BY <2>2 DEF SettlesWhatItRead, ReleasePending, TypeOK, Reservation
    <3>2. \A c \in Refs : cycles'[c].used = cycles[c].used
      BY <2>2 DEF ReleasePending, TypeOK, Cycle
    <3> QED BY <3>1, <3>2 DEF OneCharge, OneRelease, TypeOK, Cycle
  <2>3. ASSUME NEW k \in Keys, NEW snap \in Reservation, SettlesWhatItRead(k, snap),
               Consume(k, snap)
        PROVE  OneCharge /\ OneRelease
    <3>1. rsv'[k].status = "CONSUMED" /\ rsv[k].status = "PENDING"
      BY <2>3 DEF SettlesWhatItRead, Consume, TypeOK, Reservation
    <3> QED BY <3>1 DEF OneCharge, OneRelease
  <2> QED BY <1>6, <2>1, <2>2, <2>3, CommitWithoutRace DEF SettlesWhatItRead
<1>7. CASE UNCHANGED cycles
  BY <1>1, <1>7 DEF TypeOK, Cycle
<1> QED
  BY <1>3, <1>4, <1>5, <1>6, <1>7
     DEF Next, Tick, ReadToSettle, ReadToExpire, Rollback, vars

LEMMA SettledOnceAlways ==
  Spec => [][~ raced' => OneCharge]_vars /\ [][~ raced' => OneRelease]_vars
<1>1. /\ TypeOK /\ Backed /\ LedgerUntilRace /\ [Next]_vars => [~ raced' => OneCharge]_vars
      /\ TypeOK /\ Backed /\ LedgerUntilRace /\ [Next]_vars => [~ raced' => OneRelease]_vars
  BY SettledOnceStep, RacedStays DEF LedgerUntilRace
<1> QED BY <1>1, LedgerAlways, TypeCorrect, PTL DEF Spec

(* consume charges a reservation once, as its comment promises, until a      *)
(* settlement acts on an overtaken read.                                     *)
THEOREM ChargedOnceAlways == Spec => ChargedOnce
  BY SettledOnceAlways, PTL DEF ChargedOnce

(* release gives credits back once, as its comment promises, until then.     *)
THEOREM ReleasedOnceAlways == Spec => ReleasedOnce
  BY SettledOnceAlways, PTL DEF ReleasedOnce

-----------------------------------------------------------------------------
(* When no two settlers share a key there is no race.                        *)

\* Two settlement transactions never have the same key in hand.  Nothing in the
\* code ensures it.
Isolated == \A s, t \in Settlers : s # t => Scope[s] \cap Scope[t] = {}

\* What a transaction in flight read is still what the table says.
SnapshotsFresh ==
  \A s \in Settlers : txn[s] # Idle =>
    /\ txn[s].key \in Scope[s]
    /\ txn[s].snap.status = "PENDING" =>
         /\ rsv[txn[s].key].status = "PENDING"
         /\ rsv[txn[s].key].cycle = txn[s].snap.cycle

\* A transaction in flight holds the only snapshot of its key.
LEMMA OnlySnapshot ==
  ASSUME Isolated, TypeOK, SnapshotsFresh,
         NEW s \in Settlers, NEW t \in Settlers, s # t,
         txn[s] # Idle, txn[t] # Idle
  PROVE  txn[s].key # txn[t].key
  BY DEF Isolated, SnapshotsFresh

LEMMA FreshStep ==
  ASSUME Isolated, TypeOK, SnapshotsFresh, ~ raced, [Next]_vars
  PROVE  SnapshotsFresh' /\ ~ raced'
<1>1. ASSUME NEW k \in Keys, Reserve(k)
      PROVE  SnapshotsFresh' /\ ~ raced'
  BY <1>1 DEF Reserve, SnapshotsFresh, TypeOK, Txn
<1>2. ASSUME NEW s \in Settlers, Commit(s)
      PROVE  SnapshotsFresh' /\ ~ raced'
  <2> PICK k \in Keys, snap \in Reservation : txn[s].key = k /\ txn[s].snap = snap
    BY <1>2 DEF Commit, TypeOK, Txn
  <2>1. /\ Settle(txn[s].op, k, snap) /\ txn' = [txn EXCEPT ![s] = Idle]
        /\ txn[s] # Idle /\ ~ Overtaken(k, snap)
    BY <1>2 DEF Commit, SnapshotsFresh, Overtaken
  <2>2. ~ raced'
    BY <1>2, <2>1 DEF Commit
  <2>3. \A j \in Keys : j # k => rsv'[j] = rsv[j]
    BY <2>1 DEF Settle, ReleasePending, Consume, Extend, TypeOK
  <2>4. ASSUME NEW t \in Settlers, txn'[t] # Idle
        PROVE  /\ txn[t].key \in Scope[t]
               /\ txn[t].snap.status = "PENDING" =>
                    /\ rsv'[txn[t].key].status = "PENDING"
                    /\ rsv'[txn[t].key].cycle = txn[t].snap.cycle
               /\ txn'[t] = txn[t]
    <3>1. t # s /\ txn'[t] = txn[t] /\ txn[t] # Idle
      BY <2>1, <2>4 DEF TypeOK
    <3>2. txn[t].key \in Keys /\ txn[t].key # k
      BY <2>1, <3>1, OnlySnapshot DEF TypeOK, Txn
    <3> QED BY <2>3, <3>1, <3>2 DEF SnapshotsFresh
  <2> QED BY <2>2, <2>4 DEF SnapshotsFresh
<1>3. ASSUME NEW s \in Settlers, NEW k \in Scope[s], NEW op, txn[s] = Idle,
             txn' = [txn EXCEPT ![s] = [op |-> op, key |-> k, snap |-> rsv[k]]],
             UNCHANGED <<rsv, raced>>
      PROVE  SnapshotsFresh' /\ ~ raced'
  BY <1>3 DEF SnapshotsFresh, TypeOK
<1>4. ASSUME NEW s \in Settlers, Rollback(s)
      PROVE  SnapshotsFresh' /\ ~ raced'
  BY <1>4 DEF Rollback, SnapshotsFresh, TypeOK
<1>5. CASE UNCHANGED <<rsv, txn, raced>>
  BY <1>5 DEF SnapshotsFresh
<1> QED
  BY <1>1, <1>2, <1>3, <1>4, <1>5, SettlersAssumption
     DEF Next, Tick, GetOrCreateActiveCycle, BuyPlan, ReadToSettle, ReadToExpire, vars

(* Two settlers after one key are the only cause of a race: where no two     *)
(* share one, the ledger is exact for good.                                  *)
THEOREM IsolatedNeverRaces == Isolated => (Spec => [](~ raced /\ LedgerExact))
<1> SUFFICES ASSUME Isolated PROVE Spec => [](~ raced /\ LedgerExact)
  OBVIOUS
<1>1. Init => SnapshotsFresh /\ ~ raced
  BY DEF Init, SnapshotsFresh
<1>2. TypeOK /\ SnapshotsFresh /\ ~ raced /\ [Next]_vars => SnapshotsFresh' /\ ~ raced'
  BY FreshStep
<1> QED BY <1>1, <1>2, TypeCorrect, LedgerExactAlways, PTL DEF Spec

-----------------------------------------------------------------------------
(* Refinement: AiCredits implements CreditLedger.                            *)

stateBar == [k \in Keys |-> LedgerState(rsv[k])]
onBar == [k \in Keys |-> rsv[k].cycle]
grantBar == [c \in Refs |-> cycles[c].granted]

LEMMA SameCredits == \A K : Ledger!Credits(K) = Credits(K)
  BY DEF Ledger!Credits, Ledger!Units, Credits, Units,
         Ledger!Cardinality, Cardinality, Ledger!IsFiniteSet, IsFiniteSet

LEMMA SameInUse ==
  ASSUME TypeOK, NEW c
  PROVE  Ledger!InUse(c) = Held(c) \cup Charged(c)
  BY DEF Ledger!InUse, LedgerState, Held, Charged, TypeOK, Reservation, Statuses

LEMMA LedgerRefinesInit == Init => Ledger!Init
  BY DEF Init, Ledger!Init, LedgerState, NoCycle

\* A step that leaves statuses, cycles of reservations and grants as they were.
LEMMA LedgerStutters ==
  ASSUME \A k \in Keys : /\ rsv'[k].status = rsv[k].status
                         /\ rsv'[k].cycle = rsv[k].cycle,
         \A c \in Refs : cycles'[c].granted = cycles[c].granted
  PROVE  UNCHANGED Ledger!ledgerVars
<1>1. stateBar' = stateBar /\ onBar' = onBar /\ grantBar' = grantBar
  BY DEF stateBar, onBar, grantBar, LedgerState
<1> QED BY <1>1 DEF Ledger!ledgerVars, stateBar, onBar, grantBar

LEMMA LedgerOpens ==
  ASSUME UNCHANGED rsv, NEW c \in Refs, cycles[c].granted = 0,
         NEW g \in {FreeGrant, PlanGrant}, cycles'[c].granted = g,
         \A d \in Refs \ {c} : cycles'[d].granted = cycles[d].granted
  PROVE  Ledger!Next
<1>1. stateBar' = stateBar /\ onBar' = onBar
  BY DEF stateBar, onBar
<1>2. grantBar[c] = 0 /\ grantBar' = [grantBar EXCEPT ![c] = g]
  BY DEF grantBar
<1>3. Ledger!Open(c, g)
  BY <1>1, <1>2 DEF Ledger!Open, stateBar, onBar, grantBar
<1> QED BY <1>3 DEF Ledger!Next

LEMMA LedgerHolds ==
  ASSUME TypeOK, Backed, LedgerInv, WithinGrant, NEW k \in Keys, Reserve(k)
  PROVE  Ledger!Next
<1> PICK c \in Refs : c = Current
  BY CurrentType
<1> PICK g \in {0, FreeGrant, PlanGrant} : g = CyclesWithCurrent[c].granted
  BY CurrentKeepsLedger
<1>1. /\ rsv' = [rsv EXCEPT ![k] = [status |-> "PENDING", cycle |-> c,
                                    expiresAt |-> clock + Ttl]]
      /\ cycles' = [CyclesWithCurrent EXCEPT ![c].reserved = @ + Cost[k]]
      /\ rsv[k].status \notin {"PENDING", "CONSUMED"}
      /\ CyclesWithCurrent[c].reserved
           <= CyclesWithCurrent[c].granted - CyclesWithCurrent[c].used - Cost[k]
  BY DEF Reserve
<1>2. CyclesWithCurrent \in [Refs -> Cycle] /\ Cost[k] \in Nat \ {0}
  BY CurrentType, CostAssumption
<1>3. Credits(Held(c) \cup Charged(c)) + Cost[k] <= g
  <2>1. Credits(Held(c) \cup Charged(c)) =
          CyclesWithCurrent[c].reserved + CyclesWithCurrent[c].used
    BY InUseSum, CurrentKeepsLedger DEF LedgerInv, LedgerSums
  <2> QED BY <1>1, <1>2, <2>1 DEF Cycle
<1>4. \A d \in Refs : /\ d # c => CyclesWithCurrent[d] = cycles[d]
                      /\ cycles[d].granted \in {0, CyclesWithCurrent[d].granted}
  BY DEF CyclesWithCurrent, Opened, LedgerInv, KnownGrants, TypeOK, Cycle
<1>5. /\ grantBar[c] \in {0, g} /\ grantBar' = [grantBar EXCEPT ![c] = g]
  BY <1>1, <1>2, <1>4 DEF grantBar, Cycle
<1>6. /\ stateBar[k] = "free" /\ stateBar' = [stateBar EXCEPT ![k] = "held"]
      /\ onBar' = [onBar EXCEPT ![k] = c]
  BY <1>1 DEF stateBar, onBar, LedgerState, TypeOK, Reservation, Statuses
<1>7. Ledger!Hold(k, c, g)
  BY <1>3, <1>5, <1>6, SameCredits, SameInUse
     DEF Ledger!Hold, stateBar, onBar, grantBar
<1>8. g > 0
  <2>1. Credits(Held(c) \cup Charged(c)) \in Nat
    BY UnitsFinite DEF Held, Charged
  <2> QED BY <1>2, <1>3, <2>1, GrantAssumption
<1> QED BY <1>7, <1>8 DEF Ledger!Next

LEMMA LedgerSettles ==
  ASSUME TypeOK, Backed, NEW s \in Settlers, Commit(s), ~ raced'
  PROVE  [Ledger!Next]_(Ledger!ledgerVars)
<1>1. CASE SettlesNothing
  BY <1>1, LedgerStutters DEF SettlesNothing
<1>2. ASSUME NEW k \in Keys, NEW snap \in Reservation, SettlesWhatItRead(k, snap),
             NEW st \in {"RELEASED", "EXPIRED"}, ReleasePending(k, snap, st)
      PROVE  Ledger!Next
  <2>1. grantBar' = grantBar
    BY <1>2 DEF grantBar, ReleasePending, TypeOK, Cycle
  <2>2. /\ stateBar[k] = "held" /\ stateBar' = [stateBar EXCEPT ![k] = "free"]
        /\ onBar' = onBar
    BY <1>2 DEF stateBar, onBar, LedgerState, SettlesWhatItRead, ReleasePending,
                TypeOK, Reservation
  <2>3. Ledger!GiveBack(k)
    BY <2>1, <2>2 DEF Ledger!GiveBack, stateBar, onBar, grantBar
  <2> QED BY <2>3 DEF Ledger!Next
<1>3. ASSUME NEW k \in Keys, NEW snap \in Reservation, SettlesWhatItRead(k, snap),
             Consume(k, snap)
      PROVE  Ledger!Next
  <2>1. grantBar' = grantBar
    BY <1>3 DEF grantBar, Consume, TypeOK, Cycle
  <2>2. /\ stateBar[k] = "held" /\ stateBar' = [stateBar EXCEPT ![k] = "charged"]
        /\ onBar' = onBar
    BY <1>3 DEF stateBar, onBar, LedgerState, SettlesWhatItRead, Consume,
                TypeOK, Reservation
  <2>3. Ledger!Charge(k)
    BY <2>1, <2>2 DEF Ledger!Charge, stateBar, onBar, grantBar
  <2> QED BY <2>3 DEF Ledger!Next
<1> QED BY <1>1, <1>2, <1>3, CommitWithoutRace DEF SettlesWhatItRead

LEMMA LedgerRefinesStep ==
  TypeOK /\ Backed /\ LedgerUntilRace /\ WithinGrant /\ [Next]_vars
    => [raced' \/ Ledger!Next]_(Ledger!ledgerVars)
<1> SUFFICES ASSUME TypeOK, Backed, LedgerInv, WithinGrant, [Next]_vars, ~ raced'
             PROVE  [Ledger!Next]_(Ledger!ledgerVars)
  BY RacedStays DEF LedgerUntilRace
<1>1. CASE UNCHANGED <<cycles, rsv>>
  BY <1>1, LedgerStutters
<1>2. CASE GetOrCreateActiveCycle
  <2>1. CASE Opened(Current)
    BY <1>2, <2>1, LedgerStutters DEF GetOrCreateActiveCycle, CyclesWithCurrent
  <2>2. CASE ~ Opened(Current)
    <3> PICK c \in Refs : c = Current
      BY CurrentType
    <3> PICK g \in {FreeGrant, PlanGrant}, e \in Nat :
          cycles' = [cycles EXCEPT ![c] = NewCycle(g, e)]
      BY <1>2, <2>2, CurrentType DEF GetOrCreateActiveCycle, CyclesWithCurrent, TypeOK
    <3> QED
      BY <1>2, <2>2, LedgerOpens
         DEF GetOrCreateActiveCycle, LedgerInv, KnownGrants, NewCycle, TypeOK, Cycle
  <2> QED BY <2>1, <2>2
<1>3. ASSUME NEW o \in Orders, BuyPlan(o)
      PROVE  Ledger!Next
  <2>1. OrderRef(o) \in Refs
    BY DEF Refs
  <2> QED
    BY <1>3, <2>1, LedgerOpens
       DEF BuyPlan, LedgerInv, KnownGrants, NewCycle, TypeOK, Cycle
<1>4. ASSUME NEW k \in Keys, Reserve(k)
      PROVE  Ledger!Next
  BY <1>4, LedgerHolds
<1>5. ASSUME NEW s \in Settlers, Commit(s)
      PROVE  [Ledger!Next]_(Ledger!ledgerVars)
  BY <1>5, LedgerSettles
<1> QED
  BY <1>1, <1>2, <1>3, <1>4, <1>5
     DEF Next, Tick, ReadToSettle, ReadToExpire, Rollback, vars

(* Until a settlement acts on an overtaken read, the service implements the  *)
(* ledger: a charge is final, a hold is given back or charged once, and what *)
(* is in use on a cycle fits its grant.                                      *)
THEOREM LedgerImplemented == Spec => ImplementsLedger
  BY LedgerAlways, LedgerRefinesInit, LedgerRefinesStep, TypeCorrect, NeverOverpromised,
     PTL DEF Spec, ImplementsLedger

-----------------------------------------------------------------------------
(* Which cycle is the current one.                                           *)

\* The step opens or keeps the current cycle, and does nothing else to cycles.
MeetsCurrent ==
  /\ UNCHANGED <<clock, sub>> /\ active' = ActiveWithCurrent
  /\ \A c \in Refs : /\ cycles'[c].endsAt = CyclesWithCurrent[c].endsAt
                     /\ Opened(c)' <=> CyclesWithCurrent[c].open

KeepsCycles ==
  /\ UNCHANGED <<sub, active>>
  /\ \A c \in Refs : cycles'[c].endsAt = cycles[c].endsAt /\ (Opened(c)' <=> Opened(c))

\* A reservation and a settlement change counters alone.
LEMMA OpenFrame ==
  ASSUME TypeOK, NEW k \in Keys, Reserve(k)
  PROVE  /\ UNCHANGED <<clock, sub>> /\ active' = ActiveWithCurrent
         /\ \A c \in Refs : /\ cycles'[c].endsAt = CyclesWithCurrent[c].endsAt
                            /\ Opened(c)' <=> CyclesWithCurrent[c].open
<1>1. CyclesWithCurrent \in [Refs -> Cycle] /\ Current \in Refs
  BY CurrentType
<1>2. cycles' = [CyclesWithCurrent EXCEPT ![Current].reserved = @ + Cost[k]]
  BY DEF Reserve
<1> QED
  BY <1>1, <1>2 DEF Reserve, Opened, Cycle

LEMMA CommitFrame ==
  ASSUME TypeOK, Backed, NEW s \in Settlers, Commit(s)
  PROVE  /\ UNCHANGED <<clock, sub, active>>
         /\ \A c \in Refs : /\ cycles'[c].endsAt = cycles[c].endsAt
                            /\ Opened(c)' <=> Opened(c)
<1> DEFINE k == txn[s].key
           snap == txn[s].snap
<1>1. Settle(txn[s].op, k, snap) /\ (snap.status = "PENDING" => snap.cycle \in Refs)
  BY DEF Commit, Backed
<1>2. \A c \in Refs : cycles[c] \in Cycle
  BY DEF TypeOK
<1> HIDE DEF k, snap
<1>3. \A c \in Refs : /\ cycles'[c].endsAt = cycles[c].endsAt
                      /\ cycles'[c].open = cycles[c].open
  BY <1>1, <1>2 DEF Settle, ReleasePending, Consume, Extend, TypeOK, Cycle
<1> QED
  BY <1>3 DEF Commit, Opened

\* Every step is of one of three kinds.
LEMMA StepKinds ==
  ASSUME TypeOK, Backed, [Next]_vars
  PROVE  \/ MeetsCurrent
         \/ \E o \in Orders : BuyPlan(o)
         \/ KeepsCycles /\ (UNCHANGED clock \/ Tick)
<1>1. CASE GetOrCreateActiveCycle
  BY <1>1 DEF GetOrCreateActiveCycle, MeetsCurrent, Opened
<1>2. ASSUME NEW k \in Keys, Reserve(k) PROVE MeetsCurrent
  BY <1>2, OpenFrame DEF MeetsCurrent
<1>3. ASSUME NEW s \in Settlers, Commit(s) PROVE KeepsCycles /\ UNCHANGED clock
  BY <1>3, CommitFrame DEF KeepsCycles
<1>4. ASSUME UNCHANGED <<cycles, active, sub>> PROVE KeepsCycles
  BY <1>4 DEF KeepsCycles, Opened
<1> QED
  BY <1>1, <1>2, <1>3, <1>4
     DEF Next, Tick, ReadToSettle, ReadToExpire, Rollback, vars

\* What the current cycle is, and what becomes of it.
LEMMA CurrentCases ==
  ASSUME TypeOK
  PROVE  \/ /\ active # NoRef /\ cycles[active].endsAt > clock
            /\ Current = active /\ ActiveWithCurrent = active
         \/ /\ active = NoRef \/ cycles[active].endsAt <= clock
            /\ \/ Subscribed /\ Current = LegacyRef(sub.startedAt)
               \/ ~ Subscribed /\ Current = Today
            /\ Opened(Current) => ActiveWithCurrent = NoRef
            /\ ~ Opened(Current) => ActiveWithCurrent = Current
<1>1. active # NoRef => cycles[active].endsAt \in Nat
  BY DEF TypeOK, Cycle
<1>2. clock \in Nat
  BY DEF TypeOK
<1>3. Current # NoRef
  BY CurrentType, NoRefAssumption
<1> QED
  BY <1>1, <1>2, <1>3 DEF Unexpired, Current, ActiveWithCurrent

LEMMA OpensCurrent ==
  ASSUME TypeOK
  PROVE  /\ \A c \in Refs \ {Current} : CyclesWithCurrent[c] = cycles[c]
         /\ Opened(Current) => CyclesWithCurrent = cycles
         /\ ~ Opened(Current) =>
              /\ CyclesWithCurrent[Current].open
              /\ CyclesWithCurrent[Current].endsAt =
                   IF Subscribed THEN sub.expiresAt ELSE EndOfToday
<1>1. Current \in Refs
  BY CurrentType
<1> QED
  BY <1>1 DEF CyclesWithCurrent, NewCycle, TypeOK

\* The activeKey is on an opened cycle, and a paid one ends with the subscription.
PaidWithSub ==
  active # NoRef =>
    /\ Opened(active)
    /\ ~ IsFree(active) => cycles[active].endsAt <= sub.expiresAt

LEMMA PaidInit == Init => PaidWithSub
  BY DEF Init, PaidWithSub

LEMMA PaidStep == TypeOK /\ Backed /\ PaidWithSub /\ [Next]_vars => PaidWithSub'
<1> SUFFICES ASSUME TypeOK, Backed, PaidWithSub, [Next]_vars PROVE PaidWithSub'
  OBVIOUS
<1>1. CASE MeetsCurrent
  <2>1. CASE active' = NoRef
    BY <2>1 DEF PaidWithSub
  <2>2. CASE active' # NoRef /\ active' = active /\ active # NoRef
    <3>1. active \in Refs
      BY <2>2 DEF TypeOK
    <3>2. CyclesWithCurrent[active] = cycles[active]
      BY <2>2, <3>1, OpensCurrent DEF PaidWithSub
    <3> QED
      BY <1>1, <2>2, <3>1, <3>2 DEF MeetsCurrent, PaidWithSub, Opened
  <2>3. CASE active' # NoRef /\ ~ Opened(Current) /\ active' = Current
    <3>1. Current \in Refs
      BY CurrentType
    <3>2. Opened(active)'
      BY <1>1, <2>3, <3>1, OpensCurrent DEF MeetsCurrent, Opened
    <3>3. ASSUME ~ IsFree(Current) PROVE cycles'[Current].endsAt <= sub.expiresAt
      <4>1. Subscribed
        BY <3>3, <2>3, CurrentCases DEF IsFree, Today, FreeRef, PaidWithSub
      <4>2. cycles'[Current].endsAt = sub.expiresAt
        BY <1>1, <2>3, <3>1, <4>1, OpensCurrent DEF MeetsCurrent
      <4> QED
        BY <4>2 DEF TypeOK
    <3> QED
      BY <1>1, <2>3, <3>2, <3>3 DEF MeetsCurrent, PaidWithSub
  <2> QED
    BY <1>1, <2>1, <2>2, <2>3, CurrentCases DEF MeetsCurrent
<1>2. ASSUME NEW o \in Orders, BuyPlan(o) PROVE PaidWithSub'
  <2>1. OrderRef(o) \in Refs
    BY DEF Refs
  <2>2. clock + PlanLength \in Nat
    BY TimeAssumption DEF TypeOK
  <2> QED
    BY <1>2, <2>1, <2>2 DEF BuyPlan, PaidWithSub, Opened, NewCycle, TypeOK
<1>3. CASE KeepsCycles
  BY <1>3 DEF KeepsCycles, PaidWithSub, TypeOK
<1> QED
  BY <1>1, <1>2, <1>3, StepKinds

(* However late a cycle is opened, and whatever becomes of it: a purchase     *)
(* accepted because the subscription has ended finds no paid cycle in its     *)
(* way.                                                                       *)
THEOREM PurchaseNeverConflictsAlways == Spec => []PurchaseNeverConflicts
<1>1. TypeOK /\ PaidWithSub => PurchaseNeverConflicts
  <2> SUFFICES ASSUME TypeOK, PaidWithSub, ~ Subscribed, Unexpired # NoRef
               PROVE  IsFree(Unexpired)
    BY DEF PurchaseNeverConflicts
  <2>1. Unexpired = active /\ active \in Refs /\ cycles[active].endsAt > clock
    BY DEF Unexpired, TypeOK
  <2>2. cycles[active].endsAt \in Nat /\ clock \in Nat /\ sub.expiresAt \in Nat
    BY <2>1 DEF TypeOK, Cycle
  <2> QED
    BY <2>1, <2>2 DEF PaidWithSub, Subscribed
<1> QED
  BY TypeInit, TypeStep, PaidInit, PaidStep, <1>1, PTL DEF Spec

\* A plan lasts whole days, and one at least (durationDays, @Min(1)).
WholeDays == PlanLength >= DayLength

\* The cycle that was opened for the running subscription ends with it, and nothing
\* takes its activeKey meanwhile.
SubOnce ==
  Subscribed /\ Opened(LegacyRef(sub.startedAt)) =>
    active # NoRef /\ cycles[active].endsAt >= sub.expiresAt

\* Once the free cycle of the day was opened, some cycle has the activeKey till midnight.
DayOnce ==
  Opened(Today) => active # NoRef /\ cycles[active].endsAt >= EndOfToday

\* No free cycle is opened before its day.
PastDays ==
  \A t \in 0..MaxClock :
    Opened(FreeRef(t \div DayLength)) => t \div DayLength <= clock \div DayLength

CycleInv == SubOnce /\ DayOnce /\ PastDays

LEMMA DayBounds ==
  ASSUME TypeOK
  PROVE  /\ clock \in Nat /\ clock \div DayLength \in Nat
         /\ clock < EndOfToday /\ EndOfToday <= clock + DayLength
         /\ Today \in Refs
<1>1. clock \in Nat /\ DayLength \in Nat \ {0}
  BY TimeAssumption DEF TypeOK
<1>2. ASSUME NEW t \in Nat, NEW d \in Nat \ {0}
      PROVE  t \div d \in Nat /\ (t \div d) * d <= t /\ t < (t \div d) * d + d
  <2>1. t \div d \in Nat
    OBVIOUS
  <2>2. (t \div d) * d <= t
    OBVIOUS
  <2>3. t < (t \div d) * d + d
    OBVIOUS
  <2> QED
    BY <2>1, <2>2, <2>3
<1> DEFINE day == clock \div DayLength
           midnight == day * DayLength
<1>3. day \in Nat /\ midnight <= clock /\ clock < midnight + DayLength
  BY <1>1, <1>2
<1>4. midnight \in Nat
  BY <1>1, <1>3
<1>5. EndOfToday = midnight + DayLength
  BY DEF EndOfToday
<1>6. Today \in Refs
  BY DEF TypeOK, Today, Refs
<1> HIDE DEF day, midnight
<1>7. EndOfToday <= clock + DayLength /\ clock < EndOfToday
  BY <1>1, <1>3, <1>4, <1>5
<1> QED
  BY <1>1, <1>3, <1>6, <1>7 DEF day

LEMMA DayNext ==
  ASSUME NEW t \in Nat, NEW d \in Nat \ {0}
  PROVE  t \div d <= (t + 1) \div d
  OBVIOUS

LEMMA CycleInit == Init => CycleInv
<1> SUFFICES ASSUME Init PROVE CycleInv
  OBVIOUS
<1>1. \A c \in Refs : ~ Opened(c)
  BY DEF Init, Opened, NoCycle
<1>2. /\ Today \in Refs /\ LegacyRef(sub.startedAt) \in Refs
      /\ \A t \in 0..MaxClock : FreeRef(t \div DayLength) \in Refs
  BY TypeInit, DayBounds DEF TypeOK, Refs
<1> QED
  BY <1>1, <1>2 DEF CycleInv, SubOnce, DayOnce, PastDays

\* The current cycle is the active one, or one that was never opened.
LEMMA CurrentIsActiveOrNew ==
  ASSUME TypeOK, CycleInv
  PROVE  \/ /\ active # NoRef /\ cycles[active].endsAt > clock
            /\ Current = active /\ ActiveWithCurrent = active
         \/ /\ active = NoRef \/ cycles[active].endsAt <= clock
            /\ ~ Opened(Current) /\ ActiveWithCurrent = Current
<1>1. /\ clock \in Nat /\ sub.expiresAt \in Nat /\ EndOfToday \in Nat /\ clock < EndOfToday
      /\ active # NoRef => cycles[active].endsAt \in Nat
  BY CurrentType, DayBounds DEF TypeOK, Cycle
<1>2. ASSUME active = NoRef \/ cycles[active].endsAt <= clock,
             Subscribed, Current = LegacyRef(sub.startedAt)
      PROVE  ~ Opened(Current)
  BY <1>1, <1>2 DEF CycleInv, SubOnce, Subscribed
<1>3. ASSUME active = NoRef \/ cycles[active].endsAt <= clock, Current = Today
      PROVE  ~ Opened(Current)
  BY <1>1, <1>3 DEF CycleInv, DayOnce
<1> QED
  BY <1>2, <1>3, CurrentCases

LEMMA CycleUsable == TypeOK /\ PaidWithSub /\ CycleInv => CurrentCycleUsable
<1> SUFFICES ASSUME TypeOK, PaidWithSub, CycleInv PROVE CurrentCycleUsable
  OBVIOUS
<1>1. CASE active # NoRef /\ cycles[active].endsAt > clock /\ Current = active
           /\ ActiveWithCurrent = active
  <2>1. CyclesWithCurrent = cycles
    BY <1>1, OpensCurrent DEF PaidWithSub
  <2> QED
    BY <1>1, <2>1 DEF CurrentCycleUsable
<1>2. CASE ~ Opened(Current) /\ ActiveWithCurrent = Current
  <2>1. CyclesWithCurrent[Current].endsAt = IF Subscribed THEN sub.expiresAt ELSE EndOfToday
    BY <1>2, OpensCurrent
  <2>2. sub.expiresAt \in Nat /\ EndOfToday > clock
    BY DayBounds, CurrentType DEF TypeOK
  <2> QED
    BY <1>2, <2>1, <2>2 DEF CurrentCycleUsable, Subscribed
<1> QED
  BY <1>1, <1>2, CurrentIsActiveOrNew

LEMMA CycleRefs ==
  ASSUME TypeOK
  PROVE  /\ Today \in Refs /\ LegacyRef(sub.startedAt) \in Refs
         /\ \A t \in 0..MaxClock : FreeRef(t \div DayLength) \in Refs
         /\ active # NoRef => active \in Refs
  BY DayBounds DEF TypeOK, Refs

LEMMA CycleKept ==
  ASSUME TypeOK, CycleInv, KeepsCycles, UNCHANGED clock
  PROVE  CycleInv'
<1>1. UNCHANGED <<Today, EndOfToday>> /\ Subscribed' = Subscribed
  BY DEF KeepsCycles, Today, EndOfToday, Subscribed
<1>2. SubOnce'
  BY <1>1, CycleRefs DEF KeepsCycles, CycleInv, SubOnce
<1>3. DayOnce'
  BY <1>1, CycleRefs DEF KeepsCycles, CycleInv, DayOnce
<1>4. PastDays'
  BY CycleRefs DEF KeepsCycles, CycleInv, PastDays
<1> QED
  BY <1>2, <1>3, <1>4 DEF CycleInv

LEMMA CycleTick ==
  ASSUME TypeOK, TypeOK', CycleInv, KeepsCycles, Tick
  PROVE  CycleInv'
<1> DEFINE day == clock \div DayLength
           next == clock' \div DayLength
<1>1. clock \in Nat /\ clock' = clock + 1 /\ day \in Nat /\ next \in Nat /\ day <= next
  <2>1. clock \in Nat /\ clock' = clock + 1 /\ DayLength \in Nat \ {0}
    BY TimeAssumption DEF Tick, TypeOK
  <2>2. day \in Nat /\ next \in Nat
    BY <2>1
  <2>3. day <= next
    BY <2>1, DayNext
  <2> QED
    BY <2>1, <2>2, <2>3
<1>2. SubOnce'
  <2>1. Subscribed' => Subscribed
    BY <1>1 DEF KeepsCycles, Subscribed, TypeOK
  <2> QED
    BY <2>1, CycleRefs DEF KeepsCycles, CycleInv, SubOnce
<1>3. DayOnce'
  <2>1. Today = FreeRef(day) /\ Today' = FreeRef(next)
    BY DEF Today
  <2>2. Today' \in Refs
    BY DayBounds DEF TypeOK, Today, Refs
  <2>3. clock' \in 0..MaxClock
    BY DEF TypeOK
  <2>4. Opened(Today)' => next <= day
    BY <2>1, <2>2, <2>3 DEF KeepsCycles, CycleInv, PastDays
  <2>5. Opened(Today)' => next = day
    BY <1>1, <2>4
  <2>6. next = day => Today' = Today /\ EndOfToday' = EndOfToday
    BY <2>1 DEF EndOfToday
  <2> QED
    BY <2>5, <2>6, <2>2, CycleRefs DEF KeepsCycles, CycleInv, DayOnce
<1>4. PastDays'
  <2>1. \A t \in 0..MaxClock : t \div DayLength \in Nat
    BY TimeAssumption
  <2>2. ASSUME NEW t \in 0..MaxClock, Opened(FreeRef(t \div DayLength))'
        PROVE  t \div DayLength <= next
    <3>1. t \div DayLength <= day
      BY <2>2, CycleRefs DEF KeepsCycles, CycleInv, PastDays
    <3> QED
      BY <1>1, <2>1, <3>1
  <2> QED
    BY <2>2 DEF PastDays
<1> QED
  BY <1>2, <1>3, <1>4 DEF CycleInv

LEMMA CycleOpens ==
  ASSUME TypeOK, PaidWithSub, CycleInv, MeetsCurrent
  PROVE  CycleInv'
<1>1. CASE active # NoRef /\ Current = active /\ ActiveWithCurrent = active
  <2>1. CyclesWithCurrent = cycles
    BY <1>1, OpensCurrent DEF PaidWithSub
  <2>2. KeepsCycles
    BY <1>1, <2>1 DEF MeetsCurrent, KeepsCycles, Opened
  <2> QED
    BY <2>2, CycleKept DEF MeetsCurrent
<1>2. CASE /\ active = NoRef \/ cycles[active].endsAt <= clock
           /\ ~ Opened(Current) /\ ActiveWithCurrent = Current
  <2>0. Current \in Refs /\ Current # NoRef
    BY CurrentType, NoRefAssumption
  <2>1. /\ UNCHANGED <<clock, sub, Today, EndOfToday>> /\ active' = Current
        /\ Subscribed' = Subscribed
    BY <1>2 DEF MeetsCurrent, Today, EndOfToday, Subscribed
  <2>2. \A c \in Refs \ {Current} : Opened(c)' <=> Opened(c)
    BY OpensCurrent DEF MeetsCurrent, Opened
  <2>3. cycles'[Current].endsAt = IF Subscribed THEN sub.expiresAt ELSE EndOfToday
    BY <1>2, <2>0, OpensCurrent DEF MeetsCurrent
  <2>4. \/ Subscribed /\ Current = LegacyRef(sub.startedAt)
        \/ ~ Subscribed /\ Current = Today
    <3>1. active # NoRef => cycles[active].endsAt \in Nat
      BY DEF TypeOK, Cycle
    <3>2. clock \in Nat
      BY DEF TypeOK
    <3> QED
      BY <1>2, <3>1, <3>2, CurrentCases
  <2>5. sub.expiresAt \in Nat /\ EndOfToday \in Nat /\ clock < EndOfToday /\ clock \in Nat
        /\ (active # NoRef => cycles[active].endsAt \in Nat)
    BY CurrentType, DayBounds DEF TypeOK, Cycle
  <2>6. SubOnce'
    BY <2>0, <2>1, <2>3, <2>5 DEF SubOnce
  <2>7. ~ Opened(Today)
    BY <1>2, <2>5 DEF CycleInv, DayOnce
  <2>8. DayOnce'
    <3>1. CASE Subscribed
      <4>1. Today # Current
        BY <2>4, <3>1 DEF Today, FreeRef, LegacyRef
      <4> QED
        BY <4>1, <2>1, <2>2, <2>7, CycleRefs DEF DayOnce
    <3>2. CASE ~ Subscribed
      BY <3>2, <2>0, <2>1, <2>3, <2>5 DEF DayOnce
    <3> QED
      BY <3>1, <3>2
  <2>9. PastDays'
    <3>1. ASSUME NEW t \in 0..MaxClock, Opened(FreeRef(t \div DayLength))'
          PROVE  t \div DayLength <= clock \div DayLength
      <4>1. CASE FreeRef(t \div DayLength) = Current
        <5>1. FreeRef(t \div DayLength) = FreeRef(clock \div DayLength)
          BY <2>4, <4>1 DEF Today, FreeRef, LegacyRef
        <5>2. t \div DayLength = clock \div DayLength /\ clock \div DayLength \in Nat
          BY <5>1, DayBounds DEF FreeRef
        <5> QED
          BY <5>2
      <4>2. CASE FreeRef(t \div DayLength) # Current
        BY <2>2, <3>1, <4>2, CycleRefs DEF CycleInv, PastDays
      <4> QED
        BY <4>1, <4>2
    <3> QED
      BY <2>1, <3>1 DEF PastDays
  <2> QED
    BY <2>6, <2>8, <2>9 DEF CycleInv
<1> QED
  BY <1>1, <1>2, CurrentIsActiveOrNew

LEMMA CycleBought ==
  ASSUME WholeDays, TypeOK, CycleInv, NEW o \in Orders, BuyPlan(o)
  PROVE  CycleInv'
<1>1. OrderRef(o) \in Refs /\ OrderRef(o) # NoRef
  BY NoRefAssumption DEF Refs
<1>2. /\ UNCHANGED <<clock, Today, EndOfToday>> /\ active' = OrderRef(o)
      /\ sub' = [startedAt |-> clock, expiresAt |-> clock + PlanLength]
  BY DEF BuyPlan, Today, EndOfToday
<1>3. /\ cycles'[OrderRef(o)].endsAt = clock + PlanLength
      /\ \A c \in Refs \ {OrderRef(o)} : cycles'[c] = cycles[c]
  BY <1>1 DEF BuyPlan, NewCycle, TypeOK
<1>4. /\ clock \in Nat /\ PlanLength \in Nat /\ DayLength \in Nat /\ EndOfToday \in Nat
      /\ EndOfToday <= clock + DayLength
  BY TimeAssumption, DayBounds, CurrentType
<1>5. SubOnce'
  BY <1>1, <1>2, <1>3, <1>4 DEF SubOnce
<1>6. DayOnce'
  BY <1>1, <1>2, <1>3, <1>4 DEF DayOnce, WholeDays
<1>7. PastDays'
  <2>1. \A t \in 0..MaxClock : FreeRef(t \div DayLength) # OrderRef(o)
    BY DEF FreeRef, OrderRef
  <2> QED
    BY <1>2, <1>3, <2>1, CycleRefs DEF Opened, CycleInv, PastDays
<1> QED
  BY <1>5, <1>6, <1>7 DEF CycleInv

(* When a plan lasts a day at least: the cycle that getBalance shows has the  *)
(* activeKey and has not ended, so that reserve can claim it.  No fallback    *)
(* returns a cycle that was opened before and has lost the activeKey.         *)
THEOREM CurrentCycleUsableAlways == WholeDays => (Spec => []CurrentCycleUsable)
<1> SUFFICES ASSUME WholeDays PROVE Spec => []CurrentCycleUsable
  OBVIOUS
<1>1. TypeOK /\ Backed /\ PaidWithSub /\ CycleInv /\ [Next]_vars => CycleInv'
  BY TypeStep, StepKinds, CycleKept, CycleTick, CycleOpens, CycleBought DEF MeetsCurrent
<1> QED
  BY TypeInit, TypeStep, PaidInit, PaidStep, CycleInit, CycleUsable, <1>1, PTL DEF Spec
=============================================================================
