---------------------------- MODULE BillingProofs ----------------------------
(* Theorems about Billing, for every set of orders, transfers, handlers and  *)
(* plans and every bound.                                                    *)
EXTENDS Billing, TLAPS

-----------------------------------------------------------------------------
(* Types.                                                                    *)

LEMMA RenewedType ==
  ASSUME TypeOK, NEW now \in Time, NEW days \in Nat
  PROVE  Renewed(now, days) \in SUBSET Subscription
  BY BillingAssumption DEF TypeOK, Renewed, Subscription, Time

\* A pending order has a plan, whose days a payment adds.
Planned == \A o \in Orders : order[o].status = "PENDING" => order[o].plan \in Plans

LEMMA RequestFields ==
  ASSUME TypeOK, NEW h \in Handlers, hook[h].at # "idle"
  PROVE  /\ hook[h].now \in Time
         /\ hook[h].at = "granting" => hook[h].for \in Grants
         /\ hook[h].at \in {"found", "paying"} =>
              hook[h] \in [at : {"found", "paying"}, for : Transfers, now : Time]
<1>1. CASE hook[h] \in [at : {"found", "paying"}, for : Transfers, now : Time]
  BY <1>1
<1>2. CASE hook[h] \in [at : {"granting"}, for : Grants, now : Time]
  BY <1>2
<1>3. hook[h] # Idle
  BY DEF Idle
<1> QED BY <1>1, <1>2, <1>3 DEF TypeOK, Request

\* The rows activateOrder writes.
LEMMA PaidRow ==
  ASSUME NEW row \in OrderRow, NEW t \in Transfers, NEW now \in Nat, NEW end \in Nat
  PROVE  [row EXCEPT !.status = "PAID", !.txn = t, !.paidAt = now,
                     !.periodEnd = end] \in OrderRow
  BY DEF OrderRow

LEMMA ReviewRow ==
  ASSUME NEW row \in OrderRow, NEW t \in Transfers, NEW now \in Nat
  PROVE  [row EXCEPT !.status = "FAILED", !.txn = t, !.paidAt = now] \in OrderRow
  BY DEF OrderRow

LEMMA TypeInit == Init => TypeOK /\ Planned
  BY BillingAssumption
     DEF Init, TypeOK, Planned, Time, OrderRow, NoOrder, Subscription, NoSubscription

LEMMA TypeStep == TypeOK /\ Planned /\ [Next]_vars => TypeOK' /\ Planned'
<1> SUFFICES ASSUME TypeOK, Planned, [Next]_vars PROVE TypeOK' /\ Planned'
  OBVIOUS
<1> USE BillingAssumption DEF TypeOK, Planned
<1>1. CASE Tick
  BY <1>1 DEF Tick, Time, Request
<1>2. ASSUME NEW o \in Checkouts, NEW p \in Plans, CreateCheckout(o, p)
      PROVE  TypeOK' /\ Planned'
  <2>1. /\ order' = [order EXCEPT ![o] = [NoOrder EXCEPT !.status = "PENDING", !.plan = p,
                                                    !.expiresAt = clock + OrderTtl]]
        /\ UNCHANGED <<clock, sub, bank, hook, mailing>>
    BY <1>2 DEF CreateCheckout
  <2>2. clock + OrderTtl \in Nat
    BY DEF Time
  <2>3. [NoOrder EXCEPT !.status = "PENDING", !.plan = p, !.expiresAt = clock + OrderTtl]
          \in OrderRow
    BY <2>2 DEF OrderRow, NoOrder
  <2>4. order' \in [Orders -> OrderRow] /\ Planned'
    BY <2>1, <2>3 DEF NoOrder, Orders
  <2> QED
    BY <2>1, <2>4
<1>3. CASE CleanupExpiredOrders
  BY <1>3 DEF CleanupExpiredOrders, OrderRow, NoOrder, Orders
<1>4. ASSUME NEW t \in Transfers, MakeTransfer(t)
      PROVE  TypeOK' /\ Planned'
  BY <1>4 DEF MakeTransfer
<1>5. ASSUME NEW h \in Handlers, NEW t \in Transfers, FindOrder(h, t)
      PROVE  TypeOK' /\ Planned'
  BY <1>5 DEF FindOrder, Answer, Request, Time
<1>6. ASSUME NEW h \in Handlers, NEW g \in Grants, BeginGrant(h, g)
      PROVE  TypeOK' /\ Planned'
  BY <1>6 DEF BeginGrant, Request, Time
<1>7. ASSUME NEW h \in Handlers, Underpaid(h)
      PROVE  TypeOK' /\ Planned'
  <2>1. hook[h].for \in Transfers
    BY <1>7, RequestFields DEF Underpaid
  <2>2. hook' \in [Handlers -> Request \cup {Idle}]
    BY <1>7 DEF Underpaid, Free
  <2>3. bank' \in [Transfers -> {"none", "sent", "answered"}]
    BY <1>7, <2>1 DEF Underpaid, Answer
  <2>4. order' \in [Orders -> OrderRow] /\ Planned'
    BY <1>7, <2>1 DEF Underpaid, OrderRow, Orders
  <2> QED
    BY <1>7, <2>2, <2>3, <2>4 DEF Underpaid
<1>8. ASSUME NEW h \in Handlers, BeginActivation(h)
      PROVE  TypeOK' /\ Planned'
  <2>1. hook[h] \in [at : {"found", "paying"}, for : Transfers, now : Time]
    BY <1>8, RequestFields DEF BeginActivation
  <2>2. [hook[h] EXCEPT !.at = "paying", !.now = clock] \in Request
    BY <2>1 DEF Request
  <2> QED
    BY <1>8, <2>2 DEF BeginActivation
<1>9. ASSUME NEW h \in Handlers, ActivateOrder(h)
      PROVE  TypeOK' /\ Planned'
  <2>1. hook[h].for \in Transfers /\ hook[h].now \in Time
    BY <1>9, RequestFields DEF ActivateOrder
  <2>2. PICK o \in Orders : o = For[hook[h].for]
    BY <2>1 DEF Orders
  <2>3. hook' \in [Handlers -> Request \cup {Idle}]
    BY <1>9 DEF ActivateOrder, Free
  <2>4. bank' \in [Transfers -> {"none", "sent", "answered"}]
    BY <1>9, <2>1 DEF ActivateOrder, Answer
  <2>5. ASSUME order[o].status = "PENDING"
        PROVE  /\ order' \in [Orders -> OrderRow] /\ Planned'
               /\ sub' \in Subscription
    <3>1. Days[order[o].plan] \in Nat /\ hook[h].now \in Nat
      BY <2>1, <2>5 DEF Time
    <3>2. CASE RunsAt(hook[h].now)
      <4> DEFINE row == [order[o] EXCEPT !.status = "FAILED", !.txn = hook[h].for,
                           !.paidAt = hook[h].now]
      <4>1. order' = [order EXCEPT ![o] = row] /\ sub' = sub
        BY <1>9, <2>2, <2>5, <3>2 DEF ActivateOrder
      <4>2. row \in OrderRow
        BY <2>1, <3>1, ReviewRow
      <4>3. row.status = "FAILED"
        BY DEF OrderRow
      <4>4. order' \in [Orders -> OrderRow] /\ Planned'
        BY <4>1, <4>2, <4>3
      <4> QED
        BY <4>1, <4>4
    <3>3. CASE ~ RunsAt(hook[h].now)
      <4> DEFINE row == [order[o] EXCEPT !.status = "PAID", !.txn = hook[h].for,
                           !.paidAt = hook[h].now,
                           !.periodEnd = hook[h].now + Days[order[o].plan]]
      <4>1. /\ order' = [order EXCEPT ![o] = row]
            /\ sub' \in Renewed(hook[h].now, Days[order[o].plan])
        BY <1>9, <2>2, <2>5, <3>3 DEF ActivateOrder
      <4>2. sub' \in Subscription
        BY <2>1, <3>1, <4>1, RenewedType
      <4>3. row \in OrderRow
        <5>1. hook[h].now + Days[order[o].plan] \in Nat
          BY <3>1
        <5>2. order[o] \in OrderRow
          OBVIOUS
        <5> QED
          BY <2>1, <3>1, <5>1, <5>2, PaidRow
      <4>4. row.status = "PAID"
        BY DEF OrderRow
      <4>5. order' \in [Orders -> OrderRow] /\ Planned'
        BY <4>1, <4>3, <4>4
      <4> QED
        BY <4>2, <4>5
    <3> QED
      BY <3>2, <3>3
  <2> QED
    BY <1>9, <2>2, <2>3, <2>4, <2>5 DEF ActivateOrder
<1>10. ASSUME NEW h \in Handlers, NEW p \in Plans, GrantManual(h, p)
       PROVE  TypeOK' /\ Planned'
  <2>1. hook[h].for \in Orders /\ hook[h].now \in Time
    BY <1>10, RequestFields DEF GrantManual, Orders
  <2>2. hook' \in [Handlers -> Request \cup {Idle}]
    BY <1>10 DEF GrantManual, Free
  <2>3. Days[p] \in Nat /\ hook[h].now \in Nat
    BY <2>1 DEF Time
  <2>4. order' \in [Orders -> OrderRow] /\ Planned' /\ sub' \in Subscription
    BY <1>10, <2>1, <2>3, RenewedType DEF GrantManual, OrderRow
  <2> QED
    BY <1>10, <2>2, <2>4 DEF GrantManual
<1>11. ASSUME NEW h \in Handlers, Die(h)
       PROVE  TypeOK' /\ Planned'
  BY <1>11 DEF Die, Free
<1>12. CASE DowngradeExpired
  BY <1>12 DEF DowngradeExpired, Subscription
<1>13. CASE Cancel \/ Activate
  BY <1>13 DEF Cancel, Activate, Subscription
<1>14. CASE BeginReminders
  BY <1>14 DEF BeginReminders
<1>15. CASE MarkReminded
  BY <1>15 DEF MarkReminded, Subscription, Time
<1>16. CASE UNCHANGED vars
  BY <1>16 DEF vars
<1> QED
  BY <1>1, <1>2, <1>3, <1>4, <1>5, <1>6, <1>7, <1>8, <1>9, <1>10, <1>11, <1>12,
     <1>13, <1>14, <1>15, <1>16 DEF Next

(* Every state of Billing has the types it declares, and a pending order has *)
(* a plan.                                                                   *)
THEOREM BillingTypeCorrect == Spec => [](TypeOK /\ Planned)
  BY TypeInit, TypeStep, PTL DEF Spec

-----------------------------------------------------------------------------
(* Requests.  The `now` of a request is in the past, and a grant under way   *)
(* has no order yet.                                                         *)

NowIsPast == \A h \in Handlers : hook[h] # Idle => hook[h].now <= clock

GrantsUnmade ==
  \A h \in Handlers : hook[h].at = "granting" =>
    /\ order[hook[h].for].status = "NONE"
    /\ \A i \in Handlers : i # h /\ hook[i].at = "granting" =>
                            hook[i].for # hook[h].for

RequestsSound == NowIsPast /\ GrantsUnmade

LEMMA RequestsInit == Init => RequestsSound
  BY DEF Init, RequestsSound, NowIsPast, GrantsUnmade, Idle

\* A step that leaves every request as it is, or ends one, and that leaves the
\* orders that are not made as they are.
LEMMA RequestsKept ==
  ASSUME TypeOK, RequestsSound, clock' \in Nat, clock <= clock',
         \A i \in Handlers : hook'[i] = hook[i] \/ hook'[i] = Idle,
         \A g \in Grants :
           \/ order'[g] = order[g]
           \/ \A i \in Handlers : hook'[i].at = "granting" => hook'[i].for # g
  PROVE  RequestsSound'
<1>1. NowIsPast'
  <2> SUFFICES ASSUME NEW h \in Handlers, hook'[h] # Idle
               PROVE  hook'[h].now <= clock'
    BY DEF NowIsPast
  <2>1. hook'[h] = hook[h] /\ hook[h].at # "idle"
    BY DEF TypeOK, Request, Idle
  <2>2. hook[h].now \in Nat /\ hook[h].now <= clock /\ clock \in Nat
    BY <2>1, RequestFields DEF TypeOK, RequestsSound, NowIsPast, Time
  <2> QED
    BY <2>1, <2>2
<1>2. GrantsUnmade'
  <2> SUFFICES ASSUME NEW h \in Handlers, hook'[h].at = "granting"
               PROVE  /\ order'[hook'[h].for].status = "NONE"
                      /\ \A i \in Handlers : i # h /\ hook'[i].at = "granting" =>
                                              hook'[i].for # hook'[h].for
    BY DEF GrantsUnmade
  <2>1. \A i \in Handlers : hook'[i].at = "granting" => hook'[i] = hook[i]
    BY DEF Idle
  <2>2. hook[h].for \in Grants
    BY <2>1, RequestFields
  <2> QED
    BY <2>1, <2>2 DEF RequestsSound, GrantsUnmade
<1> QED
  BY <1>1, <1>2 DEF RequestsSound

LEMMA RequestsStep == TypeOK /\ RequestsSound /\ [Next]_vars => RequestsSound'
<1> SUFFICES ASSUME TypeOK, RequestsSound, [Next]_vars PROVE RequestsSound'
  OBVIOUS
<1> USE BillingAssumption
<1>0. clock \in Nat
  BY DEF TypeOK, Time
<1>1. CASE \/ Tick \/ DowngradeExpired \/ Cancel \/ Activate
           \/ BeginReminders \/ MarkReminded \/ UNCHANGED vars
           \/ \E t \in Transfers : MakeTransfer(t)
  <2>1. hook' = hook /\ order' = order /\ clock' \in Nat /\ clock <= clock'
    BY <1>0, <1>1 DEF Tick, DowngradeExpired, Cancel, Activate, BeginReminders,
                      MarkReminded, MakeTransfer, vars
  <2> QED
    BY <2>1, RequestsKept
<1>2. CASE \/ CleanupExpiredOrders
           \/ \E o \in Checkouts, p \in Plans : CreateCheckout(o, p)
  <2>1. hook' = hook /\ clock' = clock /\ \A g \in Grants : order'[g] = order[g]
    BY <1>2 DEF CleanupExpiredOrders, CreateCheckout, TypeOK, Orders
  <2> QED
    BY <1>0, <2>1, RequestsKept
<1>3. ASSUME NEW h \in Handlers, NEW t \in Transfers, FindOrder(h, t)
      PROVE  RequestsSound'
  <2>1. CASE hook' = hook
    BY <1>0, <1>3, <2>1, RequestsKept DEF FindOrder
  <2>2. CASE hook' = [hook EXCEPT ![h] = [at |-> "found", for |-> t, now |-> 0]]
    BY <1>0, <1>3, <2>2 DEF FindOrder, RequestsSound, NowIsPast, GrantsUnmade, TypeOK
  <2> QED
    BY <1>3, <2>1, <2>2 DEF FindOrder
<1>4. ASSUME NEW h \in Handlers, NEW g \in Grants, BeginGrant(h, g)
      PROVE  RequestsSound'
  <2>1. hook' = [hook EXCEPT ![h] = [at |-> "granting", for |-> g, now |-> clock]]
    BY <1>4 DEF BeginGrant
  <2>2. \A i \in Handlers : hook[i].at = "granting" => hook[i].for # g
    BY <1>4 DEF BeginGrant, Idle
  <2> QED
    BY <1>0, <1>4, <2>1, <2>2
       DEF BeginGrant, RequestsSound, NowIsPast, GrantsUnmade, TypeOK
<1>5. ASSUME NEW h \in Handlers, BeginActivation(h)
      PROVE  RequestsSound'
  <2>1. hook[h] \in [at : {"found", "paying"}, for : Transfers, now : Time]
    BY <1>5, RequestFields DEF BeginActivation
  <2>2. /\ hook' = [hook EXCEPT ![h] = [hook[h] EXCEPT !.at = "paying", !.now = clock]]
        /\ clock' = clock /\ order' = order
    BY <1>5 DEF BeginActivation, TypeOK
  <2>3. hook'[h].at = "paying" /\ hook'[h].now = clock
    BY <2>1, <2>2 DEF TypeOK
  <2>4. \A i \in Handlers : i # h => hook'[i] = hook[i]
    BY <2>2 DEF TypeOK
  <2> QED
    BY <1>0, <2>2, <2>3, <2>4 DEF RequestsSound, NowIsPast, GrantsUnmade
<1>6. ASSUME NEW h \in Handlers, Underpaid(h) \/ ActivateOrder(h)
      PROVE  RequestsSound'
  <2>1. hook[h].for \in Transfers
    BY <1>6, RequestFields DEF Underpaid, ActivateOrder
  <2>2. \A g \in Grants : order'[g] = order[g]
    BY <1>6, <2>1 DEF Underpaid, ActivateOrder, TypeOK, Orders
  <2>3. hook' = [hook EXCEPT ![h] = Idle] /\ clock' = clock
    BY <1>6 DEF Underpaid, ActivateOrder, Free
  <2> QED
    BY <1>0, <2>2, <2>3, RequestsKept DEF TypeOK
<1>7. ASSUME NEW h \in Handlers, NEW p \in Plans, GrantManual(h, p)
      PROVE  RequestsSound'
  <2>1. hook[h].at = "granting" /\ hook' = [hook EXCEPT ![h] = Idle] /\ clock' = clock
    BY <1>7 DEF GrantManual, Free
  <2>2. \A g \in Grants : g # hook[h].for => order'[g] = order[g]
    BY <1>7 DEF GrantManual, TypeOK, Orders
  <2>3. \A i \in Handlers : hook'[i].at = "granting" => hook'[i].for # hook[h].for
    BY <2>1 DEF RequestsSound, GrantsUnmade, TypeOK, Idle
  <2> QED
    BY <1>0, <2>1, <2>2, <2>3, RequestsKept DEF TypeOK
<1>8. ASSUME NEW h \in Handlers, Die(h)
      PROVE  RequestsSound'
  BY <1>0, <1>8, RequestsKept DEF Die, Free, TypeOK
<1> QED
  BY <1>1, <1>2, <1>3, <1>4, <1>5, <1>6, <1>7, <1>8 DEF Next

-----------------------------------------------------------------------------
(* Periods.  A step opens one period, where the last one has ended, or       *)
(* leaves the periods alone.                                                 *)

Good == TypeOK /\ Planned /\ RequestsSound

PeriodsSame ==
  /\ sub'.expiresAt = sub.expiresAt
  /\ \A o \in Orders : /\ order'[o].status = "PAID" <=> order[o].status = "PAID"
                       /\ order[o].status = "PAID" => order'[o] = order[o]

Opens(o, now, days) ==
  /\ clock' = clock /\ now <= clock /\ ~ RunsAt(now)
  /\ order[o].status # "PAID"
  /\ \A x \in Orders : x # o => order'[x] = order[x]
  /\ /\ order'[o].status = "PAID" /\ order'[o].paidAt = now
     /\ order'[o].periodEnd = now + days
  /\ sub'.expiresAt = now + days

LEMMA RenewedEnds ==
  ASSUME NEW now, NEW days, NEW row \in Renewed(now, days)
  PROVE  row.expiresAt = now + days /\ row.status = "ACTIVE"
  BY DEF Renewed

LEMMA OpenStep ==
  Good /\ [Next]_vars =>
    \/ PeriodsSame
    \/ \E o \in Orders, now \in Nat, days \in Lengths : Opens(o, now, days)
<1> SUFFICES ASSUME Good, [Next]_vars
             PROVE  \/ PeriodsSame
                    \/ \E o \in Orders, now \in Nat, days \in Lengths : Opens(o, now, days)
  OBVIOUS
<1> USE BillingAssumption
<1>0. TypeOK /\ Planned /\ NowIsPast /\ GrantsUnmade /\ order \in [Orders -> OrderRow]
  BY DEF Good, RequestsSound, TypeOK
<1>1. CASE order' = order /\ sub'.expiresAt = sub.expiresAt
  BY <1>1 DEF PeriodsSame
<1>2. CASE \/ Tick \/ BeginReminders \/ UNCHANGED vars \/ DowngradeExpired
           \/ Cancel \/ Activate \/ MarkReminded
  <2>1. order' = order
    BY <1>2 DEF Tick, BeginReminders, vars, DowngradeExpired, Cancel, Activate, MarkReminded
  <2>2. sub'.expiresAt = sub.expiresAt
    BY <1>0, <1>2 DEF Tick, BeginReminders, vars, DowngradeExpired, Cancel, Activate,
                      MarkReminded, TypeOK, Subscription
  <2> QED
    BY <1>1, <2>1, <2>2
<1>3. CASE \/ \E t \in Transfers : MakeTransfer(t)
           \/ \E h \in Handlers, t \in Transfers : FindOrder(h, t)
           \/ \E h \in Handlers, g \in Grants : BeginGrant(h, g)
           \/ \E h \in Handlers : BeginActivation(h) \/ Die(h)
  BY <1>1, <1>3 DEF MakeTransfer, FindOrder, BeginGrant, BeginActivation, Die
<1>4. CASE \/ CleanupExpiredOrders
           \/ \E o \in Checkouts, p \in Plans : CreateCheckout(o, p)
  <2>1. sub' = sub
    BY <1>4 DEF CleanupExpiredOrders, CreateCheckout
  <2>2. ASSUME NEW x \in Orders
        PROVE  \/ order'[x] = order[x]
               \/ order[x].status # "PAID" /\ order'[x].status # "PAID"
    <3>1. CASE CleanupExpiredOrders
      BY <1>0, <3>1 DEF CleanupExpiredOrders, NoOrder
    <3>2. ASSUME NEW o \in Checkouts, NEW p \in Plans, CreateCheckout(o, p)
          PROVE  \/ order'[x] = order[x]
                 \/ order[x].status # "PAID" /\ order'[x].status # "PAID"
      <4>1. order[o].status = "NONE" /\ order'[o].status = "PENDING"
        BY <1>0, <3>2 DEF CreateCheckout, NoOrder, Orders
      <4>2. x # o => order'[x] = order[x]
        BY <1>0, <3>2 DEF CreateCheckout
      <4> QED
        BY <4>1, <4>2
    <3> QED
      BY <1>4, <3>1, <3>2
  <2> QED
    BY <2>1, <2>2 DEF PeriodsSame
<1>5. ASSUME NEW h \in Handlers, Underpaid(h)
      PROVE  PeriodsSame
  <2>1. For[hook[h].for] \in Orders
    BY <1>0, <1>5, RequestFields DEF Underpaid, Orders
  <2>2. sub' = sub
    BY <1>5 DEF Underpaid
  <2>3. ASSUME NEW x \in Orders
        PROVE  \/ order'[x] = order[x]
               \/ order[x].status # "PAID" /\ order'[x].status # "PAID"
    BY <1>0, <1>5, <2>1 DEF Underpaid, OrderRow
  <2> QED
    BY <2>2, <2>3 DEF PeriodsSame
<1>6. ASSUME NEW h \in Handlers, ActivateOrder(h)
      PROVE  \/ PeriodsSame
             \/ \E o \in Orders, now \in Nat, days \in Lengths : Opens(o, now, days)
  <2>1. For[hook[h].for] \in Orders /\ hook[h].now \in Nat /\ hook[h].now <= clock
    BY <1>0, <1>6, RequestFields DEF ActivateOrder, Orders, Time, NowIsPast, Idle
  <2>2. PICK o \in Orders : o = For[hook[h].for]
    BY <2>1
  <2>3. PICK now \in Nat : now = hook[h].now
    BY <2>1
  <2>4. CASE order[o].status # "PENDING"
    BY <1>1, <1>6, <2>2, <2>4 DEF ActivateOrder
  <2>5. CASE order[o].status = "PENDING" /\ RunsAt(now)
    <3>1. /\ sub' = sub
          /\ order' = [order EXCEPT ![o] = [order[o] EXCEPT !.status = "FAILED",
                            !.txn = hook[h].for, !.paidAt = now]]
      BY <1>6, <2>2, <2>3, <2>5 DEF ActivateOrder
    <3>2. order'[o].status = "FAILED"
      BY <1>0, <3>1 DEF OrderRow
    <3>3. \A x \in Orders : x # o => order'[x] = order[x]
      BY <1>0, <3>1
    <3> QED
      BY <2>5, <3>1, <3>2, <3>3 DEF PeriodsSame
  <2>6. CASE order[o].status = "PENDING" /\ ~ RunsAt(now)
    <3>1. PICK days \in Lengths : days = Days[order[o].plan]
      BY <1>0, <2>6 DEF Planned, Lengths
    <3>2. /\ order' = [order EXCEPT ![o] = [order[o] EXCEPT !.status = "PAID",
                            !.txn = hook[h].for, !.paidAt = now, !.periodEnd = now + days]]
          /\ sub' \in Renewed(now, days) /\ clock' = clock
      BY <1>6, <2>2, <2>3, <2>6, <3>1 DEF ActivateOrder
    <3>3. /\ order'[o].status = "PAID" /\ order'[o].paidAt = now
          /\ order'[o].periodEnd = now + days
      BY <1>0, <3>2 DEF OrderRow
    <3>4. \A x \in Orders : x # o => order'[x] = order[x]
      BY <1>0, <3>2
    <3>5. sub'.expiresAt = now + days
      BY <3>2, RenewedEnds
    <3>6. Opens(o, now, days)
      BY <2>1, <2>3, <2>6, <3>2, <3>3, <3>4, <3>5 DEF Opens
    <3> QED
      BY <3>6
  <2> QED
    BY <2>4, <2>5, <2>6
<1>7. ASSUME NEW h \in Handlers, NEW p \in Plans, GrantManual(h, p)
      PROVE  \/ PeriodsSame
             \/ \E o \in Orders, now \in Nat, days \in Lengths : Opens(o, now, days)
  <2>1. hook[h].for \in Orders /\ hook[h].now \in Nat /\ hook[h].now <= clock
    BY <1>0, <1>7, RequestFields DEF GrantManual, Orders, Time, NowIsPast, Idle
  <2>2. PICK o \in Orders : o = hook[h].for
    BY <2>1
  <2>3. PICK now \in Nat : now = hook[h].now
    BY <2>1
  <2>4. CASE RunsAt(now)
    BY <1>1, <1>7, <2>3, <2>4 DEF GrantManual
  <2>5. CASE ~ RunsAt(now)
    <3>1. PICK days \in Lengths : days = Days[p]
      BY DEF Lengths
    <3>2. /\ order' = [order EXCEPT ![o] =
                  [status |-> "PAID", plan |-> p, expiresAt |-> now, txn |-> None,
                   paidAt |-> now, periodEnd |-> now + days]]
          /\ sub' \in Renewed(now, days) /\ clock' = clock
      BY <1>7, <2>2, <2>3, <2>5, <3>1 DEF GrantManual
    <3>3. /\ order'[o].status = "PAID" /\ order'[o].paidAt = now
          /\ order'[o].periodEnd = now + days
      BY <1>0, <3>2
    <3>4. \A x \in Orders : x # o => order'[x] = order[x]
      BY <1>0, <3>2
    <3>5. order[o].status # "PAID"
      BY <1>0, <1>7, <2>2 DEF GrantManual, GrantsUnmade
    <3>6. sub'.expiresAt = now + days
      BY <3>2, RenewedEnds
    <3>7. Opens(o, now, days)
      BY <2>1, <2>3, <2>5, <3>2, <3>3, <3>4, <3>5, <3>6 DEF Opens
    <3> QED
      BY <3>7
  <2> QED
    BY <2>4, <2>5
<1> QED
  BY <1>2, <1>3, <1>4, <1>5, <1>6, <1>7 DEF Next

\* Every period begins in the past and ends when the subscription does, or
\* before; the subscription ends with a period.
PeriodsOpen ==
  \A o \in Paid : /\ order[o].paidAt <= clock
                  /\ order[o].paidAt < order[o].periodEnd
                  /\ order[o].periodEnd <= sub.expiresAt

LastPeriod == sub.expiresAt = 0 \/ \E o \in Paid : order[o].periodEnd = sub.expiresAt

PeriodInv == PeriodsDisjoint /\ PeriodsOpen /\ LastPeriod

LEMMA PeriodInit == Init => PeriodInv
  BY DEF Init, PeriodInv, PeriodsDisjoint, PeriodsOpen, LastPeriod, Paid, NoOrder,
         NoSubscription

LEMMA PeriodsKept ==
  ASSUME Good, PeriodInv, PeriodsSame, clock' \in Nat, clock <= clock'
  PROVE  PeriodInv'
<1>1. Paid' = Paid /\ \A o \in Paid : order'[o] = order[o]
  <2>1. Paid' = {o \in Orders : order'[o].status = "PAID"}
    BY DEF Paid
  <2>2. \A o \in Orders : order'[o].status = "PAID" <=> order[o].status = "PAID"
    BY DEF PeriodsSame
  <2>3. \A o \in Paid : order'[o] = order[o]
    BY DEF PeriodsSame, Paid
  <2> QED
    BY <2>1, <2>2, <2>3, Zenon DEF Paid
<1>2. /\ clock \in Nat
      /\ \A o \in Paid : order[o].paidAt \in Nat
  BY DEF Good, TypeOK, Time, Paid, OrderRow
<1>3. PeriodsOpen'
  BY <1>1, <1>2 DEF PeriodInv, PeriodsOpen, PeriodsSame
<1>4. LastPeriod'
  BY <1>1 DEF PeriodInv, LastPeriod, PeriodsSame
<1>5. PeriodsDisjoint'
  BY <1>1 DEF PeriodInv, PeriodsDisjoint
<1> QED
  BY <1>3, <1>4, <1>5 DEF PeriodInv

LEMMA LengthsPositive == Lengths \subseteq Nat \ {0}
  BY BillingAssumption DEF Lengths

LEMMA PeriodOpened ==
  ASSUME Good, PeriodInv, NEW o \in Orders, NEW now \in Nat, NEW days \in Lengths,
         Opens(o, now, days)
  PROVE  PeriodInv'
<1>0. days \in Nat \ {0}
  BY LengthsPositive
<1>1. o \notin Paid /\ Paid' = Paid \cup {o} /\ \A x \in Paid : order'[x] = order[x]
  BY DEF Opens, Paid
<1>2. /\ order'[o].paidAt = now /\ order'[o].periodEnd = now + days
      /\ sub'.expiresAt = now + days /\ clock' = clock /\ now <= clock
      /\ sub.expiresAt <= now /\ sub.expiresAt \in Nat
  BY DEF Opens, Good, TypeOK, Subscription, RunsAt
<1>3. \A x \in Paid : /\ order[x].paidAt \in Nat /\ order[x].periodEnd \in Nat
                      /\ order[x].paidAt <= clock
                      /\ order[x].paidAt < order[x].periodEnd
                      /\ order[x].periodEnd <= now
  <2>1. \A x \in Paid : order[x].paidAt \in Nat /\ order[x].periodEnd \in Nat
    BY DEF Good, TypeOK, Paid, OrderRow
  <2> QED
    BY <1>2, <2>1 DEF PeriodInv, PeriodsOpen
<1>4. PeriodsOpen'
  BY <1>0, <1>1, <1>2, <1>3 DEF PeriodsOpen
<1>5. LastPeriod'
  BY <1>1, <1>2 DEF LastPeriod
<1>6. PeriodsDisjoint'
  <2>1. \A x \in Paid : order'[x].periodEnd <= order'[o].paidAt
    BY <1>1, <1>2, <1>3
  <2>2. \A x, y \in Paid : x # y => \/ order'[x].periodEnd <= order'[y].paidAt
                                    \/ order'[y].periodEnd <= order'[x].paidAt
    BY <1>1 DEF PeriodInv, PeriodsDisjoint
  <2> QED
    BY <1>1, <2>1, <2>2 DEF PeriodsDisjoint
<1> QED
  BY <1>4, <1>5, <1>6 DEF PeriodInv

LEMMA PeriodStep == Good /\ PeriodInv /\ [Next]_vars /\ TypeOK' => PeriodInv'
<1> SUFFICES ASSUME Good, PeriodInv, [Next]_vars, TypeOK' PROVE PeriodInv'
  OBVIOUS
<1>1. clock \in Nat /\ clock' \in Nat /\ clock <= clock'
  <2>1. clock' = clock \/ clock' = clock + 1
    BY DEF Next, Tick, CreateCheckout, CleanupExpiredOrders, MakeTransfer, FindOrder,
           BeginGrant, Underpaid, BeginActivation, ActivateOrder, GrantManual, Die,
           DowngradeExpired, Cancel, Activate, BeginReminders, MarkReminded, vars
  <2> QED
    BY <2>1 DEF Good, TypeOK, Time
<1> QED
  BY <1>1, OpenStep, PeriodsKept, PeriodOpened

\* The subscription runs until its last period ends.
LEMMA PeriodsCover == Good /\ PeriodInv => AccessIsPaid
<1> SUFFICES ASSUME Good, PeriodInv PROVE AccessIsPaid
  OBVIOUS
<1>1. /\ clock \in Nat /\ sub.expiresAt \in Nat
      /\ \A o \in Paid : order[o].paidAt \in Nat /\ order[o].periodEnd \in Nat
  BY DEF Good, TypeOK, Time, Subscription, Paid, OrderRow
<1> QED
  BY <1>1 DEF PeriodInv, PeriodsOpen, LastPeriod, AccessIsPaid, RunsAt

LEMMA GoodAlways == Spec => []Good
  BY TypeInit, TypeStep, RequestsInit, RequestsStep, PTL DEF Spec, Good

LEMMA PeriodAlways == Spec => [](Good /\ PeriodInv)
<1>1. Good => TypeOK
  BY DEF Good
<1> QED
  BY <1>1, GoodAlways, PeriodInit, PeriodStep, PTL DEF Spec

(* However webhooks and grants interleave between their `now` and the        *)
(* billing lock, the periods of two paid orders never overlap.               *)
THEOREM PeriodsNeverOverlap == Spec => []PeriodsDisjoint
<1>1. PeriodInv => PeriodsDisjoint
  BY DEF PeriodInv
<1> QED
  BY <1>1, PeriodAlways, PTL

(* The subscription runs exactly while a paid order covers the present.      *)
THEOREM AccessAlwaysPaid == Spec => []AccessIsPaid
  BY PeriodsCover, PeriodAlways, PTL

-----------------------------------------------------------------------------
(* The status of the subscription.                                           *)

LEMMA RunningInit == Init => RunningNotExpired
  BY DEF Init, RunningNotExpired, NoSubscription

LEMMA RunningStep == Good /\ RunningNotExpired /\ [Next]_vars => RunningNotExpired'
<1> SUFFICES ASSUME Good, RunningNotExpired, [Next]_vars PROVE RunningNotExpired'
  OBVIOUS
<1>0. TypeOK /\ clock \in Nat /\ sub.expiresAt \in Nat
  BY DEF Good, TypeOK, Time, Subscription
<1>1. CASE sub' = sub /\ (clock' = clock \/ clock' = clock + 1)
  BY <1>0, <1>1 DEF RunningNotExpired, RunsAt
<1>2. CASE \/ Tick \/ BeginReminders \/ UNCHANGED vars \/ CleanupExpiredOrders
           \/ \E t \in Transfers : MakeTransfer(t)
           \/ \E o \in Checkouts, p \in Plans : CreateCheckout(o, p)
           \/ \E h \in Handlers, t \in Transfers : FindOrder(h, t)
           \/ \E h \in Handlers, g \in Grants : BeginGrant(h, g)
           \/ \E h \in Handlers : Underpaid(h) \/ BeginActivation(h) \/ Die(h)
  BY <1>1, <1>2 DEF Tick, BeginReminders, vars, CleanupExpiredOrders, MakeTransfer,
       CreateCheckout, FindOrder, BeginGrant, Underpaid, BeginActivation, Die
<1>3. CASE DowngradeExpired
  BY <1>0, <1>3 DEF DowngradeExpired, RunningNotExpired, RunsAt, TypeOK, Subscription
<1>4. CASE Cancel \/ Activate \/ MarkReminded
  BY <1>0, <1>4 DEF Cancel, Activate, MarkReminded, RunningNotExpired, RunsAt, TypeOK,
                    Subscription
<1>5. CASE \/ \E h \in Handlers : ActivateOrder(h)
           \/ \E h \in Handlers, p \in Plans : GrantManual(h, p)
  <2>1. clock' = clock
    BY <1>5 DEF ActivateOrder, GrantManual
  <2>2. sub' = sub \/ \E now, days : sub' \in Renewed(now, days)
    BY <1>5 DEF ActivateOrder, GrantManual
  <2> QED
    BY <1>1, <2>1, <2>2, RenewedEnds DEF RunningNotExpired
<1> QED
  BY <1>2, <1>3, <1>4, <1>5 DEF Next

(* A subscription that runs is never EXPIRED in the database.                *)
THEOREM RunningNeverExpired == Spec => []RunningNotExpired
  BY GoodAlways, RunningInit, RunningStep, PTL DEF Spec

LEMMA ReminderStep ==
  ASSUME Good, ReminderOfThisPeriod, [Next]_vars
  PROVE  ReminderOfThisPeriod' \/ (MarkReminded /\ mailing < sub.startedAt)
<1>0. sub \in Subscription /\ mailing \in Nat \cup {None}
  BY DEF Good, TypeOK, Time
<1>1. CASE sub' = sub
  BY <1>1 DEF ReminderOfThisPeriod
<1>2. CASE \/ Tick \/ BeginReminders \/ UNCHANGED vars \/ CleanupExpiredOrders
           \/ \E t \in Transfers : MakeTransfer(t)
           \/ \E o \in Checkouts, p \in Plans : CreateCheckout(o, p)
           \/ \E h \in Handlers, t \in Transfers : FindOrder(h, t)
           \/ \E h \in Handlers, g \in Grants : BeginGrant(h, g)
           \/ \E h \in Handlers : Underpaid(h) \/ BeginActivation(h) \/ Die(h)
  BY <1>1, <1>2 DEF Tick, BeginReminders, vars, CleanupExpiredOrders, MakeTransfer,
       CreateCheckout, FindOrder, BeginGrant, Underpaid, BeginActivation, Die
<1>3. CASE DowngradeExpired \/ Cancel \/ Activate
  <2>1. sub'.reminded = sub.reminded /\ sub'.startedAt = sub.startedAt
    BY <1>0, <1>3 DEF DowngradeExpired, Cancel, Activate, Subscription
  <2> QED
    BY <2>1 DEF ReminderOfThisPeriod
<1>4. CASE MarkReminded
  <2>1. CASE sub' = [sub EXCEPT !.reminded = mailing]
    <3>1. mailing \in Nat /\ sub.startedAt \in Nat
      BY <1>0, <1>4 DEF MarkReminded, Subscription
    <3>2. sub'.reminded = mailing /\ sub'.startedAt = sub.startedAt
      BY <1>0, <2>1 DEF Subscription
    <3> QED
      BY <1>4, <3>1, <3>2 DEF ReminderOfThisPeriod
  <2> QED
    BY <1>1, <1>4, <2>1 DEF MarkReminded
<1>5. CASE \/ \E h \in Handlers : ActivateOrder(h)
           \/ \E h \in Handlers, p \in Plans : GrantManual(h, p)
  <2>1. sub' = sub \/ \E now, days : sub' \in Renewed(now, days)
    BY <1>5 DEF ActivateOrder, GrantManual
  <2>2. ASSUME NEW now, NEW days, sub' \in Renewed(now, days) PROVE sub'.reminded = None
    BY <2>2 DEF Renewed
  <2> QED
    BY <1>1, <2>1, <2>2 DEF ReminderOfThisPeriod
<1> QED
  BY <1>2, <1>3, <1>4, <1>5 DEF Next

(* The mark of a reminder becomes wrong in one way only: the reminder was    *)
(* begun before the period that runs when it is marked.  No renewal, payment *)
(* or cron leaves a mark of an earlier period behind.                        *)
THEOREM OnlyLateReminders ==
  Spec => [][ReminderOfThisPeriod
               => ReminderOfThisPeriod' \/ (MarkReminded /\ mailing < sub.startedAt)]_vars
<1>1. Good /\ [Next]_vars
        => [ReminderOfThisPeriod
              => ReminderOfThisPeriod' \/ (MarkReminded /\ mailing < sub.startedAt)]_vars
  BY ReminderStep
<1> QED
  BY GoodAlways, <1>1, PTL DEF Spec

-----------------------------------------------------------------------------
(* Orders and the money they received.                                       *)

NoReceiptYet ==
  \A o \in Orders :
    order[o].status \in {"NONE", "PENDING", "DELETED"} => order[o].txn = None

\* What a step may do to an order: make it, delete it, or settle it.
Moves(o) ==
  \/ order'[o] = order[o]
  \/ /\ order[o].status = "NONE"
     /\ order'[o].status \in {"PENDING", "PAID"} /\ order'[o].txn = None
  \/ /\ order[o].status = "PENDING"
     /\ order'[o].status = "DELETED" /\ order'[o].txn = None
  \/ order[o].status = "PENDING" /\ order'[o].status \in {"FAILED", "PAID"}

LEMMA ActivationSettles ==
  ASSUME TypeOK, NEW h \in Handlers, NEW x \in Orders, x = For[hook[h].for],
         ActivateOrder(h)
  PROVE  \/ order' = order /\ order[x].status # "PENDING"
         \/ order'[x].status \in {"FAILED", "PAID"}
<1>0. order \in [Orders -> OrderRow]
  BY DEF TypeOK
<1>1. CASE order' = [order EXCEPT ![x] = [order[x] EXCEPT !.status = "FAILED",
                       !.txn = hook[h].for, !.paidAt = hook[h].now]]
  BY <1>0, <1>1 DEF OrderRow
<1>2. CASE order' = [order EXCEPT ![x] = [order[x] EXCEPT !.status = "PAID",
                       !.txn = hook[h].for, !.paidAt = hook[h].now,
                       !.periodEnd = hook[h].now + Days[order[x].plan]]]
  BY <1>0, <1>2 DEF OrderRow
<1> QED
  BY <1>1, <1>2 DEF ActivateOrder

LEMMA OrderMoves == Good /\ [Next]_vars => \A o \in Orders : Moves(o)
<1> SUFFICES ASSUME Good, [Next]_vars, NEW o \in Orders PROVE Moves(o)
  OBVIOUS
<1> USE BillingAssumption
<1>0. TypeOK /\ GrantsUnmade /\ order \in [Orders -> OrderRow]
  BY DEF Good, RequestsSound, TypeOK
<1>1. CASE order' = order
  BY <1>1 DEF Moves
<1>2. CASE \/ Tick \/ BeginReminders \/ UNCHANGED vars \/ DowngradeExpired
           \/ Cancel \/ Activate \/ MarkReminded
           \/ \E t \in Transfers : MakeTransfer(t)
           \/ \E h \in Handlers, t \in Transfers : FindOrder(h, t)
           \/ \E h \in Handlers, g \in Grants : BeginGrant(h, g)
           \/ \E h \in Handlers : BeginActivation(h) \/ Die(h)
  BY <1>1, <1>2 DEF Tick, BeginReminders, vars, DowngradeExpired, Cancel, Activate,
       MarkReminded, MakeTransfer, FindOrder, BeginGrant, BeginActivation, Die
<1>3. CASE CleanupExpiredOrders
  BY <1>0, <1>3 DEF CleanupExpiredOrders, NoOrder, Moves
<1>4. ASSUME NEW x \in Checkouts, NEW p \in Plans, CreateCheckout(x, p)
      PROVE  Moves(o)
  <2>1. /\ order[x].status = "NONE"
        /\ order'[x].status = "PENDING" /\ order'[x].txn = None
    BY <1>0, <1>4 DEF CreateCheckout, NoOrder, Orders
  <2>2. o # x => order'[o] = order[o]
    BY <1>0, <1>4 DEF CreateCheckout
  <2> QED
    BY <2>1, <2>2 DEF Moves
<1>5. ASSUME NEW h \in Handlers, Underpaid(h)
      PROVE  Moves(o)
  <2>1. For[hook[h].for] \in Orders
    BY <1>0, <1>5, RequestFields DEF Underpaid, Orders
  <2> QED
    BY <1>0, <1>5, <2>1 DEF Underpaid, OrderRow, Moves
<1>6. ASSUME NEW h \in Handlers, ActivateOrder(h)
      PROVE  Moves(o)
  <2>1. For[hook[h].for] \in Orders
    BY <1>0, <1>6, RequestFields DEF ActivateOrder, Orders
  <2>2. PICK x \in Orders : x = For[hook[h].for]
    BY <2>1
  <2>3. o # x => order'[o] = order[o]
    BY <1>0, <1>6, <2>2 DEF ActivateOrder
  <2>4. order' = order \/ order[x].status = "PENDING"
    BY <1>6, <2>2 DEF ActivateOrder
  <2>5. order' = order \/ order'[x].status \in {"FAILED", "PAID"}
    BY <1>0, <1>6, <2>2, ActivationSettles
  <2> QED
    BY <2>3, <2>4, <2>5 DEF Moves
<1>7. ASSUME NEW h \in Handlers, NEW p \in Plans, GrantManual(h, p)
      PROVE  Moves(o)
  <2>1. order[hook[h].for].status = "NONE"
    BY <1>0, <1>7 DEF GrantManual, GrantsUnmade
  <2>2. o # hook[h].for => order'[o] = order[o]
    BY <1>0, <1>7 DEF GrantManual
  <2>3. \/ order' = order
        \/ o = hook[h].for => order'[o].status = "PAID" /\ order'[o].txn = None
    BY <1>0, <1>7 DEF GrantManual
  <2> QED
    BY <2>1, <2>2, <2>3 DEF Moves
<1> QED
  BY <1>2, <1>3, <1>4, <1>5, <1>6, <1>7 DEF Next

LEMMA ReceiptInit == Init => NoReceiptYet
  BY DEF Init, NoReceiptYet, NoOrder

LEMMA ReceiptStep ==
  Good /\ NoReceiptYet /\ [Next]_vars =>
    /\ NoReceiptYet'
    /\ \A o \in Orders : order[o].txn # None => order'[o].txn = order[o].txn
  BY OrderMoves DEF Moves, NoReceiptYet

(* The transaction recorded on an order is never overwritten or deleted.     *)
THEOREM ReceiptAlwaysKept == Spec => ReceiptKept
<1>1. Spec => [](Good /\ NoReceiptYet)
  BY GoodAlways, ReceiptInit, ReceiptStep, PTL DEF Spec
<1>2. Good /\ NoReceiptYet /\ [Next]_vars =>
        [\A o \in Orders : order[o].txn # None => order'[o].txn = order[o].txn]_vars
  BY ReceiptStep
<1> QED
  BY <1>1, <1>2, PTL DEF Spec, ReceiptKept

-----------------------------------------------------------------------------
(* The sale of periods.                                                      *)

\* Money is recorded for one order in a step, and for one that was waiting for it.
OneReceipt ==
  \/ \A x \in Orders : order'[x].txn = order[x].txn
  \/ \E o \in Orders : /\ order[o].status = "PENDING" /\ order'[o].txn \in Transfers
                       /\ clock' = clock
                       /\ \A x \in Orders : x # o => order'[x].txn = order[x].txn

LEMMA OneReceiptStep == Good /\ NoReceiptYet /\ [Next]_vars => OneReceipt
<1> SUFFICES ASSUME Good, NoReceiptYet, [Next]_vars PROVE OneReceipt
  OBVIOUS
<1> USE BillingAssumption
<1>0. TypeOK /\ order \in [Orders -> OrderRow]
  BY DEF Good, TypeOK
<1>1. CASE \/ Tick \/ BeginReminders \/ UNCHANGED vars \/ DowngradeExpired
           \/ Cancel \/ Activate \/ MarkReminded
           \/ \E t \in Transfers : MakeTransfer(t)
           \/ \E h \in Handlers, t \in Transfers : FindOrder(h, t)
           \/ \E h \in Handlers, g \in Grants : BeginGrant(h, g)
           \/ \E h \in Handlers : BeginActivation(h) \/ Die(h)
  <2>1. order' = order
    BY <1>1 DEF Tick, BeginReminders, vars, DowngradeExpired, Cancel, Activate,
         MarkReminded, MakeTransfer, FindOrder, BeginGrant, BeginActivation, Die
  <2> QED
    BY <2>1 DEF OneReceipt
<1>2. ASSUME \/ CleanupExpiredOrders
             \/ \E o \in Checkouts, p \in Plans : CreateCheckout(o, p)
             \/ \E h \in Handlers, p \in Plans : GrantManual(h, p)
      PROVE  \A x \in Orders : order'[x].txn = order[x].txn
  <2>1. CASE CleanupExpiredOrders
    BY <1>0, <2>1 DEF CleanupExpiredOrders, NoOrder, NoReceiptYet
  <2>2. ASSUME NEW o \in Checkouts, NEW p \in Plans, CreateCheckout(o, p)
        PROVE  \A x \in Orders : order'[x].txn = order[x].txn
    BY <1>0, <2>2 DEF CreateCheckout, NoOrder, NoReceiptYet, Orders
  <2>3. ASSUME NEW h \in Handlers, NEW p \in Plans, GrantManual(h, p)
        PROVE  \A x \in Orders : order'[x].txn = order[x].txn
    <3>1. hook[h].for \in Orders /\ order[hook[h].for].status = "NONE"
      BY <1>0, <2>3, RequestFields DEF GrantManual, Orders, Good, RequestsSound, GrantsUnmade
    <3>2. order[hook[h].for].txn = None
      BY <3>1 DEF NoReceiptYet
    <3> QED
      BY <1>0, <2>3, <3>1, <3>2 DEF GrantManual
  <2> QED
    BY <1>2, <2>1, <2>2, <2>3
<1>3. ASSUME NEW h \in Handlers, Underpaid(h) \/ ActivateOrder(h)
      PROVE  OneReceipt
  <2>1. hook[h].for \in Transfers /\ For[hook[h].for] \in Orders
    BY <1>0, <1>3, RequestFields DEF Underpaid, ActivateOrder, Orders
  <2>2. PICK o \in Orders : o = For[hook[h].for]
    BY <2>1
  <2>3. \A x \in Orders : x # o => order'[x] = order[x]
    BY <1>0, <1>3, <2>2 DEF Underpaid, ActivateOrder
  <2>4. \/ order' = order
        \/ order[o].status = "PENDING" /\ order'[o].txn = hook[h].for
    <3>1. \/ order' = order
          \/ /\ order[o].status = "PENDING"
             /\ \/ order' = [order EXCEPT ![o].status = "FAILED", ![o].txn = hook[h].for]
                \/ order' = [order EXCEPT ![o] = [order[o] EXCEPT !.status = "FAILED",
                               !.txn = hook[h].for, !.paidAt = hook[h].now]]
                \/ order' = [order EXCEPT ![o] = [order[o] EXCEPT !.status = "PAID",
                               !.txn = hook[h].for, !.paidAt = hook[h].now,
                               !.periodEnd = hook[h].now + Days[order[o].plan]]]
      BY <1>3, <2>2 DEF Underpaid, ActivateOrder
    <3> QED
      BY <1>0, <3>1 DEF OrderRow
  <2>5. clock' = clock
    BY <1>3 DEF Underpaid, ActivateOrder
  <2> QED
    BY <2>1, <2>3, <2>4, <2>5 DEF OneReceipt
<1> QED
  BY <1>1, <1>2, <1>3 DEF Next, OneReceipt

LEMMA ReceiptsSame ==
  ASSUME \A x \in Orders : order'[x].txn = order[x].txn
  PROVE  Receipts' = Receipts
<1> DEFINE S == {x \in Orders : order[x].txn # None}
<1>1. S' = S
  OBVIOUS
<1>2. Receipts' = [o \in S' |-> order'[o].txn]
  BY DEF Receipts
<1>3. Receipts = [o \in S |-> order[o].txn]
  BY DEF Receipts
<1>4. \A o \in S : order'[o].txn = order[o].txn
  OBVIOUS
<1> HIDE DEF S
<1> QED
  BY <1>1, <1>2, <1>3, <1>4

\* An order that waited for money gets its receipt.
LEMMA ReceiptEntered ==
  ASSUME NEW o \in Orders, order[o].txn = None, order'[o].txn \in Transfers,
         \A x \in Orders : x # o => order'[x].txn = order[x].txn
  PROVE  /\ o \notin DOMAIN Receipts /\ o \in DOMAIN Receipts'
         /\ Receipts' = Sale!Entered(Receipts, o, order'[o].txn)
<1> DEFINE S == {x \in Orders : order[x].txn # None}
<1>1. order'[o].txn # None
  BY BillingAssumption
<1>2. o \notin S /\ S' = S \cup {o}
  BY <1>1
<1>3. Receipts' = [x \in S' |-> order'[x].txn]
  BY DEF Receipts
<1>4. Receipts = [x \in S |-> order[x].txn]
  BY DEF Receipts
<1>5. \A x \in S : order'[x].txn = order[x].txn
  OBVIOUS
<1> HIDE DEF S
<1> QED
  BY <1>2, <1>3, <1>4, <1>5 DEF Sale!Entered

LEMMA SaleSame ==
  ASSUME PeriodsSame
  PROVE  Periods' = Periods
<1>1. Paid' = Paid
  <2>1. Paid' = {o \in Orders : order'[o].status = "PAID"}
    BY DEF Paid
  <2>2. \A o \in Orders : order'[o].status = "PAID" <=> order[o].status = "PAID"
    BY DEF PeriodsSame
  <2> QED
    BY <2>1, <2>2, Zenon DEF Paid
<1>2. \A o \in Paid : order'[o] = order[o]
  BY DEF PeriodsSame, Paid
<1>3. Periods' = [o \in Paid' |-> [from |-> order'[o].paidAt, to |-> order'[o].periodEnd]]
  BY DEF Periods
<1>4. Periods = [o \in Paid |-> [from |-> order[o].paidAt, to |-> order[o].periodEnd]]
  BY DEF Periods
<1> QED
  BY <1>1, <1>2, <1>3, <1>4

LEMMA SaleOpened ==
  ASSUME Good, PeriodInv, NEW o \in Orders, NEW from \in Nat, NEW days \in Lengths,
         Opens(o, from, days)
  PROVE  /\ o \notin DOMAIN Periods /\ o \in DOMAIN Periods'
         /\ from \in 0..clock
         /\ \A x \in DOMAIN Periods : Periods[x].to <= from
         /\ Periods' = Sale!Entered(Periods, o, [from |-> from, to |-> from + days])
<1>1. o \notin Paid /\ Paid' = Paid \cup {o} /\ \A x \in Paid : order'[x] = order[x]
  BY DEF Opens, Paid
<1>2. order'[o].paidAt = from /\ order'[o].periodEnd = from + days
  BY DEF Opens
<1>3. Periods' = [x \in Paid' |-> [from |-> order'[x].paidAt, to |-> order'[x].periodEnd]]
  BY DEF Periods
<1>4. Periods = [x \in Paid |-> [from |-> order[x].paidAt, to |-> order[x].periodEnd]]
  BY DEF Periods
<1>5. Periods' = Sale!Entered(Periods, o, [from |-> from, to |-> from + days])
  BY <1>1, <1>2, <1>3, <1>4 DEF Sale!Entered
<1>6. \A x \in Paid : order[x].periodEnd <= from
  <2>1. \A x \in Paid : order[x].periodEnd \in Nat
    BY DEF Good, TypeOK, Paid, OrderRow
  <2>2. sub.expiresAt \in Nat /\ sub.expiresAt <= from
    BY DEF Good, TypeOK, Subscription, Opens, RunsAt
  <2> QED
    BY <2>1, <2>2 DEF PeriodInv, PeriodsOpen
<1>7. from \in 0..clock
  BY DEF Opens, Good, TypeOK, Time
<1> QED
  BY <1>1, <1>3, <1>4, <1>5, <1>6, <1>7

\* The subscription runs exactly while a period that was sold lasts.
RunsWhileSold == RunsAt(clock) = Sale!Covered(Periods, clock)

LEMMA SaleCovers == Good /\ PeriodInv => RunsWhileSold
<1> SUFFICES ASSUME Good, PeriodInv PROVE RunsWhileSold
  OBVIOUS
<1>1. AccessIsPaid
  BY PeriodsCover
<1>2. Periods = [o \in Paid |-> [from |-> order[o].paidAt, to |-> order[o].periodEnd]]
  BY DEF Periods
<1>3. Sale!Covered(Periods, clock)
        <=> \E o \in Paid : order[o].paidAt <= clock /\ clock < order[o].periodEnd
  BY <1>2 DEF Sale!Covered
<1>4. RunsAt(clock) <=> Sale!Covered(Periods, clock)
  BY <1>1, <1>3 DEF AccessIsPaid
<1>5. RunsAt(clock) \in BOOLEAN
  BY DEF RunsAt
<1>6. Sale!Covered(Periods, clock) \in BOOLEAN
  BY DEF Sale!Covered
<1> QED
  BY <1>4, <1>5, <1>6 DEF RunsWhileSold

LEMMA SaleInit == Init => Sale!Init
<1> SUFFICES ASSUME Init PROVE Sale!Init
  OBVIOUS
<1>1. Paid = {} /\ {x \in Orders : order[x].txn # None} = {}
  BY DEF Init, Paid, NoOrder
<1>2. Periods = <<>> /\ Receipts = <<>>
  BY <1>1 DEF Periods, Receipts
<1>3. clock = 0 /\ RunsAt(clock) = FALSE
  BY DEF Init, RunsAt, NoSubscription
<1> QED
  BY <1>2, <1>3 DEF Sale!Init

\* A period is sold to an order that is settled by it.
LEMMA SaleSells ==
  ASSUME Good, PeriodInv, NoReceiptYet, OneReceipt, Good', PeriodInv',
         NEW o \in Orders, NEW from \in Nat, NEW days \in Lengths,
         Opens(o, from, days), Moves(o)
  PROVE  Sale!Next
<1>1. order[o].txn = None
  BY DEF Opens, Moves, NoReceiptYet
<1>2. /\ o \notin DOMAIN Periods /\ o \in DOMAIN Periods' /\ from \in 0..clock
      /\ \A x \in DOMAIN Periods : Periods[x].to <= from
      /\ Periods' = Sale!Entered(Periods, o, [from |-> from, to |-> from + days])
  BY SaleOpened
<1>3. clock' = clock /\ \A x \in Orders : x # o => order'[x] = order[x]
  BY DEF Opens
<1>4. RunsAt(clock)' = Sale!Covered(Periods', clock)
  <2>1. RunsWhileSold'
    BY SaleCovers, PTL
  <2> QED
    BY <2>1, <1>3 DEF RunsWhileSold
<1>5. Sale!Open(o, from, days)
  BY <1>2, <1>3, <1>4 DEF Sale!Open
<1>6. o \notin DOMAIN Receipts
  BY <1>1 DEF Receipts
<1>7. Sale!Record(o) \/ UNCHANGED Receipts
  <2>1. CASE \A x \in Orders : order'[x].txn = order[x].txn
    BY <2>1, ReceiptsSame
  <2>2. ASSUME NEW y \in Orders, order[y].status = "PENDING", order'[y].txn \in Transfers
        PROVE  Sale!Record(o)
    <3>1. order[y].txn = None /\ order'[y].txn # None
      BY <2>2, BillingAssumption DEF NoReceiptYet
    <3>2. y = o
      BY <3>1, <1>3
    <3>3. Receipts' = Sale!Entered(Receipts, o, order'[o].txn)
      BY <1>1, <1>3, <2>2, <3>2, ReceiptEntered
    <3> QED
      BY <2>2, <3>2, <3>3 DEF Sale!Record
  <2> QED
    BY <2>1, <2>2 DEF OneReceipt
<1>8. Sale!Sell(o)
  BY <1>2, <1>5, <1>7 DEF Sale!Sell
<1>9. o \in Sale!Settled' /\ o \notin Sale!Settled
  BY <1>2, <1>6 DEF Sale!Settled
<1> QED
  BY <1>8, <1>9 DEF Sale!Next

\* Time passes, money is refused, or nothing is sold and nothing recorded.
LEMMA SaleWaits ==
  ASSUME Good, PeriodInv, NoReceiptYet, OneReceipt, Good', PeriodInv', PeriodsSame,
         clock' = clock \/ clock' = clock + 1
  PROVE  [Sale!Next]_(Sale!accessVars)
<1>1. Periods' = Periods
  BY SaleSame
<1>2. CASE clock' = clock /\ \A x \in Orders : order'[x].txn = order[x].txn
  <2>1. Receipts' = Receipts
    BY <1>2, ReceiptsSame
  <2>2. RunsAt(clock)' = RunsAt(clock)
    BY <1>2 DEF PeriodsSame, RunsAt
  <2> QED
    BY <1>1, <1>2, <2>1, <2>2 DEF Sale!accessVars
<1>3. CASE clock' = clock + 1 /\ \A x \in Orders : order'[x].txn = order[x].txn
  <2>1. Receipts' = Receipts
    BY <1>3, ReceiptsSame
  <2>2. RunsWhileSold'
    BY SaleCovers, PTL
  <2>3. Sale!Pass
    BY <1>1, <1>3, <2>1, <2>2 DEF Sale!Pass, RunsWhileSold
  <2> QED
    BY <2>3 DEF Sale!Next
<1>4. ASSUME NEW o \in Orders, order[o].status = "PENDING", order'[o].txn \in Transfers,
             clock' = clock, \A x \in Orders : x # o => order'[x].txn = order[x].txn
      PROVE  Sale!Next
  <2>1. order[o].txn = None /\ o \notin DOMAIN Periods
    BY <1>4 DEF NoReceiptYet, Periods, Paid
  <2>2. /\ o \notin DOMAIN Receipts /\ o \in DOMAIN Receipts'
        /\ Receipts' = Sale!Entered(Receipts, o, order'[o].txn)
    BY <1>4, <2>1, ReceiptEntered
  <2>3. RunsAt(clock)' = RunsAt(clock)
    BY <1>4 DEF PeriodsSame, RunsAt
  <2>4. Sale!Refuse(o)
    BY <1>1, <1>4, <2>2, <2>3 DEF Sale!Refuse, Sale!Record
  <2>5. o \in Sale!Settled' /\ o \notin Sale!Settled
    BY <2>1, <2>2 DEF Sale!Settled
  <2> QED
    BY <2>4, <2>5 DEF Sale!Next
<1> QED
  BY <1>2, <1>3, <1>4 DEF OneReceipt

\* Billing sells periods: whatever races, repeats, dies or is cleaned up, only a payment
\* or a grant opens a period, none is ever shortened or withdrawn, what was received is
\* recorded once and for good, and access follows from what was sold.
THEOREM AccessImplemented == Spec => ImplementsAccess
<1> DEFINE I == Good /\ PeriodInv /\ NoReceiptYet
<1>1. Spec => []I
  BY PeriodAlways, ReceiptInit, ReceiptStep, PTL DEF Spec
<1>2. I /\ I' /\ [Next]_vars => [Sale!Next]_(Sale!accessVars)
  <2> SUFFICES ASSUME I, I', [Next]_vars PROVE [Sale!Next]_(Sale!accessVars)
    OBVIOUS
  <2>1. OneReceipt /\ \A o \in Orders : Moves(o)
    BY OneReceiptStep, OrderMoves
  <2>2. clock' = clock \/ clock' = clock + 1
    BY DEF Next, Tick, CreateCheckout, CleanupExpiredOrders, MakeTransfer, FindOrder,
           BeginGrant, Underpaid, BeginActivation, ActivateOrder, GrantManual, Die,
           DowngradeExpired, Cancel, Activate, BeginReminders, MarkReminded, vars
  <2> QED
    BY <2>1, <2>2, OpenStep, SaleSells, SaleWaits
<1> QED
  BY <1>1, <1>2, SaleInit, PTL DEF Spec, ImplementsAccess, Sale!Spec

-----------------------------------------------------------------------------
(* Answers to SePay.                                                         *)

\* The order of a transfer was made before it; a webhook has a transfer.
Delivered ==
  /\ \A t \in Transfers : bank[t] # "none" => order[For[t]].status # "NONE"
  /\ \A h \in Handlers : hook[h].at \in {"found", "paying"} =>
                           bank[hook[h].for] # "none"

AnswerInv == Delivered /\ AnsweredIsSettled

LEMMA AnswerInit == Init => AnswerInv
  BY DEF Init, AnswerInv, Delivered, AnsweredIsSettled, Idle

\* A step that does not answer SePay.
LEMMA AnswersKept ==
  ASSUME Good, AnswerInv, \A o \in Orders : Moves(o), bank' = bank,
         \A h \in Handlers : hook'[h].at \in {"found", "paying"} =>
                             bank[hook'[h].for] # "none"
  PROVE  AnswerInv'
<1>1. \A t \in Transfers : Moves(For[t])
  BY BillingAssumption DEF Orders
<1> QED
  BY <1>1 DEF Moves, AnswerInv, Delivered, AnsweredIsSettled

\* A step that answers, or does not answer, the transfer t it has dealt with.
LEMMA AnswerSent ==
  ASSUME Good, AnswerInv, \A o \in Orders : Moves(o),
         NEW t \in Transfers, Answer(t), bank[t] # "none",
         order'[For[t]].status # "PENDING",
         \A h \in Handlers : hook'[h] = hook[h] \/ hook'[h] = Idle
  PROVE  AnswerInv'
<1>1. \A s \in Transfers : Moves(For[s])
  BY BillingAssumption DEF Orders
<1>2. \A s \in Transfers : bank'[s] = bank[s] \/ (s = t /\ bank'[s] = "answered")
  <2>1. bank \in [Transfers -> {"none", "sent", "answered"}]
    BY DEF Good, TypeOK
  <2>2. bank' = bank \/ bank' = [bank EXCEPT ![t] = "answered"]
    BY DEF Answer
  <2> QED
    BY <2>1, <2>2
<1>3. \A s \in Transfers : bank[s] # "none" => bank'[s] # "none"
  BY <1>2
<1>4. \A s \in Transfers : bank'[s] # "none" => bank[s] # "none"
  BY <1>2
<1>5. \A h \in Handlers : hook'[h].at \in {"found", "paying"} =>
                          hook'[h] = hook[h] /\ hook[h].for \in Transfers
  <2> SUFFICES ASSUME NEW h \in Handlers, hook'[h].at \in {"found", "paying"}
               PROVE  hook'[h] = hook[h] /\ hook[h].for \in Transfers
    OBVIOUS
  <2>1. hook'[h] = hook[h]
    BY DEF Idle
  <2> QED
    BY <2>1, RequestFields DEF Good
<1>6. Delivered'
  BY <1>1, <1>3, <1>4, <1>5 DEF Moves, AnswerInv, Delivered
<1>7. AnsweredIsSettled'
  <2> SUFFICES ASSUME NEW s \in Transfers, bank'[s] = "answered"
               PROVE  order'[For[s]].status # "PENDING"
    BY DEF AnsweredIsSettled
  <2>1. CASE s = t
    BY <2>1
  <2>2. CASE bank[s] = "answered"
    BY <1>1, <2>2 DEF Moves, AnswerInv, Delivered, AnsweredIsSettled
  <2> QED
    BY <1>2, <2>1, <2>2
<1> QED
  BY <1>6, <1>7 DEF AnswerInv

LEMMA AnswerStep == Good /\ AnswerInv /\ [Next]_vars => AnswerInv'
<1> SUFFICES ASSUME Good, AnswerInv, [Next]_vars PROVE AnswerInv'
  OBVIOUS
<1> USE BillingAssumption
<1>0. /\ TypeOK /\ Delivered /\ hook \in [Handlers -> Request \cup {Idle}]
      /\ \A o \in Orders : Moves(o)
  BY OrderMoves DEF Good, TypeOK, AnswerInv
<1>1. CASE bank' = bank /\ hook' = hook
  BY <1>0, <1>1, AnswersKept DEF Delivered
<1>2. CASE \/ Tick \/ BeginReminders \/ UNCHANGED vars \/ DowngradeExpired
           \/ Cancel \/ Activate \/ MarkReminded \/ CleanupExpiredOrders
           \/ \E o \in Checkouts, p \in Plans : CreateCheckout(o, p)
  BY <1>1, <1>2 DEF Tick, BeginReminders, vars, DowngradeExpired, Cancel, Activate,
       MarkReminded, CleanupExpiredOrders, CreateCheckout
<1>3. ASSUME NEW t \in Transfers, MakeTransfer(t)
      PROVE  AnswerInv'
  <2>1. /\ bank' = [bank EXCEPT ![t] = "sent"] /\ order' = order /\ hook' = hook
        /\ bank[t] = "none" /\ order[For[t]].status # "NONE"
    BY <1>3 DEF MakeTransfer
  <2>2. \A s \in Transfers : bank'[s] = IF s = t THEN "sent" ELSE bank[s]
    BY <1>0, <2>1 DEF TypeOK
  <2>3. \A h \in Handlers : hook[h].at \in {"found", "paying"} =>
                            hook[h].for \in Transfers
    BY <1>0, RequestFields
  <2> QED
    BY <1>0, <2>1, <2>2, <2>3 DEF AnswerInv, Delivered, AnsweredIsSettled
<1>4. ASSUME NEW h \in Handlers, NEW t \in Transfers, FindOrder(h, t)
      PROVE  AnswerInv'
  <2>1. CASE order[For[t]].status = "PENDING"
    <3>1. /\ hook' = [hook EXCEPT ![h] = [at |-> "found", for |-> t, now |-> 0]]
          /\ bank' = bank /\ bank[t] # "none"
      BY <1>4, <2>1 DEF FindOrder
    <3>2. \A i \in Handlers : hook'[i].at \in {"found", "paying"} =>
                              bank[hook'[i].for] # "none"
      BY <1>0, <3>1 DEF Delivered
    <3> QED
      BY <1>0, <3>1, <3>2, AnswersKept
  <2>2. CASE order[For[t]].status # "PENDING"
    BY <1>0, <1>4, <2>2, AnswerSent DEF FindOrder
  <2> QED
    BY <2>1, <2>2
<1>5. CASE \/ \E h \in Handlers, g \in Grants : BeginGrant(h, g)
           \/ \E h \in Handlers : Die(h)
           \/ \E h \in Handlers, p \in Plans : GrantManual(h, p)
  <2>1. /\ bank' = bank
        /\ \E h \in Handlers : \/ hook' = [hook EXCEPT ![h] = Idle]
                               \/ \E g : hook' = [hook EXCEPT ![h] =
                                    [at |-> "granting", for |-> g, now |-> clock]]
    BY <1>5 DEF BeginGrant, Die, GrantManual, Free
  <2>2. \A i \in Handlers : hook'[i].at \in {"found", "paying"} => hook'[i] = hook[i]
    BY <1>0, <2>1 DEF Idle
  <2>3. \A i \in Handlers : hook'[i].at \in {"found", "paying"} =>
                            bank[hook'[i].for] # "none"
    BY <1>0, <2>2 DEF Delivered
  <2> QED
    BY <1>0, <2>1, <2>3, AnswersKept
<1>6. ASSUME NEW h \in Handlers, BeginActivation(h)
      PROVE  AnswerInv'
  <2>1. hook[h] \in [at : {"found", "paying"}, for : Transfers, now : Time]
    BY <1>0, <1>6, RequestFields DEF BeginActivation
  <2>2. /\ hook' = [hook EXCEPT ![h] = [hook[h] EXCEPT !.at = "paying", !.now = clock]]
        /\ bank' = bank /\ bank[hook[h].for] # "none"
    BY <1>0, <1>6 DEF BeginActivation, Delivered
  <2>3. hook'[h].for = hook[h].for
    BY <1>0, <2>1, <2>2
  <2>4. \A i \in Handlers : i # h => hook'[i] = hook[i]
    BY <1>0, <2>2
  <2> QED
    BY <1>0, <2>2, <2>3, <2>4, AnswersKept DEF Delivered
<1>7. ASSUME NEW h \in Handlers, Underpaid(h) \/ ActivateOrder(h)
      PROVE  AnswerInv'
  <2>1. hook[h].for \in Transfers /\ For[hook[h].for] \in Orders
    BY <1>0, <1>7, RequestFields DEF Underpaid, ActivateOrder, Orders
  <2>2. PICK t \in Transfers : t = hook[h].for
    BY <2>1
  <2>3. bank[t] # "none" /\ Answer(t)
    BY <1>0, <1>7, <2>2 DEF Underpaid, ActivateOrder, Delivered
  <2>4. \A i \in Handlers : hook'[i] = hook[i] \/ hook'[i] = Idle
    BY <1>0, <1>7 DEF Underpaid, ActivateOrder, Free
  <2>5. order'[For[t]].status # "PENDING"
    <3>1. PICK o \in Orders : o = For[t]
      BY <2>1, <2>2
    <3>2. CASE Underpaid(h)
      BY <1>0, <2>2, <3>1, <3>2 DEF Underpaid, TypeOK, OrderRow
    <3>3. CASE ActivateOrder(h)
      BY <1>0, <2>2, <3>1, <3>3, ActivationSettles
    <3> QED
      BY <1>7, <3>2, <3>3
  <2> QED
    BY <1>0, <2>2, <2>3, <2>4, <2>5, AnswerSent
<1> QED
  BY <1>2, <1>3, <1>4, <1>5, <1>6, <1>7 DEF Next

(* Once SePay has its answer, the order of the transfer waits for no money.  *)
THEOREM AnsweredAlwaysSettled == Spec => []AnsweredIsSettled
<1>1. AnswerInv => AnsweredIsSettled
  BY DEF AnswerInv
<1> QED
  BY <1>1, GoodAlways, AnswerInit, AnswerStep, PTL DEF Spec
=============================================================================
