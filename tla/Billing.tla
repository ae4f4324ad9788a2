------------------------------- MODULE Billing -------------------------------
(* Orders, bank transfers and the subscription of one user: checkout, the    *)
(* SePay webhook, manual grants, the clean-up of old orders, and what admins *)
(* and crons do to the subscription.                                         *)
(*                                                                           *)
(* A transaction that holds the user's billing lock and a single statement   *)
(* are one step.  The order a webhook read, and the `now` a payment, a grant *)
(* or the reminder cron works with, are from earlier steps.                  *)
EXTENDS Integers, FiniteSets

CONSTANTS Checkouts,   \* orders made by createCheckout
          Grants,      \* orders made by grantManual
          Transfers,   \* bank transfers, by transaction id
          For,         \* For[t]: the order whose code is in the content of t
          Short,       \* the transfers of less than the amount of their order
          Handlers,    \* webhook and admin requests in progress at once
          Plans,
          Days,        \* Days[p]: plan.durationDays
          OrderTtl,    \* ORDER_TTL_MS
          Grace,       \* ORDER_CLEANUP_GRACE_MS
          Window,      \* RENEWAL_REMINDER_WINDOW_DAYS
          MaxClock,    \* the bound on the clock
          None         \* null

Orders == Checkouts \cup Grants

ASSUME BillingAssumption ==
  /\ Checkouts \cap Grants = {}
  /\ For \in [Transfers -> Checkouts]
  /\ Short \in SUBSET Transfers
  /\ Days \in [Plans -> Nat \ {0}]
  /\ OrderTtl \in Nat /\ Grace \in Nat /\ Window \in Nat /\ MaxClock \in Nat
  /\ None \notin Nat /\ None \notin Transfers /\ None \notin Plans
  /\ Transfers \cap Grants = {}

VARIABLES clock,    \* new Date()
          order,    \* the orders
          sub,      \* the user's row in subscriptions
          bank,     \* bank[t]: is transfer t made, has SePay been answered
          hook,     \* the requests in progress
          mailing   \* the `now` of the reminder cron while it sends mail

vars == <<clock, order, sub, bank, hook, mailing>>

Time == 0..MaxClock

OrderRow == [status : {"NONE", "PENDING", "PAID", "FAILED", "DELETED"},
             plan : Plans \cup {None}, expiresAt : Nat,
             txn : Transfers \cup {None}, paidAt : Nat, periodEnd : Nat]
NoOrder == [status |-> "NONE", plan |-> None, expiresAt |-> 0, txn |-> None,
            paidAt |-> 0, periodEnd |-> 0]

\* canceledAt is set exactly while the status is CANCELED.
Subscription == [status : {"NONE", "ACTIVE", "EXPIRED", "CANCELED"},
                 startedAt : Nat, expiresAt : Nat, reminded : Nat \cup {None}]
NoSubscription == [status |-> "NONE", startedAt |-> 0, expiresAt |-> 0,
                   reminded |-> None]

Idle == [at |-> "idle"]
Request == [at : {"found", "paying"}, for : Transfers, now : Time]
             \cup [at : {"granting"}, for : Grants, now : Time]

TypeOK ==
  /\ clock \in Time
  /\ order \in [Orders -> OrderRow]
  /\ sub \in Subscription
  /\ bank \in [Transfers -> {"none", "sent", "answered"}]
  /\ hook \in [Handlers -> Request \cup {Idle}]
  /\ mailing \in Time \cup {None}

Init ==
  /\ clock = 0
  /\ order = [o \in Orders |-> NoOrder]
  /\ sub = NoSubscription
  /\ bank = [t \in Transfers |-> "none"]
  /\ hook = [h \in Handlers |-> Idle]
  /\ mailing = None

Tick ==
  /\ clock < MaxClock
  /\ clock' = clock + 1
  /\ UNCHANGED <<order, sub, bank, hook, mailing>>

\* A subscription counts until it ends, whatever its status.
RunsAt(t) == sub.expiresAt > t

-----------------------------------------------------------------------------
(* Checkout.                                                                 *)

\* createCheckout: a pending order of the plan whose QR still counts is
\* returned as it is.
CreateCheckout(o, p) ==
  /\ order[o].status = "NONE"
  /\ ~ RunsAt(clock)
  /\ ~ \E x \in Checkouts : /\ order[x].status = "PENDING"
                            /\ order[x].plan = p
                            /\ order[x].expiresAt > clock
  /\ order' = [order EXCEPT ![o] =
                 [NoOrder EXCEPT !.status = "PENDING", !.plan = p,
                                 !.expiresAt = clock + OrderTtl]]
  /\ UNCHANGED <<clock, sub, bank, hook, mailing>>

\* Mutant: old orders are deleted whatever became of them.
CleanupAll ==
  LET old == {o \in Checkouts : /\ order[o].status \in {"PENDING", "FAILED"}
                                /\ order[o].expiresAt + Grace < clock} IN
  /\ old # {}
  /\ order' = [o \in Orders |->
                 IF o \in old THEN [NoOrder EXCEPT !.status = "DELETED"]
                 ELSE order[o]]
  /\ UNCHANGED <<clock, sub, bank, hook, mailing>>

\* cleanupExpiredOrders.
CleanupExpiredOrders ==
  LET old == {o \in Checkouts : /\ order[o].status = "PENDING"
                                /\ order[o].expiresAt + Grace < clock} IN
  /\ old # {}
  /\ order' = [o \in Orders |->
                 IF o \in old THEN [NoOrder EXCEPT !.status = "DELETED"]
                 ELSE order[o]]
  /\ UNCHANGED <<clock, sub, bank, hook, mailing>>

\* The user pays with the QR of an order, in time or not, once or again.
MakeTransfer(t) ==
  /\ bank[t] = "none"
  /\ order[For[t]].status # "NONE"
  /\ bank' = [bank EXCEPT ![t] = "sent"]
  /\ UNCHANGED <<clock, order, sub, hook, mailing>>

-----------------------------------------------------------------------------
(* handleSepayWebhook.  SePay delivers a transfer until it is answered, and  *)
(* may deliver it again.                                                     *)

Free(h) == hook' = [hook EXCEPT ![h] = Idle]

\* The answer may be lost, or the process die before it is sent.
Answer(t) == bank' \in {bank, [bank EXCEPT ![t] = "answered"]}

\* Mutant: a transfer is only matched with an order whose QR still counts.
FindUnexpired(h, t) ==
  /\ hook[h] = Idle
  /\ bank[t] # "none"
  /\ \/ /\ order[For[t]].status = "PENDING" /\ order[For[t]].expiresAt > clock
        /\ hook' = [hook EXCEPT ![h] = [at |-> "found", for |-> t, now |-> 0]]
        /\ UNCHANGED bank
     \/ /\ order[For[t]].status # "PENDING" \/ order[For[t]].expiresAt <= clock
        /\ Answer(t)
        /\ UNCHANGED hook
  /\ UNCHANGED <<clock, order, sub, mailing>>

\* findOrderFromPayload: an order that is not PENDING, or is no more, is only
\* noted in the audit log.
FindOrder(h, t) ==
  /\ hook[h] = Idle
  /\ bank[t] # "none"
  /\ \/ /\ order[For[t]].status = "PENDING"
        /\ hook' = [hook EXCEPT ![h] = [at |-> "found", for |-> t, now |-> 0]]
        /\ UNCHANGED bank
     \/ /\ order[For[t]].status # "PENDING"
        /\ Answer(t)
        /\ UNCHANGED hook
  /\ UNCHANGED <<clock, order, sub, mailing>>

\* Mutant: the order fails, though something else may have settled it.
UnderpaidAnyOrder(h) ==
  LET t == hook[h].for IN
  /\ hook[h].at = "found" /\ t \in Short
  /\ order' = [order EXCEPT ![For[t]].status = "FAILED"]
  /\ Free(h) /\ Answer(t)
  /\ UNCHANGED <<clock, sub, mailing>>

\* Too little money: the order fails, unless something else settled it.
Underpaid(h) ==
  LET t == hook[h].for
      o == For[t] IN
  /\ hook[h].at = "found" /\ t \in Short
  /\ order' = IF order[o].status = "PENDING"
                THEN [order EXCEPT ![o].status = "FAILED", ![o].txn = t]
                ELSE order
  /\ Free(h) /\ Answer(t)
  /\ UNCHANGED <<clock, sub, mailing>>

\* activateOrder takes `now`, and goes for the billing lock.
BeginActivation(h) ==
  /\ hook[h].at = "found" /\ hook[h].for \notin Short
  /\ hook' = [hook EXCEPT ![h].at = "paying", ![h].now = clock]
  /\ UNCHANGED <<clock, order, sub, bank, mailing>>

\* Mutant: a renewal leaves the status of the row as it is.
RenewedKeepingStatus(now, days) ==
  {[status |-> IF sub.status = "NONE" THEN "ACTIVE" ELSE sub.status,
    startedAt |-> now, expiresAt |-> now + days, reminded |-> None]}

\* The row after a purchase or a grant: a new row starts when its transaction
\* began, which is after `now`, a row used again starts at `now`.
Renewed(now, days) ==
  {[status |-> "ACTIVE", startedAt |-> s, expiresAt |-> now + days,
    reminded |-> None] :
      s \in IF sub.status = "NONE" THEN now..clock ELSE {now}}

\* Mutant: activateOrder does not look at the subscription.
ActivateUnchecked(h) ==
  LET t == hook[h].for
      now == hook[h].now
      days == Days[order[For[t]].plan] IN
  /\ hook[h].at = "paying"
  /\ IF order[For[t]].status = "PENDING"
       THEN /\ order' = [order EXCEPT ![For[t]] =
                 [@ EXCEPT !.status = "PAID", !.txn = t, !.paidAt = now,
                           !.periodEnd = now + days]]
            /\ sub' \in Renewed(now, days)
       ELSE UNCHANGED <<order, sub>>
  /\ Free(h) /\ Answer(t)
  /\ UNCHANGED <<clock, mailing>>

\* The transaction of activateOrder: money that arrives while a subscription
\* runs is left to manual review, any other opens a period.
ActivateOrder(h) ==
  LET t == hook[h].for
      o == For[t]
      now == hook[h].now
      days == Days[order[o].plan] IN
  /\ hook[h].at = "paying"
  /\ \/ /\ order[o].status = "PENDING" /\ RunsAt(now)
        /\ order' = [order EXCEPT ![o] =
                       [@ EXCEPT !.status = "FAILED", !.txn = t, !.paidAt = now]]
        /\ UNCHANGED sub
     \/ /\ order[o].status = "PENDING" /\ ~ RunsAt(now)
        /\ order' = [order EXCEPT ![o] =
                       [@ EXCEPT !.status = "PAID", !.txn = t, !.paidAt = now,
                                 !.periodEnd = now + days]]
        /\ sub' \in Renewed(now, days)
     \/ /\ order[o].status # "PENDING"
        /\ UNCHANGED <<order, sub>>
  /\ Free(h) /\ Answer(t)
  /\ UNCHANGED <<clock, mailing>>

-----------------------------------------------------------------------------
(* grantManual.                                                              *)

BeginGrant(h, g) ==
  /\ hook[h] = Idle
  /\ order[g].status = "NONE"
  /\ \A i \in Handlers : hook[i] # Idle => hook[i].for # g
  /\ hook' = [hook EXCEPT ![h] = [at |-> "granting", for |-> g, now |-> clock]]
  /\ UNCHANGED <<clock, order, sub, bank, mailing>>

\* Refused while a subscription runs.  The days are the plan's, or days of the
\* admin's choice: a plan stands for each.
GrantManual(h, p) ==
  LET g == hook[h].for
      now == hook[h].now
      days == Days[p] IN
  /\ hook[h].at = "granting"
  /\ \/ /\ RunsAt(now)
        /\ UNCHANGED <<order, sub>>
     \/ /\ ~ RunsAt(now)
        /\ order' = [order EXCEPT ![g] =
                       [status |-> "PAID", plan |-> p, expiresAt |-> now,
                        txn |-> None, paidAt |-> now, periodEnd |-> now + days]]
        /\ sub' \in Renewed(now, days)
  /\ Free(h)
  /\ UNCHANGED <<clock, bank, mailing>>

\* A request dies before its statement or transaction commits.
Die(h) ==
  /\ hook[h] # Idle
  /\ Free(h)
  /\ UNCHANGED <<clock, order, sub, bank, mailing>>

-----------------------------------------------------------------------------
(* The subscription.                                                         *)

\* downgradeExpiredSubscriptions.
DowngradeExpired ==
  /\ sub.status = "ACTIVE" /\ sub.expiresAt < clock
  /\ sub' = [sub EXCEPT !.status = "EXPIRED"]
  /\ UNCHANGED <<clock, order, bank, hook, mailing>>

\* Mutant: a cancelled subscription ends at once.
CancelNow ==
  /\ sub.status # "NONE"
  /\ sub' = [sub EXCEPT !.status = "CANCELED", !.expiresAt = clock]
  /\ UNCHANGED <<clock, order, bank, hook, mailing>>

Cancel ==
  /\ sub.status # "NONE"
  /\ sub' = [sub EXCEPT !.status = "CANCELED"]
  /\ UNCHANGED <<clock, order, bank, hook, mailing>>

Activate ==
  /\ sub.status # "NONE"
  /\ sub' = [sub EXCEPT !.status = "ACTIVE"]
  /\ UNCHANGED <<clock, order, bank, hook, mailing>>

\* sendRenewalReminders reads the subscriptions that end soon.
BeginReminders ==
  /\ mailing = None
  /\ sub.status = "ACTIVE"
  /\ RunsAt(clock) /\ sub.expiresAt <= clock + Window
  /\ sub.reminded = None
  /\ mailing' = clock
  /\ UNCHANGED <<clock, order, sub, bank, hook>>

\* The mail is sent and the row marked, or it could not be sent.
MarkReminded ==
  /\ mailing # None
  /\ sub' \in {sub, [sub EXCEPT !.reminded = mailing]}
  /\ mailing' = None
  /\ UNCHANGED <<clock, order, bank, hook>>

-----------------------------------------------------------------------------

Next ==
  \/ Tick
  \/ \E o \in Checkouts, p \in Plans : CreateCheckout(o, p)
  \/ CleanupExpiredOrders
  \/ \E t \in Transfers : MakeTransfer(t)
  \/ \E h \in Handlers, t \in Transfers : FindOrder(h, t)
  \/ \E h \in Handlers, g \in Grants : BeginGrant(h, g)
  \/ \E h \in Handlers :
       \/ Underpaid(h) \/ BeginActivation(h) \/ ActivateOrder(h)
       \/ \E p \in Plans : GrantManual(h, p)
       \/ Die(h)
  \/ DowngradeExpired \/ Cancel \/ Activate
  \/ BeginReminders \/ MarkReminded

Spec == Init /\ [][Next]_vars

-----------------------------------------------------------------------------
(* Properties.                                                               *)

Paid == {o \in Orders : order[o].status = "PAID"}

(* Two payments, two webhooks or a payment and a grant never buy the same    *)
(* time: the periods of paid orders do not overlap, although `now` is read   *)
(* before the billing lock is taken.                                         *)
PeriodsDisjoint ==
  \A o, x \in Paid : o # x => \/ order[o].periodEnd <= order[x].paidAt
                              \/ order[x].periodEnd <= order[o].paidAt

(* The user has a running subscription exactly while a paid order covers the *)
(* present: nothing an admin or a cron does gives or takes time ("Hủy chỉ    *)
(* chặn chu kỳ kế tiếp", subscriptions.service.ts:142).                      *)
AccessIsPaid ==
  RunsAt(clock) <=>
    \E o \in Paid : order[o].paidAt <= clock /\ clock < order[o].periodEnd

(* The row of a subscription that runs is never left EXPIRED, by the         *)
(* downgrade cron or by a purchase that reuses the row.                      *)
RunningNotExpired == RunsAt(clock) => sub.status # "EXPIRED"

(* What an order records of the money it received is kept for reconciliation: *)
(* no later webhook overwrites it, no clean-up deletes it.                   *)
ReceiptKept ==
  [][\A o \in Orders : order[o].txn # None => order'[o].txn = order[o].txn]_vars

(* SePay is never told that a transfer was handled while its order still     *)
(* waits for money: late, short, duplicated or raced, the order is settled.  *)
AnsweredIsSettled ==
  \A t \in Transfers : bank[t] = "answered" => order[For[t]].status # "PENDING"

(* schema.prisma:686 says that renewalReminderSentAt is a reminder sent in   *)
(* the current period, and reset so that the next period is reminded again.  *)
ReminderOfThisPeriod == sub.reminded # None => sub.reminded >= sub.startedAt

(* All of it is a sale of periods, whatever races, repeats, dies or is       *)
(* cleaned up: no step but a payment or a grant opens a period, none         *)
(* shortens one, and an order is settled once.                               *)
Periods ==
  [o \in Paid |-> [from |-> order[o].paidAt, to |-> order[o].periodEnd]]

Receipts == [o \in {x \in Orders : order[x].txn # None} |-> order[o].txn]

Lengths == {Days[p] : p \in Plans}

Sale == INSTANCE Access WITH
  now <- clock, periods <- Periods, receipts <- Receipts, access <- RunsAt(clock)

ImplementsAccess == Sale!Spec
=============================================================================
