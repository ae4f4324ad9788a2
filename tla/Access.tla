-------------------------------- MODULE Access --------------------------------
(* What a user is sold, with no requests, no locks, no crons and no row that *)
(* is used again: periods of access, each opened by an order when those      *)
(* before it have ended, and never taken back; one receipt at most for each  *)
(* order, kept for good; access exactly while a period lasts.  Billing is    *)
(* shown to implement this module.                                           *)
EXTENDS Integers

CONSTANTS Transfers,
          Lengths   \* the lengths of the periods that are sold

VARIABLES now,
          periods,  \* the periods that were sold, by order
          receipts, \* the transfers that were recorded, by order
          access    \* the user has a running subscription

accessVars == <<now, periods, receipts, access>>

Covered(sold, t) == \E o \in DOMAIN sold : sold[o].from <= t /\ t < sold[o].to

Init == now = 0 /\ periods = <<>> /\ receipts = <<>> /\ access = FALSE

Pass ==
  /\ now' = now + 1
  /\ access' = Covered(periods, now')
  /\ UNCHANGED <<periods, receipts>>

Entered(book, o, entry) ==
  [x \in DOMAIN book \cup {o} |-> IF x = o THEN entry ELSE book[x]]

Record(o) == \E t \in Transfers : receipts' = Entered(receipts, o, t)

\* A period begins now or a while ago, but not before the last one ended.
Open(o, from, length) ==
  /\ \A x \in DOMAIN periods : periods[x].to <= from
  /\ periods' = Entered(periods, o, [from |-> from, to |-> from + length])
  /\ access' = Covered(periods', now)
  /\ UNCHANGED now

\* Paid for, or given.
Sell(o) ==
  /\ \E from \in 0..now, length \in Lengths : Open(o, from, length)
  /\ Record(o) \/ UNCHANGED receipts

\* Money that buys nothing.
Refuse(o) == Record(o) /\ UNCHANGED <<now, periods, access>>

Settled == DOMAIN periods \cup DOMAIN receipts

\* One order at a time is settled, and each of them once.
Next == Pass \/ \E o \in Settled' \ Settled : Sell(o) \/ Refuse(o)

Spec == Init /\ [][Next]_accessVars
=============================================================================
