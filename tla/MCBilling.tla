------------------------------ MODULE MCBilling ------------------------------
(* Instances of Billing for TLC: two orders and a manual grant.  The first   *)
(* order gets a short and a full transfer, the second a full one.            *)
EXTENDS Billing, TLC

CONSTANTS first, second, gift, part, whole, other, request1, request2,
          basic, none

TwoCheckouts == {first, second}
OneGrant == {gift}
ThreeTransfers == {part, whole, other}
TransferFor == [t \in ThreeTransfers |-> IF t = other THEN second ELSE first]
ShortTransfers == {part}
TwoHandlers == {request1, request2}
HandlerSymmetry == Permutations(TwoHandlers)
OnePlan == {basic}
PlanDays == [p \in OnePlan |-> 1]

\* One order is enough for the reminders.
OneCheckout == {first}
OneTransfer == {whole}
OneFor == [t \in OneTransfer |-> first]
NoShort == {}
OneHandler == {request1}
=============================================================================
