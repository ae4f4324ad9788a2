----------------------------- MODULE MCAiCredits -----------------------------
(* Instances of AiCredits for TLC: an answer (1 credit) and a mock overview  *)
(* (2 credits) of one user, whose free cycle pays for one or the other.      *)
EXTENDS AiCredits

CONSTANTS answer, overview, worker, http, cron, order, none

Price(k) == IF k = answer THEN 1 ELSE 2
BothKeys == {answer, overview}
BothCost == [k \in BothKeys |-> Price(k)]
OverviewKeys == {overview}
OverviewCost == [k \in OverviewKeys |-> Price(k)]
MCOrders == {order}

\* An extension that asks for nothing, and one that covers an interview.
MCMinimums == {0, 2}

\* A worker and the cron that may settle the same keys.
TwoSettlers == {worker, cron}
SharedScope == [s \in TwoSettlers |-> BothKeys]

\* A worker, a request and the cron, all after one key.
ThreeSettlers == {worker, http, cron}
OverviewScope == [s \in ThreeSettlers |-> OverviewKeys]
=============================================================================
