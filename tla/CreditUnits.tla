----------------------------- MODULE CreditUnits -----------------------------
(* The prices of the AI features (ai-credit-pricing.ts) and sums of them.    *)
(* A sum of prices is the size of a set: a key stands for as many credit     *)
(* units <<key, i>> as its feature costs.                                    *)
EXTENDS Integers, FiniteSets

CONSTANTS Keys,      \* idempotency keys of credit reservations, of one user
          Cost,      \* Cost[k]: the credits the feature of key k costs
          MaxCost    \* the dearest feature

ASSUME CostAssumption ==
  /\ IsFiniteSet(Keys)
  /\ MaxCost \in Nat
  /\ Cost \in [Keys -> 1..MaxCost]

Units(K) == {u \in K \X (1..MaxCost) : u[2] <= Cost[u[1]]}

\* What the keys of K cost together.
Credits(K) == Cardinality(Units(K))
=============================================================================
