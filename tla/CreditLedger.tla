---------------------------- MODULE CreditLedger ----------------------------
(* What the AI credit service promises its callers, with no counters, no     *)
(* clock and no transactions: every reservation key is free, held or         *)
(* charged, the keys held and charged on one credit cycle never cost more    *)
(* than the cycle granted, a charge is final, and a hold ends in a charge or *)
(* gives its credits back.  AiCredits is shown to implement this module.     *)
EXTENDS CreditUnits

CONSTANTS Refs,      \* source references of credit cycles
          NoRef,     \* the cycle of a key that was never reserved
          Grants     \* the credits a cycle can be opened with

VARIABLES state,     \* state[k]: "free", "held" or "charged"
          on,        \* on[k]: the cycle whose credits k holds or was charged
          grant      \* grant[c]: the credits of cycle c, 0 before it is opened

ledgerVars == <<state, on, grant>>

InUse(c) == {k \in Keys : state[k] # "free" /\ on[k] = c}

Init ==
  /\ state = [k \in Keys |-> "free"]
  /\ on = [k \in Keys |-> NoRef]
  /\ grant = [c \in Refs |-> 0]

\* A cycle is opened with its credits, once.
Open(c, g) ==
  /\ grant[c] = 0
  /\ grant' = [grant EXCEPT ![c] = g]
  /\ UNCHANGED <<state, on>>

\* Credits are held on a cycle that can pay for them; the same step may be the
\* one that opens the cycle.
Hold(k, c, g) ==
  /\ state[k] = "free"
  /\ grant[c] \in {0, g}
  /\ Credits(InUse(c)) + Cost[k] <= g
  /\ state' = [state EXCEPT ![k] = "held"]
  /\ on' = [on EXCEPT ![k] = c]
  /\ grant' = [grant EXCEPT ![c] = g]

Charge(k) ==
  /\ state[k] = "held"
  /\ state' = [state EXCEPT ![k] = "charged"]
  /\ UNCHANGED <<on, grant>>

GiveBack(k) ==
  /\ state[k] = "held"
  /\ state' = [state EXCEPT ![k] = "free"]
  /\ UNCHANGED <<on, grant>>

Next ==
  \/ \E c \in Refs, g \in Grants : Open(c, g)
  \/ \E k \in Keys, c \in Refs, g \in Grants : Hold(k, c, g)
  \/ \E k \in Keys : Charge(k) \/ GiveBack(k)

Spec == Init /\ [][Next]_ledgerVars
=============================================================================
