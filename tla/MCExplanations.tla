---------------------------- MODULE MCExplanations ----------------------------
(* Instances of Explanations for TLC: two users and two texts.               *)
EXTENDS Explanations

CONSTANTS alice, bob, key1, key2, none

TwoUsers == {alice, bob}
TwoKeys == {key1, key2}

\* Users and texts are interchangeable, so alice asks first, and for key1.
AliceAsked ==
  /\ at = [u \in Users |-> IF u = alice THEN "claim" ELSE "idle"]
  /\ about = [u \in Users |-> IF u = alice THEN key1 ELSE None]
  /\ asks = 1

\* A later start: bob had key2 explained before.  The recovery had failed the term
\* and given back his credit when his worker stored it after all.
KeyTwoStored ==
  LET Only(t, value, other) == [s \in Terms |-> IF s = t THEN value ELSE other]
      Nothing(value) == [u \in Users |-> Only(1, value, value)]
  IN /\ status = Only(1, "READY", "absent")
     /\ key = Only(1, key2, None) /\ text = Only(1, key2, None)
     /\ owner = Only(1, bob, None) /\ into = Only(1, None, None)
     /\ alias = [k \in Keys |-> None]
     /\ rsv = [Nothing("none") EXCEPT ![bob][1] = "RELEASED"]
     /\ used = [u \in Users |-> 0] /\ reserved = [u \in Users |-> 0]
     /\ overtaken = {}
     /\ job = Nothing("none") /\ gen = Nothing("idle") /\ answer = Nothing(NoAnswer)
     /\ rec = Only(1, AtRest, AtRest)
     /\ exp = Nothing(FALSE)
     /\ faults = 0

TwoInit == (NothingKnown /\ AliceAsked) \/ (KeyTwoStored /\ NobodyAsked)
TwoStarts == TwoInit /\ [][Next]_vars /\ Fairness
=============================================================================
