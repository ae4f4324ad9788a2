------------------------------- MODULE CvOffer -------------------------------
(* What a user gets for a CV, with no jobs, no attempts, no locks and no     *)
(* crons: one verdict; one set of questions, if the CV is suitable, for as   *)
(* long as the CV is kept; interviews from that set; and one charge at most, *)
(* for the set that was delivered.  MockCvAnalysis is shown to implement     *)
(* this module, with the liberty to RemoveAnyway.                            *)
CONSTANT Verdicts

VARIABLES stage,     \* "absent", "uploading", "pending", a verdict, or "removed"
          questions, \* the questions are stored
          due,       \* they were delivered, and what they cost is to be paid
          interview, \* an interview is running
          credit     \* "none", "PENDING" when held, or "CONSUMED"

offerVars == <<stage, questions, due, interview, credit>>

Init ==
  /\ stage = "absent" /\ credit = "none"
  /\ questions = FALSE /\ due = FALSE /\ interview = FALSE

\* The credits are held before anything is stored.
Apply ==
  /\ stage = "absent" /\ credit = "none"
  /\ stage' = "uploading" /\ credit' = "PENDING"
  /\ UNCHANGED <<questions, due, interview>>

Upload ==
  /\ stage = "uploading"
  /\ stage' \in {"pending", "removed"}
  /\ UNCHANGED <<questions, due, interview, credit>>

Decide(verdict) ==
  /\ stage = "pending"
  /\ stage' = verdict
  /\ UNCHANGED <<questions, due, interview, credit>>

Deliver ==
  /\ stage = "READY" /\ ~ questions
  /\ questions' = TRUE /\ due' = TRUE
  /\ UNCHANGED <<stage, interview, credit>>

Hold ==
  /\ stage \notin {"absent", "uploading"}
  /\ credit = "none" /\ credit' = "PENDING"
  /\ UNCHANGED <<stage, questions, due, interview>>

GiveBack ==
  /\ credit = "PENDING" /\ credit' = "none"
  /\ UNCHANGED <<stage, questions, due, interview>>

Pay ==
  /\ due /\ due' = FALSE
  /\ credit = "PENDING" /\ credit' = "CONSUMED"
  /\ UNCHANGED <<stage, questions, interview>>

\* Nothing is held any more, or whoever was to charge it is gone.
Waive ==
  /\ due /\ due' = FALSE
  /\ UNCHANGED <<stage, questions, interview, credit>>

Open ==
  /\ questions /\ ~ interview
  /\ interview' = TRUE
  /\ UNCHANGED <<stage, questions, due, credit>>

HandIn ==
  /\ interview
  /\ interview' = FALSE
  /\ UNCHANGED <<stage, questions, due, credit>>

\* The CV goes, with its questions and the interviews from them.
RemoveAnyway ==
  /\ stage \in Verdicts \cup {"pending"}
  /\ stage' = "removed" /\ questions' = FALSE /\ interview' = FALSE
  /\ UNCHANGED <<due, credit>>

Remove == ~ interview /\ RemoveAnyway

Next ==
  \/ Apply \/ Upload \/ Deliver \/ Hold \/ GiveBack \/ Pay \/ Waive
  \/ Open \/ HandIn \/ Remove
  \/ \E verdict \in Verdicts : Decide(verdict)

Spec == Init /\ [][Next]_offerVars

LooseNext == Next \/ RemoveAnyway

LooseSpec == Init /\ [][LooseNext]_offerVars
=============================================================================
