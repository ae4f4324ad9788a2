------------------------------ MODULE Interview ------------------------------
(* What an interview promises its candidate, with no jobs, no requests, no   *)
(* retries of calls and no locks: answers are taken until the interview is   *)
(* handed in, once and for good; only what was answered is scored, and a     *)
(* score is not lost; the result consists of scores, and is decided once.    *)
(* Only somebody who asks for a retry of scoring can have a result withdrawn. *)
(* MockInterview and MockCvInterview are shown to implement this module, the  *)
(* first with a liberty it takes after such a retry: to Revise a result.     *)
CONSTANT Questions

VARIABLES stage,    \* "open", "scoring" or "decided"
          answers,  \* the questions that are answered
          scores,   \* the questions whose answer has a score
          result,   \* the questions whose scores are in the result, if there is one
          asked     \* somebody has asked for a retry of scoring

interviewVars == <<stage, answers, scores, result, asked>>

Init ==
  /\ stage = "open" /\ answers = {} /\ scores = {} /\ result = {}
  /\ asked = FALSE

Answer(q) ==
  /\ stage = "open" /\ q \notin answers
  /\ answers' = answers \cup {q}
  /\ UNCHANGED <<stage, scores, result, asked>>

HandIn ==
  /\ stage = "open"
  /\ stage' = "scoring"
  /\ UNCHANGED <<answers, scores, result, asked>>

Score(q) ==
  /\ stage # "open" /\ q \in answers \ scores
  /\ scores' = scores \cup {q}
  /\ UNCHANGED <<stage, answers, result, asked>>

Decide(s) ==
  /\ stage = "scoring" /\ s \subseteq scores
  /\ stage' = "decided" /\ result' = s
  /\ UNCHANGED <<answers, scores, asked>>

AskRetry ==
  /\ stage # "open"
  /\ asked' = TRUE
  /\ UNCHANGED <<stage, answers, scores, result>>

\* Scoring is taken up again: until it is decided anew there is no result.
Reopen ==
  /\ asked /\ stage = "decided"
  /\ stage' = "scoring" /\ result' = {}
  /\ UNCHANGED <<answers, scores, asked>>

\* A result takes the place of another one.
Revise(s) ==
  /\ asked /\ stage = "decided" /\ s \subseteq scores
  /\ result' = s
  /\ UNCHANGED <<stage, answers, scores, asked>>

Next ==
  \/ HandIn \/ AskRetry \/ Reopen
  \/ \E q \in Questions : Answer(q) \/ Score(q)
  \/ \E s \in SUBSET Questions : Decide(s)

Spec == Init /\ [][Next]_interviewVars

RevisingNext == Next \/ \E s \in SUBSET Questions : Revise(s)

RevisingSteps == [][RevisingNext]_interviewVars
=============================================================================
