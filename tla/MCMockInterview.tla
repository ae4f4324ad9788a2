--------------------------- MODULE MCMockInterview ---------------------------
(* Instances of MockInterview for TLC: two questions, with one upload each or  *)
(* with three uploads of which two race for the first question.                *)
EXTENDS MockInterview

CONSTANTS first, second, upload1, upload2, upload3, none

TwoQuestions == {first, second}
TwoRequests == {upload1, upload3}
ThreeRequests == {upload1, upload2, upload3}
QuestionOf(a) == IF a = upload3 THEN second ELSE first
PairTarget == [a \in TwoRequests |-> QuestionOf(a)]
RaceTarget == [a \in ThreeRequests |-> QuestionOf(a)]

\* The states in which a mock is looked at first.  In all of them the call that
\* creates the timer is behind the mock, or has yet to come; nothing is scored.
Unscored ==
  /\ scored = [q \in Questions |-> FALSE]
  /\ summary = {} /\ stale = FALSE /\ cooling = FALSE
  /\ lock = [q \in Questions |-> None]
  /\ starting = FALSE
  /\ todo = [p \in Enqueuers |-> {}]
  /\ job = [q \in Questions |-> "none"]
  /\ worker = [q \in Questions |-> NoWork]
  /\ retries = 0 /\ crashes = 0

NothingAnswered ==
  /\ session = [q \in Questions |-> None]
  /\ scoring = [q \in Questions |-> "PENDING"]
  /\ at = [p \in Enqueuers |-> "idle"]

\* Two uploads may race for the first question; that of the second was refused.
FirstMayBeAnswered ==
  /\ NothingAnswered
  /\ media = [a \in Requests |-> FALSE]
  /\ upload = [a \in Requests |-> IF a = upload3 THEN "done" ELSE "idle"]

\* From the beginning, with no retry and no death.
FromDraft ==
  /\ Unscored /\ FirstMayBeAnswered
  /\ status = "DRAFT" /\ phase = "running" /\ timer = "none"
  /\ limit = [retries |-> 0, crashes |-> 0]

\* The time is up, and a process may die.
InGrace ==
  /\ Unscored /\ FirstMayBeAnswered
  /\ status = "IN_PROGRESS" /\ phase = "grace" /\ timer = "delayed"
  /\ limit = [retries |-> 0, crashes |-> 1]

\* Both questions are about to be answered, and submitted; the timer was lost, and the
\* locks have expired.
BothPrepared ==
  /\ Unscored /\ NothingAnswered
  /\ media = [a \in Requests |-> a # upload2]
  /\ upload = [a \in Requests |-> IF a = upload2 THEN "done" ELSE "prepared"]
  /\ status = "IN_PROGRESS" /\ phase = "grace" /\ timer = "none"
  /\ limit = [retries |-> 0, crashes |-> 0]

\* Just handed in by the user, with the questions of s answered.
HandedIn(s) ==
  /\ Unscored
  /\ session = [q \in Questions |-> IF q \notin s THEN None
                                    ELSE IF q = first THEN upload1 ELSE upload3]
  /\ scoring = [q \in Questions |-> IF q \in s THEN "PENDING" ELSE "SKIPPED"]
  /\ media = [a \in Requests |-> Target[a] \in s /\ a # upload2]
  /\ upload = [a \in Requests |-> "done"]
  /\ status = "SCORING" /\ phase = "closed" /\ timer = "none"
  /\ at = [p \in Enqueuers |-> IF p = "user" THEN "claimed" ELSE "idle"]

\* Both questions with a retry; one of them with a retry and a death.
ToBeRetried ==
  \/ HandedIn({first, second}) /\ limit = [retries |-> 1, crashes |-> 0]
  \/ HandedIn({first}) /\ limit = [retries |-> 1, crashes |-> 1]

Starts == FromDraft \/ InGrace \/ BothPrepared \/ ToBeRetried
StartsSpec == Starts /\ [][Next]_vars /\ Fairness

\* From the hand-in of both answers, with a retry.
RetrySpec ==
  /\ HandedIn({first, second}) /\ limit = [retries |-> 1, crashes |-> 0]
  /\ [][Next]_vars
=============================================================================
