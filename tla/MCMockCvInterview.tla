-------------------------- MODULE MCMockCvInterview --------------------------
(* Instances of MockCvInterview for TLC: two questions.                       *)
EXTENDS MockCvInterview

CONSTANTS first, second, submitter, retrier

TwoQuestions == {first, second}
=============================================================================
