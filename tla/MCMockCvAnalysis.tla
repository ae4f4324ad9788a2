--------------------------- MODULE MCMockCvAnalysis ---------------------------
(* Instances of MockCvAnalysis for TLC: two requests at a time.               *)
EXTENDS MockCvAnalysis

CONSTANTS request1, request2, none

TwoRequests == {request1, request2}
=============================================================================
