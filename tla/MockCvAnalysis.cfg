SPECIFICATION FairSpec
CONSTANTS
  request1 = request1
  request2 = request2
  none = none
  None = none
  Requests <- TwoRequests
  MaxAttempts = 2
  MaxCalls = 2
  MaxFaults = 1
  MaxExpiries = 1
INVARIANTS VerdictOfCurrentAttempt OneQuestionSet ChargedForQuestions WaitingHasJob
PROPERTIES StrandedForGood AnalysisSettles RunningInterviewKept ImplementsOffer
CHECK_DEADLOCK FALSE
