SPECIFICATION FairSpec
CONSTANTS
  first = first
  second = second
  submitter = submitter
  retrier = retrier
  Questions <- TwoQuestions
  Submitter = submitter
  Retrier = retrier
  MaxRetries = 1
  MaxFaults = 1
INVARIANTS ResultComplete
PROPERTIES SubmittedSettles ImplementsInterview
CHECK_DEADLOCK FALSE
