SPECIFICATION Spec
CONSTANTS
  first = first
  second = second
  upload1 = upload1
  upload2 = upload2
  upload3 = upload3
  none = none
  None = none
  Questions <- TwoQuestions
  Requests <- TwoRequests
  Target <- PairTarget
  MaxRetries = 1
  MaxCrashes = 0
INVARIANT QueuedIsRetryable
CHECK_DEADLOCK FALSE
