SPECIFICATION Spec
CONSTANTS
  first = first
  second = second
  upload1 = upload1
  upload2 = upload2
  upload3 = upload3
  none = none
  None = none
  Questions <- TwoQuestions
  Requests <- TwoRequests
  Target <- PairTarget
  MaxRetries = 0
  MaxCrashes = 1
INVARIANT StuckIsRetryable
CHECK_DEADLOCK FALSE
