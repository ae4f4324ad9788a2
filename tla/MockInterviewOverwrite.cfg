SPECIFICATION RetrySpec
CONSTANTS
  first = first
  second = second
  upload1 = upload1
  upload2 = upload2
  upload3 = upload3
  none = none
  None = none
  Questions <- TwoQuestions
  Requests <- ThreeRequests
  Target <- RaceTarget
  MaxRetries = 1
  MaxCrashes = 0
PROPERTY ResultKept
CHECK_DEADLOCK FALSE
