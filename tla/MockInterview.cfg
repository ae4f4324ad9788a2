SPECIFICATION StartsSpec
CONSTANTS
  first = first
  second = second
  upload1 = upload1
  upload2 = upload2
  upload3 = upload3
  none = none
  None = none
  Questions <- TwoQuestions
  Requests <- ThreeRequests
  Target <- RaceTarget
  MaxRetries = 1
  MaxCrashes = 1
INVARIANTS ResultComplete OneOverview SkippedIffUnanswered SessionHasAudio
PROPERTIES SubmittedSettles StartedIsSubmitted ResultFinal ImplementsInterview
CHECK_DEADLOCK FALSE
