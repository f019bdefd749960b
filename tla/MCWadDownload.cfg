CONSTANTS
  MaxStarts = 3
  MaxFiles = 1
SPECIFICATION FairSpec
INVARIANTS OneWorker StopMeansStop ResumeIsItsOwn
PROPERTIES CompletionIsItsOwn QuestionHolds DeferredSettles
CHECK_DEADLOCK FALSE
