SPECIFICATION Spec
CONSTANTS
  Effect <- Effects
  Callback <- ThreeAnswers
  Resource = {owned}
  Says <- Verdict
  TimeBudget = 2
  MaxTime = 3
  MaxPosts = 2
  MaxCrashes = 1
CHECK_DEADLOCK FALSE
INVARIANTS RoundTypeOK FinishedOwnsNothing AnsweredAttemptIsClosed OnlyACrashStrands
PROPERTIES LaneImplemented NoAnswerInAClosedWait RecordedBeforeExit WorkerLeaves AnswerIsTaken
