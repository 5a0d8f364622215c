SPECIFICATION MCFairSpec
CONSTANTS
  Task = {t1}
  InitialTask = t1
  Goal = {g1}
  None = None
  Inline = FALSE
  MaxCalls = 4
  MaxQuestions = 1
PROPERTIES ResetHonoured StopEnds QuestionAnswered SequencerTurns
CHECK_DEADLOCK FALSE
