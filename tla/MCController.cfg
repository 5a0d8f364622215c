SPECIFICATION MCSpec
CONSTANTS
  Task = {t1, t2}
  InitialTask = t1
  Goal = {g1}
  None = None
  Inline = FALSE
  MaxCalls = 5
  MaxQuestions = 2
INVARIANTS RequestEndsSegment NoOrphan SingleTurn QuestionConserved TaskIsTold StartCurrent
CHECK_DEADLOCK FALSE
