SPECIFICATION Spec
CONSTANTS
  Task = {t1, t2}
  InitialTask = t1
  Goal = {g1}
  None = None
  Inline = FALSE
  MaxCalls = 4
  MaxQuestions = 1
INVARIANT StartKept
CHECK_DEADLOCK FALSE
