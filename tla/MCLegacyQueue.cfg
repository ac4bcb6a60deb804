CONSTANTS
  Jobs = {j1}
  Workers = {w1, w2}
  MaxAttempts = 2
  PlanLimit = 2
  MaxSteps = 1
  Subjects = {1}
  Causes = {"answer"}
  MaxFaults = 1
  MaxReopened = 1
SPECIFICATION QueueSpec
CHECK_DEADLOCK FALSE
SYMMETRY Symmetry
INVARIANTS RowsAreHeld ReviewIsComplete SweptBeforeJudged EmailsPaidOnce
PROPERTY LifeIsKept
