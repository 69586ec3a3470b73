CONSTANTS
  r1 = r1
  r2 = r2
  c1 = c1
  Runners <- MCRunners
  Children <- MCChildren
  Engines <- MCEngines
  Tasks <- MCTasks
  OnCall <- MCOnCall
  Requests <- MCRequests
  Steps = 3
  Budgets <- MCBudgets
  MaxTurns = 4
  FanOut = FALSE
  Overlap = FALSE
SPECIFICATION MCSpec
INVARIANTS
  AllCallersReceiveResult
CHECK_DEADLOCK FALSE
