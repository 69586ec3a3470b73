CONSTANTS
  Steps = 2
  Budgets <- MCBudgets
  MaxTurns = 2
  FanOut = TRUE
  Overlap = FALSE
SPECIFICATION Spec
INVARIANTS
  GivesOwnStep
CHECK_DEADLOCK FALSE
