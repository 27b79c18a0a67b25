SPECIFICATION FairSpec
CONSTANTS
  Prompts = {1, 2}
  Sessions = {s1, s2}
  Calls = {c1}
  None = None
  Budgets <- SettleBudgets
PROPERTIES
  SubmittedIsAnswered
  ClosingEnds
CHECK_DEADLOCK FALSE
