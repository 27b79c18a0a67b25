SPECIFICATION Spec
CONSTANTS
  Prompts = {1, 2, 3}
  Sessions = {s1, s2}
  Calls = {c1, c2}
  None = None
  Budgets <- SafetyBudgets
SYMMETRY Sym
INVARIANTS
  VerifiedBadgeEarned
  ForgottenStaysForgotten
  ReplyFollowsItsPrompt
  ClosedTakesNoMore
CHECK_DEADLOCK FALSE
