SPECIFICATION Spec
CONSTANTS
  None = None
  Sessions = {s1}
  Customers = {c1}
  Handlers = {h1}
  MAX_ITERATIONS = 2
  Faults = FALSE
INVARIANTS
  RetrySendsCode
