SPECIFICATION Spec
CONSTANTS
  None = None
  Sessions = {s1}
  Customers = {c1}
  Handlers = {h1, h2}
  MAX_ITERATIONS = 2
  Faults = FALSE
PROPERTIES
  NotesPreserved
