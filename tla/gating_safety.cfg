SPECIFICATION Spec
CONSTANTS
  None = None
  Sessions = {s1}
  Customers = {c1, c2}
  Handlers = {h1, h2}
  MAX_ITERATIONS = 2
  Faults = TRUE
SYMMETRY Interchangeable
INVARIANTS
  CustomerIsProven
  VerifiedHasCustomer
  AttemptLimit
  DisclosedToOwnerOnly
  NotesTruthful
  GateInv
PROPERTIES
  VerdictIsFinal
  NoWayBack
  ImplementsChallenge
