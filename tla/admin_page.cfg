SPECIFICATION Spec
CONSTANTS
  None = None
  Customers = {c1, c2}
  Shipments = {s1, s2}
  MaxHistory = 4
SYMMETRY Sym
INVARIANTS
  TypeOK
  ShowsWhatWasAsked
  SidebarEndsFilters
