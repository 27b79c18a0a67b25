SPECIFICATION FairSpec
CONSTANTS
  Users = {a, u}
  Admins = {a}
  None = None
INVARIANTS
  AdminPageIsGranted
PROPERTIES
  NoLoginLoop
  EveryScreenSettles
