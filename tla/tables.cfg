SPECIFICATION FairSpec
CONSTANTS
  None = None
  Tables <- AllTables
  Parents = {None, "p"}
  Terms = {None, "a"}
  Statuses = {None, "s"}
  Ids = {a}
  MaxPages = 2
  MaxWrites <- Writes
INVARIANTS
  PageIsOfThisList
  OwnWritesShown
  ErrorIsItsOwn
  AlwaysAWayBack
PROPERTIES
  LoadingEnds
