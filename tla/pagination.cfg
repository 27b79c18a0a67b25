SPECIFICATION Spec
CONSTANTS
  ItemsPerPage = 3
  MaxItems = 30
INVARIANTS
  WindowIsRight
PROPERTIES
  ClicksStayOnRows
