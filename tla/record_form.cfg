SPECIFICATION Spec
CONSTANTS
  Texts <- MCTexts
  Trimmed <- MCTrimmed
  Length <- MCLength
  Owners <- MCOwners
  Label <- MCLabel
  Empty = ""
  None = None
INVARIANTS
  CreatedForWhatIsShown
