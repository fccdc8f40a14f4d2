CONSTANTS
  None = None
  Headings = {1, 2}
  Names <- AllNames
  Title <- Titles
  Labels <- AllLabels
  Norm <- Norms
  Semantic <- Meanings
  Docs <- AllDocs
  Limit = 1
SPECIFICATION Spec
INVARIANTS
  NeverMixed
  LookupCurrent
CHECK_DEADLOCK FALSE
