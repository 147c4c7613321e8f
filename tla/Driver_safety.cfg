\* Every document of up to seven elements, in each family, every option on.
CONSTANTS
  Families = {"generic", "xbrl", "doclang", "mapped"}
  Islands = TRUE
  Metadata = TRUE
  MaxDepth = 6
  MaxElements = 7
SPECIFICATION Spec
INVARIANTS TypeOK StackMatchesReader ShapesOnStack CaptionInWrapper TableMatchesStack TextOnTop
PROPERTIES CaptionAnswered OwnTextGiven GivesStream
