\* JATS articles with captioned figures.
CONSTANTS
  Families = {"mapped"}
  Islands = TRUE
  Metadata = TRUE
  MaxDepth = 4
  MaxElements = 5
SPECIFICATION Spec
PROPERTIES CaptionInOrder
