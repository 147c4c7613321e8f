CONSTANTS
  Part = "all"
  Elements <- MCElements
  Payloads <- MCPayloads
  MaxRecords = 2
  MaxSpans = 6
  MaxWords = 1
  MaxMembers = 3
  NoCap = 1000
  EmitSourceMetadata = TRUE
SPECIFICATION Spec
INVARIANTS TypeOK BudgetKept PagesInOrder WalkMatchesReader LevelsCount CaptureMatchesSpans
PROPERTY GivesStream
CHECK_DEADLOCK FALSE
