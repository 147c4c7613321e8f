CONSTANTS
  Part = "manifests"
  Elements <- MCElements
  Payloads <- MCPayloads
  MaxRecords = 2
  MaxSpans = 6
  MaxWords = 1
  MaxMembers = 3
  NoCap = 1000
  EmitSourceMetadata = TRUE
SPECIFICATION Spec
INVARIANT TruncatedRefused
CHECK_DEADLOCK FALSE
