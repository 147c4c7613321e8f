\* What the comments on the counters say of a finished call.
CONSTANTS
  ChunkBound = 1
  QueueBytes = 2
  BatchBytes = 2
  Limit = 1
  ChunkSizes = {0, 1}
  EventSizes = {0, 5}
  MaxEvents = 1
  MaxMessages = 3
  EmitDocument = TRUE
  HasDeadline = TRUE
  ReadsLate = FALSE
SPECIFICATION Spec
INVARIANTS CountedAsTold
