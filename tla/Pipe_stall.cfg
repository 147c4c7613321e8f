\* What the comment on the stall window says of a stalled client.
CONSTANTS
  ChunkBound = 1
  QueueBytes = 2
  BatchBytes = 1
  Limit = 1
  ChunkSizes = {1}
  EventSizes = {0, 5}
  MaxEvents = 3
  MaxMessages = 1
  EmitDocument = FALSE
  HasDeadline = FALSE
  ReadsLate = FALSE
SPECIFICATION Spec
INVARIANTS StalledTookNothing
