\* A client under no obligation, one that goes on reading, and one that only reads.
CONSTANTS
  ChunkBound = 1
  QueueBytes = 2
  BatchBytes = 3
  Limit = 1
  ChunkSizes = {0, 1}
  EventSizes = {0, 5}
  MaxEvents = 1
  MaxMessages = 2
  EmitDocument = TRUE
  HasDeadline = TRUE
  ReadsLate = FALSE
SPECIFICATION Spec
PROPERTIES SlotComesBack ReaderIsAnswered EventsFlow
