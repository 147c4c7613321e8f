\* A client that uploads everything, then reads: four chunks against a cap of one.
CONSTANTS
  ChunkBound = 1
  QueueBytes = 2
  BatchBytes = 2
  Limit = 1
  ChunkSizes = {0, 1}
  EventSizes = {0, 5}
  MaxEvents = 1
  MaxMessages = 4
  EmitDocument = TRUE
  HasDeadline = FALSE
  ReadsLate = TRUE
SPECIFICATION PromptSpec
PROPERTIES LateReaderIsAnswered
