SPECIFICATION Spec
CHECK_DEADLOCK FALSE
CONSTANTS
  Intents = {"StartPlaying", "StartPaused"}
  MaxRequests = 1
  MaxRevision = 3
  MaxUpdates = 2
  QueueCap = 1
  MaxBatch = 1
PROPERTIES RevisionNeverFalls
