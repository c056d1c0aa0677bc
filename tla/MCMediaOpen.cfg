SPECIFICATION FairSpec
CONSTANTS
  Intents = {"StartPaused"}
  MaxRequests = 2
  MaxRevision = 2
  MaxUpdates = 1
  QueueCap = 1
  MaxBatch = 1
CHECK_DEADLOCK FALSE
INVARIANTS
    OpenInv
    CommitFindsItsIntent
PROPERTIES
    SwitchesOnlyWhileAuthorized
    OneTerminal
    UpdatesAreAnswered
    DispatchIsResolved
    CandidateSettles
