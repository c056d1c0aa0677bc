SPECIFICATION FairSpec
CONSTANTS
  Senders = {s1, s2}
  LatestKinds = {"Volume"}
  OrderedKinds = {"Shutdown"}
  MainCap = 1
  ReserveCap = 1
  MaxCommands = 3
  MaxBatch = 2
INVARIANTS
    WorkerInv
PROPERTIES
    NothingLeftBehind
    LossOnlyByCoalescing
    QueuedIsServed
    ShutdownCompletes
