SPECIFICATION FairSpec
CONSTANTS
    MaxSnapshots = 2
    MaxFaults = 1
    CommandCapacity = 1
    EventCapacity = 2
    MaxBoots = 2
    MaxControls = 1
CHECK_DEADLOCK FALSE
INVARIANTS
    SaveInv
    ShutdownTellsTheTruth
PROPERTIES
    UnreadableFileIsKept
    SavesAsPromised
    CommitsBecomeDurable
    WorkerEnds
