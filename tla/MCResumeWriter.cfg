SPECIFICATION FairSpec
CONSTANTS
    MaxSnapshots = 3
    MaxFaults = 2
    Positions <- OnePosition
    MaxSwitches = 1
CHECK_DEADLOCK FALSE
INVARIANTS
    ResumeInv
PROPERTIES
    FileFollowsRevisions
    AcceptedIsWrittenOrReported
    StopEndsWriter
