SPECIFICATION Spec
CONSTANTS
    MaxSnapshots = 2
    MaxFaults = 0
    Positions <- OnePosition
    MaxSwitches = 0
INVARIANT ShutdownWritesNewest
CHECK_DEADLOCK FALSE
