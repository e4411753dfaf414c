CONSTANTS
    MaxUnits = 2
    Watched = {1}
    MaxFaults = 1
    PanicStates = {"FAILED", "NUMB"}
    InsertionOrder = TRUE
    Targets = {"RUNNING", "STOPPED"}
    MaxCalls = 1
SPECIFICATION HubFairSpec
INVARIANTS ForcedNotRunning SnapshotHolds
PROPERTIES PanicNeverRestarts FailureStopsHub
