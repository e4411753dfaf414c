CONSTANTS
    MaxUnits = 2
    Watched = {}
    MaxFaults = 0
    PanicStates = {}
    InsertionOrder = TRUE
    Targets = {"RUNNING", "STOPPED"}
    MaxCalls = 0
SPECIFICATION Spec
INVARIANTS NoProcessOutlivesServe
