CONSTANTS
    MaxUnits = 1
    Watched = {}
    MaxFaults = 0
    PanicStates = {}
    InsertionOrder = TRUE
    Targets = {"RUNNING"}
    MaxCalls = 0
SPECIFICATION FairSpec
PROPERTIES WaitAllEnds
