CONSTANTS
    MaxUnits = 1
    Watched = {1}
    MaxFaults = 2
    PanicStates = {}
    InsertionOrder = TRUE
    Targets = {"RUNNING", "STOPPED"}
    MaxCalls = 3
SPECIFICATION FairSpec
PROPERTIES SelfHealing NumbIsKilled KillsEnd StoppedWhenAsked StopReachesShutdown ShutdownEnds
