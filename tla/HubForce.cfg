CONSTANTS
    MaxUnits = 2
    Watched = {1}
    MaxFaults = 1
    PanicStates = {}
    InsertionOrder = TRUE
    Targets = {"RUNNING", "STOPPED"}
    MaxCalls = 1
SPECIFICATION Spec
INVARIANTS TypeOK ForcedNotRunning AtMostOneLateStart ServeReturnsAlone EveryProcessManaged
PROPERTIES OneProcessPerUnit HubKeepsPromise
