CONSTANTS
    N = 2
    RaiseOnHup = {}
    RaiseOnUsr1 = {2}
    MaxSignals = 2
    MaxCrashes = 1
SPECIFICATION FairSpec
INVARIANTS TypeOK LastSignalStays HandledOnce SameSignalForAll
PROPERTIES StepsGoOn
CHECK_DEADLOCK FALSE
