CONSTANTS
    N = 2
    RaiseOnHup = {}
    RaiseOnUsr1 = {2}
    MaxSignals = 2
    MaxCrashes = 0
SPECIFICATION Spec
INVARIANTS NothingLost
