CONSTANTS
    Second = 2
    Timeout = 10
    StepPeriod = 2
    LoopPeriods = {0, 1}
    DeltaMax = 2
    SignumMax = 1
    IterMax = 2
    Lag = 1
    MaxForward = 1
    MaxBack = 1
    BirthAges = {0, 1, 10}
    AgeMax = 12
SPECIFICATION Spec
INVARIANTS TypeOK HealthyNotNumb StopsInTime EventsTellTruth
PROPERTIES ServesAsProcess
