CONSTANTS
    Node = {n1, n2}
    HeartbeatTimeout = 3
    LockTTL = 3
    AnswerMax = 1
    PollPeriod = 1
SPECIFICATION FairSpec
INVARIANTS TypeOK OneServedStep ServedStepHolds StuckStepCut
PROPERTIES GuardKept StuckStepEnds
