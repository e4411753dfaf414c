CONSTANTS
    Node = {n1, n2}
    HeartbeatTimeout = 1
    LockTTL = 3
    AnswerMax = 1
    PollPeriod = 1
SPECIFICATION Spec
INVARIANTS OneStep
