CONSTANTS
    Node = {n1}
    HeartbeatTimeout = 2
    LockTTL = 3
    AnswerMax = 1
    PollPeriod = 1
SPECIFICATION FairSpec
PROPERTIES MarkIsSeen
