CONSTANTS
    MaxSignals = 2
SPECIFICATION FairSpec
INVARIANTS TypeOK OnlyEarlyOrphans ServesWithEngines EndsWhenAsked
PROPERTIES TermEnds
\* A process in pause(), or whose hub is gone, may have nothing left to do.
CHECK_DEADLOCK FALSE
