CONSTANTS
    MaxThreads = 2
    MaxEvents = 2
    MaxStops = 2
SPECIFICATION FairSpec
INVARIANT TypeOK
INVARIANT StopIsCurrent
INVARIANT SelectionIsFirst
INVARIANT StopIsLocated
PROPERTY ImplementsContract
PROPERTY StopNoticed
CHECK_DEADLOCK FALSE
