CONSTANTS
    Files <- MCFiles
    Loaded <- MCLoaded
    SourceLines <- MCSourceLines
    Addresses = {11}
    MaxBreakpoints = 1
    MaxUnread = 2
    MaxConnections = 1
SPECIFICATION FairSpec
INVARIANT TypeOK
INVARIANT TablesOfTheFile
INVARIANT LocationIsWhereStopped
INVARIANT FirstSegmentLines
PROPERTY BreakpointsArmed
PROPERTY StopNoticed
CHECK_DEADLOCK FALSE
