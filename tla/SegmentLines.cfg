CONSTANTS
    Files <- MCFiles
    Loaded <- MCLoaded
    SourceLines <- MCSourceLines
    Addresses = {11}
    MaxBreakpoints = 1
    MaxUnread = 2
    MaxConnections = 1
SPECIFICATION Spec
INVARIANT SegmentLines
CHECK_DEADLOCK FALSE
