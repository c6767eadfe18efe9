CONSTANTS
    MaxSessions = 3
    AddedPlugins = {"LLDB"}
    MaxStops = 2
SPECIFICATION FairSpec
INVARIANT TypeOK
INVARIANT OneLiveSession
INVARIANT RunAfterTarget
INVARIANT RunningIsPolled
PROPERTY ViewFollowsSession
PROPERTY FirstStopIsShown
PROPERTY CloseReturns
PROPERTY RefusedTargetCloses
CHECK_DEADLOCK FALSE
