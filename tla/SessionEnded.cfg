CONSTANTS
    MaxSessions = 3
    AddedPlugins = {"LLDB"}
    MaxStops = 2
SPECIFICATION FairSpec
PROPERTY SessionEndAnnounced
CHECK_DEADLOCK FALSE
