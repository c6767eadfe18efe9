CONSTANTS
    MaxSessions = 3
    AddedPlugins = {"LLDB"}
    MaxStops = 2
SPECIFICATION Spec
PROPERTY StartOnOwnReply
CHECK_DEADLOCK FALSE
