CONSTANTS
    ChunkSize = 2
    MemorySizes = {3}
    MaxCommands = 3
    MaxEvents = 1
    MaxConnections = 1
SPECIFICATION Spec
INVARIANT ReturnsWhatItGot
CHECK_DEADLOCK FALSE
