CONSTANTS
    ChunkSize = 2
    MemorySizes = {3}
    MaxCommands = 3
    MaxEvents = 1
    MaxConnections = 2
SPECIFICATION FairSpec
INVARIANT TypeOK
INVARIANT ReplyIsForCommand
INVARIANT ExecutedOnce
INVARIANT MemoryWithoutGaps
PROPERTY ModeLeftTogether
PROPERTY CallReturns
CHECK_DEADLOCK FALSE
