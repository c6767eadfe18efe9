CONSTANTS
    Client = {c1, c2}
    NoClient = NoClient
    Action = {2, 3, 4}
    Body = {3}
    ReplySize = {3}
    StateSize = 3
    HeaderSize = 2
    BlockSize = 2
    MaxPosts = 2
    CheckEvery = 2
SPECIFICATION CpuFairSpec
INVARIANT TypeOK
INVARIANT CommandsInOrder
PROPERTY NothingAfterCutReply
INVARIANT CpuTypeOK
INVARIANT OneInstructionPerStep
PROPERTY MessagesObeyed
CHECK_DEADLOCK FALSE
